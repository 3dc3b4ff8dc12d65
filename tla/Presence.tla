------------------------------ MODULE Presence ------------------------------
(***************************************************************************)
(* The hold on the phone's 10191 connection that keeps this PC             *)
(* discoverable: presence_once (pcsuite-core/src/connect.rs), the task     *)
(* around it and the handle the app has of it (PcCloudPresence in          *)
(* pcsuite-ffi/src/lib.rs).                                                *)
(*                                                                         *)
(* The held connection is upgraded in place into a formal connect, either  *)
(* because the phone asks for one or because the app does; a session then  *)
(* rides on it.  An ask or an upgrade and the session it leads to are one  *)
(* "ride".  The pause between two attempts has no length here, and neither *)
(* have the timeouts: they are steps that may happen.                      *)
(***************************************************************************)
EXTENDS Naturals

CONSTANTS
  MaxAsk,      \* bound: how often the phone asks this PC to connect
  MaxUpgrade   \* bound: how often the app asks for an upgrade

ASSUME AskAssumption == MaxAsk \in Nat
ASSUME UpgradeAssumption == MaxUpgrade \in Nat

Ask == 1 .. MaxAsk
Upgrade == (MaxAsk + 1) .. (MaxAsk + MaxUpgrade)
Ride == 1 .. (MaxAsk + MaxUpgrade)
None == 0

VARIABLES
  hold,        \* where the hold task is
  ride,        \* the ride presence_once is busy with
  registered,  \* the ride whose token is registered on the connection
  push,        \* the ask that waits to be read on it
  eof,         \* the phone has closed it
  stop,        \* stop_tx
  queued,      \* the request in upgrade_rx
  answerSlot,  \* AnswerSlot: the ask whose sender is parked
  answer,      \* what was sent through the senders of the asks
  parked,      \* connect_requested
  endSlot,     \* session_ended: the ride whose sender is parked
  ended,       \* the `ended` channel of each ride
  app,         \* where the app's thread is
  mine,        \* the ride it works on
  reply,       \* what the reply channel of its upgrade holds
  asks,        \* how many asks the phone has sent
  ups,         \* how many upgrades the app has asked for
  outcome,     \* history: how the session of an ask came up
  told,        \* history: the [27] sent for an ask
  abandoned,   \* history: asks presence stopped waiting for
  over         \* history: rides whose session was reported to be over

wireVars == <<registered, push, eof>>
holdVars == <<hold, ride, told, abandoned>>
slotVars == <<answerSlot, answer, parked, endSlot, ended>>
appVars == <<app, mine, ups, outcome, over>>
vars == <<wireVars, holdVars, stop, queued, slotVars, appVars, reply, asks>>

\* Where the connection is open, and where the hold has a ride at hand.
Connected == {"greeting", "holding", "upgrading", "asked", "asking", "reporting", "riding"}
Busy == {"upgrading", "asked", "asking", "reporting", "riding"}

TypeOK ==
  /\ hold \in Connected \union {"resolving", "connecting", "backoff", "stopped"}
  /\ ride \in Ride \union {None}
  /\ registered \in Ride \union {None}
  /\ push \in Ask \union {None}
  /\ eof \in BOOLEAN
  /\ stop \in BOOLEAN
  /\ queued \in Upgrade \union {None}
  /\ answerSlot \in Ask \union {None}
  /\ answer \in [Ask -> {"none", "ok", "failed"}]
  /\ parked \in Ask \union {None}
  /\ endSlot \in Ride \union {None}
  /\ ended \in [Ride -> {"open", "gone"}]
  /\ app \in {"idle", "sending", "waiting", "got", "connecting", "reporting", "live"}
  /\ mine \in Ride \union {None}
  /\ app \in {"sending", "waiting", "got"} => mine \in Upgrade
  /\ app = "reporting" => mine \in Ask
  /\ hold \in {"asked", "asking", "reporting"} => ride \in Ask
  /\ hold \in {"upgrading", "riding"} => ride \in Ride
  /\ reply \in {"none", "token", "failed"}
  /\ asks \in 0 .. MaxAsk
  /\ ups \in 0 .. MaxUpgrade
  /\ outcome \in [Ask -> {"none", "ok", "failed"}]
  /\ told \in [Ask -> {"none", "ok", "failed"}]
  /\ abandoned \subseteq Ask
  /\ over \subseteq Ride

Init ==
  /\ hold = "resolving"
  /\ ride = None
  /\ registered = None
  /\ push = None
  /\ eof = FALSE
  /\ stop = FALSE
  /\ queued = None
  /\ answerSlot = None
  /\ answer = [a \in Ask |-> "none"]
  /\ parked = None
  /\ endSlot = None
  /\ ended = [r \in Ride |-> "open"]
  /\ app = "idle"
  /\ mine = None
  /\ reply = "none"
  /\ asks = 0
  /\ ups = 0
  /\ outcome = [a \in Ask |-> "none"]
  /\ told = [a \in Ask |-> "none"]
  /\ abandoned = {}
  /\ over = {}

-----------------------------------------------------------------------------
(* The hold task *)

\* The ask presence waits for an answer to, and drops the receiver of.
GivesUpAsk == IF hold = "asking" THEN abandoned \union {ride} ELSE abandoned

\* presence_once returns, and its socket closes.
Leaves(next) ==
  /\ hold' = next
  /\ ride' = None
  /\ registered' = None
  /\ push' = None
  /\ eof' = FALSE
  /\ abandoned' = GivesUpAsk
  /\ UNCHANGED told

\* The hold goes on with the connection as it is.
KeepsHolding ==
  /\ hold' = "holding"
  /\ ride' = None
  /\ UNCHANGED wireVars

OnlyHold == UNCHANGED <<stop, appVars, asks>>

\* Before the first attempt the phone's seed is looked up, before the others its
\* address. Nothing comes of it that is told apart here, but the task does not
\* look at stop_tx while it waits for the connection center.
Resolves ==
  /\ hold = "resolving"
  /\ hold' = "connecting"
  /\ OnlyHold
  /\ UNCHANGED <<ride, told, abandoned, wireVars, queued, slotVars, reply>>

\* The 10191 connection is opened.
Dials ==
  /\ hold = "connecting"
  /\ \/ hold' = "greeting" /\ UNCHANGED <<ride, told, abandoned, wireVars>>
     \/ Leaves("backoff")
  /\ OnlyHold
  /\ UNCHANGED <<queued, slotVars, reply>>

\* device_info is exchanged. Whatever is read is taken for the reply, and no
\* reply at all is as good.
Greets ==
  /\ hold = "greeting"
  /\ hold' = "holding"
  /\ push' = None
  /\ OnlyHold
  /\ UNCHANGED <<ride, told, abandoned, registered, eof, queued, slotVars, reply>>

\* A local request is taken from the queue.
TakesUpgrade ==
  /\ hold = "holding"
  /\ queued # None
  /\ hold' = "upgrading"
  /\ ride' = queued
  /\ queued' = None
  /\ OnlyHold
  /\ UNCHANGED <<told, abandoned, wireVars, slotVars, reply>>

\* The call whose request this is still waits for the reply.
Awaited(u) == app = "waiting" /\ mine = u

\* The token is registered; without a caller it stays registered.
Upgrades ==
  /\ hold = "upgrading"
  /\ registered' = ride
  /\ push' = None
  /\ IF Awaited(ride)
       THEN reply' = "token" /\ hold' = "riding" /\ UNCHANGED ride
       ELSE hold' = "holding" /\ ride' = None /\ UNCHANGED reply
  /\ OnlyHold
  /\ UNCHANGED <<told, abandoned, eof, queued, slotVars>>

UpgradeFails ==
  /\ hold = "upgrading"
  /\ eof
  /\ reply' = IF Awaited(ride) THEN "failed" ELSE reply
  /\ KeepsHolding
  /\ OnlyHold
  /\ UNCHANGED <<told, abandoned, queued, slotVars>>

\* The phone's request is read and acknowledged with [25].
ReadsAsk ==
  /\ hold = "holding"
  /\ push # None
  /\ hold' = "asked"
  /\ ride' = push
  /\ push' = None
  /\ OnlyHold
  /\ UNCHANGED <<told, abandoned, registered, eof, queued, slotVars, reply>>

\* The connection is upgraded for it, and the token parked for the app together
\* with the sender of the answer.
ParksToken ==
  /\ hold = "asked"
  /\ registered' = ride
  /\ push' = None
  /\ hold' = "asking"
  /\ answerSlot' = ride
  /\ parked' = ride
  /\ OnlyHold
  /\ UNCHANGED <<ride, told, abandoned, eof, queued, answer, endSlot, ended, reply>>

\* The answer of the app arrives.
AnswerArrives ==
  /\ hold = "asking"
  /\ answer[ride] # "none"
  /\ hold' = "reporting"
  /\ OnlyHold
  /\ UNCHANGED <<ride, told, abandoned, wireVars, queued, slotVars, reply>>

\* CONNECT_ANSWER_TIMEOUT passes.
AnswerExpires ==
  /\ hold = "asking"
  /\ abandoned' = GivesUpAsk
  /\ KeepsHolding
  /\ OnlyHold
  /\ UNCHANGED <<told, queued, slotVars, reply>>

\* [27] is sent. A session that came up rides on the connection from then on.
Reports27 ==
  /\ hold = "reporting"
  /\ told' = [told EXCEPT ![ride] = answer[ride]]
  /\ IF answer[ride] = "ok"
       THEN hold' = "riding" /\ UNCHANGED <<ride, wireVars>>
       ELSE KeepsHolding
  /\ OnlyHold
  /\ UNCHANGED <<abandoned, queued, slotVars, reply>>

\* Mutant: a request that comes while another is being answered is taken too.
TakesNextAsk ==
  /\ hold \in {"asking", "riding"}
  /\ push # None
  /\ ride' = push
  /\ push' = None
  /\ hold' = "asking"
  /\ answerSlot' = push
  /\ parked' = push
  /\ OnlyHold
  /\ UNCHANGED <<told, abandoned, registered, eof, queued, answer, endSlot, ended, reply>>

\* What the phone sends while a request is answered or a session rides is not
\* acted upon.
IgnoresPush ==
  /\ hold \in {"asking", "riding"}
  /\ push # None
  /\ push' = None
  /\ OnlyHold
  /\ UNCHANGED <<hold, ride, told, abandoned, registered, eof, queued, slotVars, reply>>

\* Mutant: the connection of a session that is over is held on to.
HoldsOn ==
  /\ hold = "riding"
  /\ ended[ride] = "gone"
  /\ KeepsHolding
  /\ OnlyHold
  /\ UNCHANGED <<told, abandoned, queued, slotVars, reply>>

\* The session that rides on the connection is over.
RideEnds ==
  /\ hold = "riding"
  /\ ended[ride] = "gone"
  /\ Leaves("backoff")
  /\ OnlyHold
  /\ UNCHANGED <<queued, slotVars, reply>>

\* A read finds the connection closed, or a write fails on it.
HangsUp ==
  /\ hold \in Connected \ {"upgrading"}
  /\ eof
  /\ Leaves("backoff")
  /\ OnlyHold
  /\ UNCHANGED <<queued, slotVars, reply>>

\* The pause is over.
Redials ==
  /\ hold = "backoff"
  /\ hold' = "resolving"
  /\ OnlyHold
  /\ UNCHANGED <<ride, told, abandoned, wireVars, queued, slotVars, reply>>

\* The task ends, and with it the queue and the reply of a request that was in it
\* or at hand.
TaskEnds ==
  /\ hold # "stopped"
  /\ stop
  /\ Leaves("stopped")
  /\ queued' = None
  /\ reply' = IF reply = "none" /\ app = "waiting" THEN "failed" ELSE reply
  /\ OnlyHold
  /\ UNCHANGED slotVars

\* The waits of the task also wait for stop_tx, that for the connection center
\* excepted.
SeesStop == hold # "resolving" /\ TaskEnds

\* The handle is dropped while no call uses it: the task is aborted at any wait.
Aborts == app \notin {"sending", "waiting", "got"} /\ TaskEnds

Hold ==
  \/ Resolves \/ Dials \/ Greets \/ TakesUpgrade \/ Upgrades \/ UpgradeFails
  \/ ReadsAsk \/ ParksToken \/ AnswerArrives \/ AnswerExpires \/ Reports27
  \/ IgnoresPush \/ RideEnds \/ HangsUp \/ Redials \/ SeesStop \/ Aborts

-----------------------------------------------------------------------------
(* The app, which has one session at a time, and its handle *)

OnlyApp == UNCHANGED <<holdVars, wireVars, stop, asks>>

\* take_connect_request: a token is taken and a session opened with it.
TakesRequest ==
  /\ app = "idle"
  /\ parked # None
  /\ app' = "connecting"
  /\ mine' = parked
  /\ parked' = None
  /\ OnlyApp
  /\ UNCHANGED <<queued, answerSlot, answer, endSlot, ended, ups, outcome, over, reply>>

\* pcsuite_connect_lan_token, or pcsuite_connect_lan, returns.
ConnectReturns(result) ==
  /\ app = "connecting"
  /\ IF mine \in Ask
       THEN app' = "reporting" /\ outcome' = [outcome EXCEPT ![mine] = result]
       ELSE app' = "live" /\ UNCHANGED outcome
  /\ OnlyApp
  /\ UNCHANGED <<mine, queued, slotVars, ups, over, reply>>

\* A sender is parked in session_ended; the one it replaces is dropped.
ParksEnd(r) ==
  /\ endSlot' = r
  /\ ended' = IF endSlot = None THEN ended ELSE [ended EXCEPT ![endSlot] = "gone"]

\* Mutant: the sender that is parked belongs to the ask that the app took.
ReportsParkingMine ==
  /\ app = "reporting"
  /\ app' = IF outcome[mine] = "ok" THEN "live" ELSE "idle"
  /\ mine' = IF outcome[mine] = "ok" THEN mine ELSE None
  /\ answerSlot' = None
  /\ IF answerSlot = None
       THEN UNCHANGED <<answer, endSlot, ended>>
       ELSE /\ answer' = [answer EXCEPT ![answerSlot] = outcome[mine]]
            /\ IF outcome[mine] = "ok"
                 THEN ParksEnd(mine)
                 ELSE UNCHANGED <<endSlot, ended>>
  /\ OnlyApp
  /\ UNCHANGED <<queued, parked, ups, outcome, over, reply>>

\* report_connect_result: the sender in the slot is used, whatever ask it is of.
ReportsResult ==
  /\ app = "reporting"
  /\ app' = IF outcome[mine] = "ok" THEN "live" ELSE "idle"
  /\ mine' = IF outcome[mine] = "ok" THEN mine ELSE None
  /\ answerSlot' = None
  /\ IF answerSlot = None
       THEN UNCHANGED <<answer, endSlot, ended>>
       ELSE /\ answer' = [answer EXCEPT ![answerSlot] = outcome[mine]]
            /\ IF outcome[mine] = "ok"
                 THEN ParksEnd(answerSlot)
                 ELSE UNCHANGED <<endSlot, ended>>
  /\ OnlyApp
  /\ UNCHANGED <<queued, parked, ups, outcome, over, reply>>

\* The session is over, or did not come up: report_session_ended.
ReportsEnd ==
  /\ app = "live"
  /\ app' = "idle"
  /\ over' = IF mine = None THEN over ELSE over \union {mine}
  /\ mine' = None
  /\ endSlot' = None
  /\ ended' = IF endSlot = None THEN ended ELSE [ended EXCEPT ![endSlot] = "gone"]
  /\ OnlyApp
  /\ UNCHANGED <<queued, answerSlot, answer, parked, ups, outcome, reply>>

\* upgrade_for_connect makes its channels.
AsksUpgrade ==
  /\ app = "idle"
  /\ ups < MaxUpgrade
  /\ ups' = ups + 1
  /\ mine' = MaxAsk + ups + 1
  /\ app' = "sending"
  /\ reply' = "none"
  /\ OnlyApp
  /\ UNCHANGED <<queued, slotVars, outcome, over>>

\* The queue has room for one request.
SendsRequest ==
  /\ app = "sending"
  /\ hold # "stopped"
  /\ queued = None
  /\ queued' = mine
  /\ app' = "waiting"
  /\ OnlyApp
  /\ UNCHANGED <<mine, slotVars, ups, outcome, over, reply>>

GotToken ==
  /\ app = "waiting"
  /\ reply = "token"
  /\ app' = "got"
  /\ OnlyApp
  /\ UNCHANGED <<mine, queued, slotVars, ups, outcome, over, reply>>

\* The sender that ends the ride is remembered, and a session opened.
StoresEnd ==
  /\ app = "got"
  /\ ParksEnd(mine)
  /\ app' = "connecting"
  /\ OnlyApp
  /\ UNCHANGED <<mine, queued, answerSlot, answer, parked, ups, outcome, over, reply>>

\* "" is returned: 15s have passed, the upgrade failed or the task is gone. The
\* app registers on a connection of its own, and the phone closes the held one.
FallsBack ==
  /\ \/ app = "waiting" /\ reply # "token"
     \/ app = "sending" /\ hold = "stopped"
  /\ app' = "connecting"
  /\ ended' = [ended EXCEPT ![mine] = "gone"]
  /\ mine' = None
  /\ eof' = (eof \/ hold \in Connected)
  /\ UNCHANGED <<holdVars, registered, push, stop, asks, queued, answerSlot, answer, parked,
                 endSlot, ups, outcome, over, reply>>

App ==
  \/ TakesRequest \/ (\E result \in {"ok", "failed"} : ConnectReturns(result))
  \/ ReportsResult \/ ReportsEnd
  \/ AsksUpgrade \/ SendsRequest \/ GotToken \/ StoresEnd \/ FallsBack

Stops ==
  /\ ~stop
  /\ stop' = TRUE
  /\ UNCHANGED <<wireVars, holdVars, queued, slotVars, appVars, reply, asks>>

-----------------------------------------------------------------------------
(* The phone *)

\* The user of the phone taps "connect".
PhoneAsks ==
  /\ hold \in Connected
  /\ ~eof
  /\ push = None
  /\ asks < MaxAsk
  /\ asks' = asks + 1
  /\ push' = asks + 1
  /\ UNCHANGED <<registered, eof, holdVars, stop, queued, slotVars, appVars, reply>>

\* The connection ends: the phone closes it, sleeps or leaves the network.
PhoneCloses ==
  /\ hold \in Connected
  /\ ~eof
  /\ eof' = TRUE
  /\ UNCHANGED <<registered, push, holdVars, stop, queued, slotVars, appVars, reply, asks>>

Next == Hold \/ App \/ Stops \/ PhoneAsks \/ PhoneCloses

Spec == Init /\ [][Next]_vars

\* The runtime polls the task, and its waits have timeouts; a call of the app
\* goes on when it can.
Fairness ==
  /\ WF_vars(Hold)
  /\ WF_vars(TakesUpgrade)
  /\ WF_vars(RideEnds)
  /\ WF_vars(SeesStop)
  /\ WF_vars(SendsRequest \/ GotToken \/ StoresEnd \/ FallsBack)

FairSpec == Spec /\ Fairness

-----------------------------------------------------------------------------
(* Properties *)

\* While a session rides on the held connection somebody can tell presence that
\* it is over: its sender is parked, used or gone, or about to be parked by
\* upgrade_for_connect. (Were it lost without being dropped, the phone would
\* show this PC as connected for good.)
RideHasEnd ==
  hold = "riding" =>
    \/ endSlot = ride
    \/ ended[ride] = "gone"
    \/ app \in {"waiting", "got"} /\ mine = ride

\* Presence has stopped waiting for this ask or an earlier one. The app does not
\* know: what it reports of that one goes to the ask whose sender is parked.
Misled(a) == \E b \in abandoned : b <= a

\* The [27] sent for an ask says how the session of that ask came up.
AnswersOwn ==
  \A a \in Ask : told[a] # "none" => told[a] = outcome[a] \/ Misled(a)

\* A connection upgraded for a session is let go when the app reports the
\* session's end, so that the phone does not show this PC as connected with
\* nobody behind it. (An answer that comes too late is the exception.)
EndedReleases ==
  \A r \in Ride :
    r \in over ~> registered # r \/ (r \in Ask /\ Misled(r))
=============================================================================
