------------------------------ MODULE ClipLink ------------------------------
(***************************************************************************)
(* How the clipboard link of a session comes up and what the app is told   *)
(* about it: the SHADOW_LIKE handshake (clip_handshake), the 8904 server   *)
(* the phone connects back to, the published ClipLink state, and the app   *)
(* threads that ask for the phone's device id over the same control        *)
(* channel (resolve_device_id, phone_info).                                *)
(*                                                                         *)
(* The control WS is two FIFO queues; control_task moves what arrives to   *)
(* its subscribers and retains the last announcement.  The phone is not    *)
(* part of the repository: it is what clipboard.rs says it has been seen   *)
(* to do.  What the 8904 frames carry is the subject of ClipSync.          *)
(***************************************************************************)
EXTENDS Naturals, Sequences, FiniteSets

CONSTANTS
  MaxResolver, \* bound: app threads that call resolve_device_id
  MaxResend,   \* SHADOW_STARTUP_RESENDS
  MaxRelay,    \* bound: 8904 connections the phone opens
  MaxBeside,   \* bound: resolvers that have called, beside a connection
  EagerPhone   \* the phone may connect to 8904 before it got our `ready`

ASSUME ResolverAssumption == MaxResolver \in Nat
ASSUME ResendAssumption == MaxResend \in Nat
ASSUME RelayAssumption == MaxRelay \in Nat
ASSUME BesideAssumption == MaxBeside \in Nat
ASSUME EagerAssumption == EagerPhone \in BOOLEAN

Relay == 1 .. MaxRelay
Resolver == 1 .. MaxResolver   \* in the order they call
NoThread == 0
Caster == MaxResolver + 1      \* an app thread in start_screen

VARIABLES
  enabler,    \* the thread in PcSession::enable_clipboard
  active,     \* clipboard_active
  link,       \* the ClipLink the app watches
  handshake,  \* where clip_handshake is
  resends,    \* how often it has sent `startup` again
  rx,         \* announcements waiting in its broadcast receiver
  key,        \* Shared.phone_key is known
  server,     \* where the 8904 task is
  opened,     \* 8904 connections the phone has opened
  taken,      \* 8904 connections accepted, in the order they were opened
  peer,       \* the phone's end of each
  lock,       \* the thread holding the session mutex across an await
  cache,      \* device_id_cache is set
  resolve,    \* where each resolve_device_id call is
  saw,        \* the clipboard_active each of them read
  control,    \* the control WS
  retained,   \* last_shadow is set
  toPhone,    \* texts on their way to the phone
  fromPhone,  \* announcements on their way from the phone
  bound,      \* the phone's vdfs service has registered with PCSuite
  phoneKey,   \* whose key the phone took for this PC's
  readied,    \* the phone has got our `ready`
  raced       \* history: resolvers that asked after the clipboard was spawned,
              \* with a flag they had read before it was set

enableVars == <<enabler, active>>
shakeVars == <<handshake, resends, key>>
serverVars == <<server, opened, taken, peer>>
resolveVars == <<lock, cache, resolve, saw, raced>>
controlVars == <<control, retained>>
phoneVars == <<bound, phoneKey, readied>>
vars == <<enableVars, link, shakeVars, rx, serverVars, resolveVars,
          controlVars, toPhone, fromPhone, phoneVars>>

Message == {"startup", "ask", "ready"}
\* Announcements the handshake will still look at.
Subscribed == handshake \in {"started", "waiting", "late"}

TypeOK ==
  /\ enabler \in {"idle", "spawned", "enabled", "failed"}
  /\ active \in BOOLEAN
  /\ link \in {"off", "pending", "up", "down"}
  /\ handshake \in {"none", "spawned", "started", "waiting", "late",
                    "keyed", "relay", "done"}
  /\ resends \in 0 .. MaxResend
  /\ rx \in Nat
  /\ key \in BOOLEAN
  /\ server \in {"none", "accepting", "serving", "ended"}
  /\ opened \in 0 .. MaxRelay
  /\ taken \in 0 .. opened
  /\ peer \in [Relay -> {"none", "open", "closed", "vanished"}]
  /\ lock \in Resolver \union {NoThread, Caster}
  /\ cache \in BOOLEAN
  /\ resolve \in [Resolver -> {"idle", "fast", "polling", "slow", "asking",
                               "ok", "err"}]
  /\ saw \in [Resolver -> BOOLEAN]
  /\ raced \in SUBSET Resolver
  /\ control \in {"open", "ended"}
  /\ retained \in BOOLEAN
  /\ toPhone \in Seq(Message)
  /\ fromPhone \in Nat
  /\ bound \in BOOLEAN
  /\ phoneKey \in {"none", "clip", "info"}
  /\ readied \in BOOLEAN

Init ==
  /\ enabler = "idle"
  /\ active = FALSE
  /\ link = "off"
  /\ handshake = "none"
  /\ resends = 0
  /\ rx = 0
  /\ key = FALSE
  /\ server = "none"
  /\ opened = 0
  /\ taken = 0
  /\ peer = [c \in Relay |-> "none"]
  /\ lock = NoThread
  /\ cache = FALSE
  /\ resolve = [r \in Resolver |-> "idle"]
  /\ saw = [r \in Resolver |-> FALSE]
  /\ raced = {}
  /\ control = "open"
  /\ retained = FALSE
  /\ toPhone = <<>>
  /\ fromPhone = 0
  /\ bound = FALSE
  /\ phoneKey = "none"
  /\ readied = FALSE

-----------------------------------------------------------------------------
(* The control channel *)

\* ControlHandle::send: queued while the control task lives, else an error.
Send(m) == toPhone' = IF control = "open" THEN Append(toPhone, m) ELSE toPhone

\* control_task reads an announcement: retained, and broadcast to whoever has
\* subscribed by now.
ControlReads ==
  /\ control = "open"
  /\ fromPhone > 0
  /\ fromPhone' = fromPhone - 1
  /\ retained' = TRUE
  /\ rx' = IF Subscribed THEN rx + 1 ELSE rx
  /\ UNCHANGED <<enableVars, link, shakeVars, serverVars, resolveVars, control,
                 toPhone, phoneVars>>

\* control_task is over (see ControlSession); nothing is read or sent any more.
ControlEnds ==
  /\ control = "open"
  /\ control' = "ended"
  /\ UNCHANGED <<enableVars, link, shakeVars, rx, serverVars, resolveVars,
                 retained, toPhone, fromPhone, phoneVars>>

-----------------------------------------------------------------------------
(* enable_clipboard *)

\* Session::enable_clipboard, under the session mutex: bind 8904, publish
\* Pending, spawn the server and the handshake.
Enable ==
  /\ enabler = "idle"
  /\ lock = NoThread
  /\ enabler' = "spawned"
  /\ link' = "pending"
  /\ server' = "accepting"
  /\ handshake' = "spawned"
  /\ UNCHANGED <<active, resends, key, rx, opened, taken, peer, resolveVars,
                 controlVars, toPhone, fromPhone, phoneVars>>

\* 8904 cannot be bound.
EnableFails ==
  /\ enabler = "idle"
  /\ lock = NoThread
  /\ enabler' = "failed"
  /\ UNCHANGED <<active, link, shakeVars, rx, serverVars, resolveVars,
                 controlVars, toPhone, fromPhone, phoneVars>>

\* Back in the FFI: the flag is only set once the call has returned.
SetActive ==
  /\ enabler = "spawned"
  /\ enabler' = "enabled"
  /\ active' = TRUE
  /\ UNCHANGED <<link, shakeVars, rx, serverVars, resolveVars, controlVars,
                 toPhone, fromPhone, phoneVars>>

-----------------------------------------------------------------------------
(* clip_handshake *)

OnlyHandshakeMoves ==
  UNCHANGED <<enableVars, serverVars, resolveVars, controlVars, fromPhone,
              phoneVars>>

\* Subscribe, then send `startup`.
Subscribe ==
  /\ handshake = "spawned"
  /\ handshake' = "started"
  /\ Send("startup")
  /\ UNCHANGED <<link, resends, key, rx>>
  /\ OnlyHandshakeMoves

\* The retained announcement counts as the answer; store the phone's key.
CheckRetained ==
  /\ handshake = "started"
  /\ IF retained
     THEN handshake' = "keyed" /\ key' = TRUE
     ELSE handshake' = "waiting" /\ UNCHANGED key
  /\ UNCHANGED <<link, resends, rx, toPhone>>
  /\ OnlyHandshakeMoves

\* Mutant: after the last window nobody listens any more.
HearsInTime == handshake = "waiting" /\ rx > 0

\* An announcement was received: while a window is open, or after the last one.
Hears == handshake \in {"waiting", "late"} /\ rx > 0

\* apply_shadow: store the phone's key ...
StoreKey ==
  /\ Hears
  /\ handshake' = "keyed"
  /\ key' = TRUE
  /\ rx' = rx - 1
  /\ UNCHANGED <<link, resends, toPhone>>
  /\ OnlyHandshakeMoves

\* ... and send `ready`.
SendReady ==
  /\ handshake = "keyed"
  /\ handshake' = "relay"
  /\ Send("ready")
  /\ UNCHANGED <<link, resends, key, rx>>
  /\ OnlyHandshakeMoves

\* SHADOW_REPLY_WAIT passed without an announcement: the same `startup` again.
Resend ==
  /\ handshake = "waiting"
  /\ rx = 0
  /\ resends < MaxResend
  /\ resends' = resends + 1
  /\ Send("startup")
  /\ UNCHANGED <<link, handshake, key, rx>>
  /\ OnlyHandshakeMoves

\* Mutant: the handshake gives up without a word.
GivesUpQuietly ==
  /\ handshake = "waiting"
  /\ rx = 0
  /\ resends = MaxResend
  /\ handshake' = "late"
  /\ UNCHANGED <<link, resends, key, rx, toPhone>>
  /\ OnlyHandshakeMoves

\* The window of the last re-send passed too: Down, whatever it was; then
\* listen without a deadline.
GivesUp ==
  /\ handshake = "waiting"
  /\ rx = 0
  /\ resends = MaxResend
  /\ handshake' = "late"
  /\ link' = "down"
  /\ UNCHANGED <<resends, key, rx, toPhone>>
  /\ OnlyHandshakeMoves

\* await_relay: the phone is connected.
RelaySeen ==
  /\ handshake = "relay"
  /\ link = "up"
  /\ handshake' = "done"
  /\ UNCHANGED <<link, resends, key, rx, toPhone>>
  /\ OnlyHandshakeMoves

\* Mutant: Down even if the phone has connected in the meantime.
DownAnyway == "down"

\* What await_relay leaves in the link when its wait has expired.
DownUnlessUp == IF link = "up" THEN "up" ELSE "down"

\* await_relay: RELAY_CONNECT_WAIT passed.
RelayExpires ==
  /\ handshake = "relay"
  /\ handshake' = "done"
  /\ link' = DownUnlessUp
  /\ UNCHANGED <<resends, key, rx, toPhone>>
  /\ OnlyHandshakeMoves

Handshake ==
  \/ Subscribe
  \/ CheckRetained
  \/ StoreKey
  \/ SendReady
  \/ Resend
  \/ GivesUp
  \/ RelaySeen
  \/ RelayExpires

-----------------------------------------------------------------------------
(* spawn_8904_server: one connection at a time, handle_8904 awaited inline *)

OnlyServerMoves ==
  UNCHANGED <<enableVars, shakeVars, rx, opened, peer, resolveVars,
              controlVars, toPhone, fromPhone, phoneVars>>

\* accept() returns the oldest waiting connection.
Accept8904 ==
  /\ server = "accepting"
  /\ taken < opened
  /\ server' = "serving"
  /\ taken' = taken + 1
  /\ link' = "up"
  /\ OnlyServerMoves

\* Mutant: end of file is taken for nothing to read yet.
ReadsOn ==
  /\ server = "serving"
  /\ peer[taken] = "closed"
  /\ UNCHANGED <<server, link, taken>>
  /\ OnlyServerMoves

\* handle_8904 returns: end of file or a read error.  A peer that vanished
\* without a word is never noticed by a read that has no timeout.
Ends8904 ==
  /\ server = "serving"
  /\ peer[taken] = "closed"
  /\ server' = "accepting"
  /\ link' = "down"
  /\ UNCHANGED taken
  /\ OnlyServerMoves

\* accept() fails: the task is over, for the rest of the session.
AcceptFails ==
  /\ server = "accepting"
  /\ server' = "ended"
  /\ UNCHANGED <<link, taken>>
  /\ OnlyServerMoves

-----------------------------------------------------------------------------
(* resolve_device_id *)

OnlyResolverMoves ==
  UNCHANGED <<enableVars, link, shakeVars, rx, serverVars, controlVars,
              fromPhone, phoneVars>>

Called == {r \in Resolver : resolve[r] # "idle"}

\* Look into the cache, then read clipboard_active.
ReadFlag(r) ==
  /\ resolve[r] = "idle"
  /\ \A s \in Resolver : s < r => s \in Called
  /\ opened = 0 \/ Cardinality(Called) < MaxBeside
  /\ resolve' = [resolve EXCEPT ![r] = IF cache THEN "ok" ELSE "fast"]
  /\ saw' = [saw EXCEPT ![r] = active]
  /\ UNCHANGED <<lock, cache, raced, toPhone>>
  /\ OnlyResolverMoves

\* Mutant: a thread that always asks.
AlwaysAsks(r) == "slow"

\* What a thread does that found no retained announcement, by the flag it read.
IfUnknown(r) == IF saw[r] THEN "polling" ELSE "slow"

\* known_device_id, under the session mutex.
FastPath(r) ==
  /\ resolve[r] = "fast"
  /\ lock = NoThread
  /\ resolve' = [resolve EXCEPT ![r] = IF retained THEN "ok" ELSE IfUnknown(r)]
  /\ cache' = IF retained THEN TRUE ELSE cache
  /\ UNCHANGED <<lock, saw, raced, toPhone>>
  /\ OnlyResolverMoves

\* A poll of the retained announcement found it.
PollFinds(r) ==
  /\ resolve[r] = "polling"
  /\ lock = NoThread
  /\ retained
  /\ resolve' = [resolve EXCEPT ![r] = "ok"]
  /\ cache' = TRUE
  /\ UNCHANGED <<lock, saw, raced, toPhone>>
  /\ OnlyResolverMoves

\* Mutant: polling without a window.
PollsOn(r) ==
  /\ resolve[r] = "polling"
  /\ UNCHANGED <<lock, cache, resolve, saw, raced, toPhone>>
  /\ OnlyResolverMoves

\* The last poll of the window did not.
PollExpires(r) ==
  /\ resolve[r] = "polling"
  /\ lock = NoThread
  /\ ~retained
  /\ resolve' = [resolve EXCEPT ![r] = "err"]
  /\ UNCHANGED <<lock, cache, saw, raced, toPhone>>
  /\ OnlyResolverMoves

\* phone_info, holding the session mutex from here on: subscribe and send a
\* `startup` with a key of its own, if the control channel is still there.
Ask(r) ==
  /\ resolve[r] = "slow"
  /\ lock = NoThread
  /\ Send("ask")
  /\ IF control = "open"
     THEN /\ lock' = r
          /\ resolve' = [resolve EXCEPT ![r] = "asking"]
          /\ raced' = IF enabler \in {"spawned", "enabled"} /\ ~saw[r]
                      THEN raced \union {r} ELSE raced
     ELSE /\ resolve' = [resolve EXCEPT ![r] = "err"]
          /\ UNCHANGED <<lock, raced>>
  /\ UNCHANGED <<cache, saw>>
  /\ OnlyResolverMoves

\* An announcement was retained by now, or received.
Told(r) ==
  /\ resolve[r] = "asking"
  /\ retained
  /\ lock' = NoThread
  /\ resolve' = [resolve EXCEPT ![r] = "ok"]
  /\ cache' = TRUE
  /\ UNCHANGED <<saw, raced, toPhone>>
  /\ OnlyResolverMoves

\* 10s without one.
NotTold(r) ==
  /\ resolve[r] = "asking"
  /\ ~retained
  /\ lock' = NoThread
  /\ resolve' = [resolve EXCEPT ![r] = "err"]
  /\ UNCHANGED <<cache, saw, raced, toPhone>>
  /\ OnlyResolverMoves

Resolve(r) ==
  \/ ReadFlag(r)
  \/ FastPath(r)
  \/ PollFinds(r)
  \/ PollExpires(r)
  \/ Ask(r)
  \/ Told(r)
  \/ NotTold(r)

-----------------------------------------------------------------------------
(* start_screen, the other call that keeps the session mutex over an exchange  *)
(* with the phone; what it exchanges is the subject of Screen.                 *)

OnlyCasterMoves ==
  UNCHANGED <<enableVars, link, shakeVars, rx, serverVars, cache, resolve, saw,
              raced, controlVars, toPhone, fromPhone, phoneVars>>

\* The app starts the mirror, and may do so again and again.
StartScreen ==
  /\ lock = NoThread
  /\ lock' = Caster
  /\ OnlyCasterMoves

\* enable_screen is back, with a stream or an error.  Its WebSocket handshake
\* has no timeout: it need not come back.
ScreenBack ==
  /\ lock = Caster
  /\ lock' = NoThread
  /\ OnlyCasterMoves

-----------------------------------------------------------------------------
(* The phone *)

OnlyPhoneMoves ==
  UNCHANGED <<enableVars, link, shakeVars, rx, server, taken, resolveVars,
              controlVars>>

\* vdfs has bound and registered its callback; before that PCSuite drops every
\* `startup`, and some sessions never get there.
Binds ==
  /\ ~bound
  /\ bound' = TRUE
  /\ UNCHANGED <<toPhone, fromPhone, phoneKey, readied, opened, peer>>
  /\ OnlyPhoneMoves

\* A `startup` resets its record of this PC, key and all, and is answered.
GetsStartup ==
  /\ toPhone # <<>>
  /\ Head(toPhone) \in {"startup", "ask"}
  /\ toPhone' = Tail(toPhone)
  /\ IF bound
     THEN /\ phoneKey' = IF Head(toPhone) = "ask" THEN "info" ELSE "clip"
          /\ fromPhone' = fromPhone + 1
     ELSE UNCHANGED <<phoneKey, fromPhone>>
  /\ UNCHANGED <<bound, readied, opened, peer>>
  /\ OnlyPhoneMoves

GetsReady ==
  /\ toPhone # <<>>
  /\ Head(toPhone) = "ready"
  /\ toPhone' = Tail(toPhone)
  /\ readied' = TRUE
  /\ UNCHANGED <<fromPhone, bound, phoneKey, opened, peer>>
  /\ OnlyPhoneMoves

\* It connects to 8904, also while an earlier connection is still being served.
Connects ==
  /\ server \in {"accepting", "serving"}
  /\ readied \/ EagerPhone
  /\ opened < MaxRelay
  /\ Cardinality(Called) <= MaxBeside
  /\ opened' = opened + 1
  /\ peer' = [peer EXCEPT ![opened + 1] = "open"]
  /\ UNCHANGED <<toPhone, fromPhone, phoneVars>>
  /\ OnlyPhoneMoves

\* A connection ends, with or without the PC being told.
Disconnects(c) ==
  /\ peer[c] = "open"
  /\ \E how \in {"closed", "vanished"} : peer' = [peer EXCEPT ![c] = how]
  /\ UNCHANGED <<opened, toPhone, fromPhone, phoneVars>>
  /\ OnlyPhoneMoves

Phone ==
  \/ Binds
  \/ GetsStartup
  \/ GetsReady
  \/ Connects
  \/ \E c \in Relay : Disconnects(c)

-----------------------------------------------------------------------------
(* Specification *)

Server ==
  \/ Accept8904
  \/ Ends8904
  \/ AcceptFails

Next ==
  \/ Enable
  \/ EnableFails
  \/ SetActive
  \/ ControlReads
  \/ ControlEnds
  \/ Handshake
  \/ Server
  \/ \E r \in Resolver : Resolve(r)
  \/ StartScreen
  \/ ScreenBack
  \/ Phone

Spec == Init /\ [][Next]_vars

\* The runtime polls every task and thread that can run, and the waits of the
\* handshake and of the resolvers have timeouts.  The session mutex is tokio's,
\* which serves its waiters in turn: a resolver that waits for it is not passed
\* over for ever.  Nothing is assumed of the phone, of accept() failing, of the
\* control WS ending, or of start_screen, which may keep the mutex.
Fairness ==
  /\ WF_vars(SetActive)
  /\ WF_vars(ControlReads)
  /\ WF_vars(Handshake)
  /\ WF_vars(Accept8904)
  /\ WF_vars(Ends8904)
  /\ \A r \in Resolver : SF_vars(Resolve(r) /\ resolve[r] # "idle")

FairSpec == Spec /\ Fairness

-----------------------------------------------------------------------------
(* Properties *)

\* What the app is told is what is: the link is Up exactly while a connection
\* of the phone is being served, whoever of the server and the two timeouts of
\* the handshake wrote last.  It takes a phone that waits for `ready`.
LinkShowsRelay == ~EagerPhone => (link = "up" <=> server = "serving")

\* No frame of the phone finds the PC without the key to decrypt it: by the
\* time a connection is served, apply_shadow has stored the key.
KeyBeforeRelay == ~EagerPhone => (server = "serving" => key)

\* Once the phone got `ready`, the key it took for this PC is the clipboard's
\* and not the throw-away one of a phone_info, unless a resolver read the flag
\* before enable_clipboard set it and asked after the clipboard was spawned.
ClipKeyStands == readied /\ raced = {} => phoneKey = "clip"

\* Pending is not for ever, whether the phone answers or not and whether the
\* control WS survives or not.
PendingSettles == link = "pending" ~> link # "pending"

\* "a late answer is still an answer" (clipboard.rs:924): an announcement that
\* control_task saw brings the handshake to `ready`, in whatever window, before
\* or after it subscribed.
LateAnswerCounts ==
  retained /\ handshake # "none" ~> handshake \in {"relay", "done"}

\* A connection of the phone is taken once the earlier ones have closed, however
\* often it reconnects, unless accept() failed.
WaitingServed ==
  \A c \in Relay :
    opened >= c /\ (\A d \in Relay : d < c => peer[d] = "closed")
      ~> taken >= c \/ server = "ended"

\* No app thread hangs in resolve_device_id, although another one may keep the
\* session mutex for the 10s it asks and start_screen take it between any two of
\* its polls, unless a start_screen whose handshake hangs keeps the mutex.
ResolveReturns ==
  \A r \in Resolver :
    resolve[r] = "fast" ~> resolve[r] \in {"ok", "err"} \/ [](lock = Caster)
=============================================================================
