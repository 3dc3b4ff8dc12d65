--------------------------- MODULE ControlSession ---------------------------
(***************************************************************************)
(* The life and death of a control session: control_task, the only owner   *)
(* of the control WS (pcsuite-core/src/session.rs), the graceful close the *)
(* app asks for before it drops the session, and the thread that waits to  *)
(* be told how the session ended (wait_disconnect in pcsuite-ffi).         *)
(*                                                                         *)
(* control_task is one loop: wait up to 200ms for a frame, then drain the  *)
(* outgoing queue, then send a keepalive if one is due.  WsClient::recv    *)
(* takes a frame in several reads and the wait cancels it in between.      *)
(* Timeouts are steps that may happen.  What the texts mean to the         *)
(* features that subscribe to them is the subject of other modules.        *)
(***************************************************************************)
EXTENDS Naturals, Sequences

CONSTANTS
  MaxInbox,   \* bound: frames of the phone waiting to be read
  MaxMsg,     \* bound: texts the features send
  Tearing     \* a frame may arrive in two parts more than the wait apart

ASSUME InboxAssumption == MaxInbox \in Nat
ASSUME MsgAssumption == MaxMsg \in Nat
ASSUME TearingAssumption == Tearing \in BOOLEAN

VARIABLES
  ctl,         \* where control_task is
  saidClose,   \* peer_said_close
  half,        \* recv has consumed a header and waits for the rest
  torn,        \* a recv was cancelled there: the reader has lost its place
  kaDue,       \* 3s since the last keepalive
  dead,        \* what dead_rx reads
  inbox,       \* frames of the phone, in order
  link,        \* the connection under the WS
  outq,        \* the outgoing queue
  msgs,        \* texts the features have sent
  app,         \* how far the app's disconnect is
  watch,       \* where wait_disconnect is
  result,      \* what it returned
  watchStop,   \* watch_stop
  phoneEnded   \* history: the phone sent "close" or a close frame

loopVars == <<ctl, saidClose, half, torn, kaDue, dead>>
wireVars == <<inbox, link, phoneEnded>>
appVars == <<msgs, app>>
watchVars == <<watch, result, watchStop>>
vars == <<loopVars, wireVars, outq, appVars, watchVars>>

\* What the phone sends: an ordinary text, a text that control_task logs and
\* whose 500th byte lies within a character, "close", a ping, a close frame.
Frame == {"text", "wide", "close", "ping", "close frame"}
Alive == {"recv", "flush", "keepalive"}

TypeOK ==
  /\ ctl \in Alive \union {"over", "panicked", "aborted"}
  /\ saidClose \in BOOLEAN
  /\ half \in BOOLEAN
  /\ torn \in BOOLEAN
  /\ kaDue \in BOOLEAN
  /\ dead \in {"none", "closed", "lost"}
  /\ inbox \in Seq(Frame)
  /\ Len(inbox) <= MaxInbox
  /\ link \in {"up", "ended", "vanished"}
  /\ outq \in Seq({"msg", "close"})
  /\ msgs \in 0 .. MaxMsg
  /\ app \in {"live", "closing", "closed", "dropped"}
  /\ watch \in {"idle", "check", "wait", "done"}
  /\ result \in {"none", "stopped", "closed", "lost"}
  /\ watchStop \in BOOLEAN
  /\ phoneEnded \in BOOLEAN

Init ==
  /\ ctl = "recv"
  /\ saidClose = FALSE
  /\ half = FALSE
  /\ torn = FALSE
  /\ kaDue = FALSE
  /\ dead = "none"
  /\ inbox = <<>>
  /\ link = "up"
  /\ outq = <<>>
  /\ msgs = 0
  /\ app = "live"
  /\ watch = "idle"
  /\ result = "none"
  /\ watchStop = FALSE
  /\ phoneEnded = FALSE

-----------------------------------------------------------------------------
(* control_task *)

\* The loop is left: a "close" read before outweighs the reason at hand.
Over(reason) ==
  /\ ctl' = "over"
  /\ dead' = IF saidClose THEN "closed" ELSE reason

OnlyReading ==
  UNCHANGED <<kaDue, link, phoneEnded, outq, appVars, watchVars>>

\* The header of a frame has been read, the rest is still on its way.
HeaderRead ==
  /\ Tearing
  /\ ctl = "recv"
  /\ ~torn /\ ~half
  /\ inbox # <<>>
  /\ half' = TRUE
  /\ UNCHANGED <<ctl, saidClose, torn, dead, inbox>>
  /\ OnlyReading

\* recv returns the next frame.
Takes(frames) ==
  /\ ctl = "recv"
  /\ ~torn
  /\ inbox # <<>>
  /\ Head(inbox) \in frames
  /\ inbox' = Tail(inbox)
  /\ half' = FALSE

\* A text is broadcast; "close" is remembered.
TakesText ==
  /\ Takes({"text", "close"})
  /\ ctl' = "flush"
  /\ saidClose' = (saidClose \/ Head(inbox) = "close")
  /\ UNCHANGED <<torn, dead>>
  /\ OnlyReading

\* Logging the first 500 bytes of a file-related text panics if they end within
\* a character: the task is gone without a word, and dead_tx with it.
TakesWide ==
  /\ Takes({"wide"})
  /\ ctl' = "panicked"
  /\ UNCHANGED <<saidClose, torn, dead>>
  /\ OnlyReading

\* A ping is answered, if the pong can be sent.
TakesPing ==
  /\ Takes({"ping"})
  /\ \/ ctl' = "flush" /\ UNCHANGED dead
     \/ link # "up" /\ Over("lost")
  /\ UNCHANGED <<saidClose, torn>>
  /\ OnlyReading

TakesCloseFrame ==
  /\ Takes({"close frame"})
  /\ Over("closed")
  /\ UNCHANGED <<saidClose, torn>>
  /\ OnlyReading

\* A reader that has lost its place takes the middle of a frame for a header:
\* whatever the bytes say, a close frame included, or an error.
TakesGarbage ==
  /\ ctl = "recv"
  /\ torn
  /\ inbox # <<>>
  /\ inbox' = Tail(inbox)
  /\ \/ ctl' = "flush" /\ UNCHANGED dead
     \/ \E reason \in {"closed", "lost"} : Over(reason)
  /\ UNCHANGED <<saidClose, half, torn>>
  /\ OnlyReading

\* Mutant: every end of the connection is the phone's doing.
EndIsClose ==
  /\ ctl = "recv"
  /\ inbox = <<>>
  /\ link = "ended"
  /\ Over("closed")
  /\ UNCHANGED <<saidClose, half, torn, inbox>>
  /\ OnlyReading

\* End of file or an error.
ReadFails ==
  /\ ctl = "recv"
  /\ inbox = <<>>
  /\ link = "ended"
  /\ Over("lost")
  /\ UNCHANGED <<saidClose, half, torn, inbox>>
  /\ OnlyReading

\* recv has nothing to return yet; one that has lost its place may take what
\* comes for part of a long frame.
Waiting == half \/ torn \/ (inbox = <<>> /\ link # "ended")

\* The wait is over without a frame; a recv in the middle of one is cancelled
\* all the same, and what it has consumed is gone.
RecvTimesOut ==
  /\ ctl = "recv"
  /\ Waiting
  /\ ctl' = "flush"
  /\ torn' = (torn \/ half)
  /\ half' = FALSE
  /\ UNCHANGED <<saidClose, dead, inbox>>
  /\ OnlyReading

OnlySending ==
  UNCHANGED <<saidClose, half, torn, wireVars, appVars, watchVars>>

\* One text of the queue is written to the socket.
Flushes ==
  /\ ctl = "flush"
  /\ outq # <<>>
  /\ outq' = Tail(outq)
  /\ UNCHANGED <<ctl, kaDue, dead>>
  /\ OnlySending

\* Mutant: nobody looks at how the keepalive went.
TextFails ==
  /\ ctl = "flush"
  /\ outq # <<>>
  /\ link # "up"
  /\ Over("lost")
  /\ UNCHANGED <<kaDue, outq>>
  /\ OnlySending

\* A write fails, of a queued text or of the keepalive: only on a connection
\* that is gone, noticed or not.
SendFails ==
  /\ \/ ctl = "flush" /\ outq # <<>>
     \/ ctl = "keepalive" /\ kaDue
  /\ link # "up"
  /\ Over("lost")
  /\ UNCHANGED <<kaDue, outq>>
  /\ OnlySending

\* try_recv finds nothing more.
Drained ==
  /\ ctl = "flush"
  /\ outq = <<>>
  /\ ctl' = "keepalive"
  /\ UNCHANGED <<kaDue, dead, outq>>
  /\ OnlySending

\* The keepalive goes out if it is due, and the next wait begins.
Keepalive ==
  /\ ctl = "keepalive"
  /\ ctl' = "recv"
  /\ kaDue' = FALSE
  /\ UNCHANGED <<dead, outq>>
  /\ OnlySending

ControlTask ==
  \/ TakesText \/ TakesWide \/ TakesPing \/ TakesCloseFrame \/ TakesGarbage
  \/ ReadFails
  \/ RecvTimesOut
  \/ Flushes
  \/ SendFails
  \/ Drained
  \/ Keepalive

-----------------------------------------------------------------------------
(* The app's end of the session *)

OnlyAppMoves ==
  UNCHANGED <<loopVars, wireVars, watchVars>>

\* A feature sends a text; once the task is gone that is an error.
Queues ==
  /\ app # "dropped"
  /\ ctl \in Alive
  /\ msgs < MaxMsg
  /\ msgs' = msgs + 1
  /\ outq' = Append(outq, "msg")
  /\ UNCHANGED app
  /\ OnlyAppMoves

\* shutdown_clipboard: queue "close", then pause.
SaysClose ==
  /\ app = "live"
  /\ app' = "closing"
  /\ outq' = IF ctl \in Alive THEN Append(outq, "close") ELSE outq
  /\ UNCHANGED msgs
  /\ OnlyAppMoves

PauseOver ==
  /\ app = "closing"
  /\ app' = "closed"
  /\ UNCHANGED <<msgs, outq>>
  /\ OnlyAppMoves

\* The session is dropped, which aborts control_task; a thread in
\* wait_disconnect keeps it alive.
DropsSession ==
  /\ app \in {"live", "closed"}
  /\ watch \in {"idle", "done"}
  /\ app' = "dropped"
  /\ ctl' = IF ctl \in Alive THEN "aborted" ELSE ctl
  /\ UNCHANGED <<saidClose, half, torn, kaDue, dead, wireVars, outq,
                 msgs, watchVars>>

App == Queues \/ SaysClose \/ PauseOver \/ DropsSession

-----------------------------------------------------------------------------
(* wait_disconnect *)

OnlyWatchMoves ==
  UNCHANGED <<loopVars, wireVars, outq, appVars>>

Returns(answer) == watch' = "done" /\ result' = answer

WatchStarts ==
  /\ watch = "idle"
  /\ app # "dropped"
  /\ watch' = "check"
  /\ UNCHANGED <<result, watchStop>>
  /\ OnlyWatchMoves

\* The flag first, then the value.
WatchChecks ==
  /\ watch = "check"
  /\ IF watchStop THEN Returns("stopped")
     ELSE IF dead # "none" THEN Returns(dead)
     ELSE watch' = "wait" /\ UNCHANGED result
  /\ UNCHANGED watchStop
  /\ OnlyWatchMoves

\* changed() returns: the value was set.
WatchWakes ==
  /\ watch = "wait"
  /\ dead # "none"
  /\ Returns(dead)
  /\ UNCHANGED watchStop
  /\ OnlyWatchMoves

\* changed() fails: the sender went without setting it.
WatchOrphaned ==
  /\ watch = "wait"
  /\ dead = "none"
  /\ ctl \notin Alive
  /\ Returns("lost")
  /\ UNCHANGED watchStop
  /\ OnlyWatchMoves

\* Mutant: a wait that expires is a lost link.
WatchGivesUp ==
  /\ watch = "wait"
  /\ Returns("lost")
  /\ UNCHANGED watchStop
  /\ OnlyWatchMoves

\* Mutant: the wait is repeated, the flag is not looked at.
WatchWaitsOn ==
  /\ watch = "wait"
  /\ UNCHANGED watchVars
  /\ OnlyWatchMoves

\* Nothing within 300ms; changed() is looked at before the timer.
WatchTimesOut ==
  /\ watch = "wait"
  /\ dead = "none"
  /\ ctl \in Alive
  /\ watch' = "check"
  /\ UNCHANGED <<result, watchStop>>
  /\ OnlyWatchMoves

\* stop_watch, on any thread.
StopsWatch ==
  /\ ~watchStop
  /\ watchStop' = TRUE
  /\ UNCHANGED <<watch, result>>
  /\ OnlyWatchMoves

Watching == WatchChecks \/ WatchWakes \/ WatchOrphaned \/ WatchTimesOut

-----------------------------------------------------------------------------
(* The phone and the link *)

OnlyWireMoves ==
  UNCHANGED <<loopVars, outq, appVars, watchVars>>

\* The phone ends the session with "close" or a close frame, and says no more.
PhoneSends(f) ==
  /\ link = "up"
  /\ ~phoneEnded
  /\ Len(inbox) < MaxInbox
  /\ inbox' = Append(inbox, f)
  /\ phoneEnded' = (f \in {"close", "close frame"})
  /\ UNCHANGED link
  /\ OnlyWireMoves

\* The connection is closed or reset, or the phone is out of reach; what it had
\* sent last may be lost with it.
LinkGoes ==
  /\ link = "up"
  /\ link' \in {"ended", "vanished"}
  /\ \E n \in 0 .. Len(inbox) : inbox' = SubSeq(inbox, 1, n)
  /\ UNCHANGED phoneEnded
  /\ OnlyWireMoves

\* 3s have passed since the last keepalive.
KeepaliveDue ==
  /\ ctl \in Alive
  /\ ~kaDue
  /\ kaDue' = TRUE
  /\ UNCHANGED <<ctl, saidClose, half, torn, dead, wireVars, outq,
                 appVars, watchVars>>

-----------------------------------------------------------------------------
(* Specification *)

Next ==
  \/ HeaderRead
  \/ ControlTask
  \/ App
  \/ WatchStarts
  \/ Watching
  \/ StopsWatch
  \/ \E f \in Frame : PhoneSends(f)
  \/ LinkGoes
  \/ KeepaliveDue

Spec == Init /\ [][Next]_vars

\* The runtime polls the task and the threads that sleep or wait, and a write to
\* a connection that is gone does not succeed for ever: TCP gives up its
\* retransmissions.
Fairness ==
  /\ WF_vars(ControlTask)
  /\ SF_vars(SendFails)
  /\ WF_vars(PauseOver)
  /\ WF_vars(Watching)
  /\ WF_vars(WatchChecks)
  /\ WF_vars(KeepaliveDue)

FairSpec == Spec /\ Fairness

-----------------------------------------------------------------------------
(* Properties *)

\* The app is told "closed by phone", after which it does not dial back, only if
\* the phone did end the session: no loss of the link, before or after our own
\* "close", is taken for that, by a reader that has kept its place.
ClosedByPhone == result = "closed" => phoneEnded \/ torn

\* The app is told of an end, "closed" or "lost", only when nobody reads or
\* writes the control WS any more, and no other thread will.
EndIsFinal == result \in {"closed", "lost"} => ctl \notin Alive

\* A link that is gone is noticed, even a phone that just falls silent and even
\* when no feature has anything to send.
LossNoticed == link # "up" ~> ctl \notin Alive

\* wait_disconnect returns once the session has ended, however it ended, or once
\* it was told to stop, whenever in its loop that happens.
WatcherReturns ==
  watch \in {"check", "wait"} /\ (watchStop \/ ctl \notin Alive) ~> watch = "done"

(* What a comment says and the code does not do *)

\* "Every exit path means the connection is gone, so it sets dead_tx on the way
\* out" (session.rs:517), an abort by the app aside.
ExitsSayWhy == ctl \notin Alive \union {"aborted"} => dead # "none"
=============================================================================
