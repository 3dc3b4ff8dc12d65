--------------------------- MODULE ShareReceiver ---------------------------
(***************************************************************************)
(* The receiver of phone-initiated shares, pcsuite-core/src/share.rs.      *)
(*                                                                         *)
(* Three kinds of task run concurrently on the multi-threaded runtime:     *)
(*   - one accept loop per started receiver (accept_loop);                 *)
(*   - per accepted 10191 connection, an outer task (handle_conn) and,     *)
(*     unless another transfer owns the phone, the inner task it spawns    *)
(*     (grab_ws, then pull_batch);                                         *)
(*   - per task the phone announces, a download task (download_batch).     *)
(*                                                                         *)
(* An action is what a task does between two points where another task can *)
(* act: an await, or the gap between two accesses to shared state.  Aborts *)
(* are asynchronous: abort() only leaves a request, a later step of the    *)
(* aborted task honours it, and a dropped JoinHandle merely detaches.      *)
(***************************************************************************)
EXTENDS Naturals, FiniteSets

CONSTANTS
  MaxConn,   \* bound: 10191 connections the phone opens (taps)
  MaxTask,   \* bound: tasks (sendRequest) announced on one WebSocket
  MaxStart   \* bound: times ShareReceiver::start is called

ASSUME ConnAssumption == MaxConn \in Nat \ {0}
ASSUME TaskAssumption == MaxTask \in Nat \ {0}
ASSUME StartAssumption == MaxStart \in Nat \ {0}

Conn == 1 .. MaxConn
Task == 1 .. MaxTask
NoConn == 0

VARIABLES
  armed,      \* an accept loop is running
  starts,     \* how often the receiver was started: the loop's generation
  loopPc,     \* accept_loop is at "accept", or between decision and "launch"
  accepted,   \* connections accepted so far; Conn ids are in accept order
  current,    \* the session the loop remembers (`current`), or NoConn
  verdict,    \* what the loop decided for the connection it just accepted
  outer,      \* where handle_conn is, per connection
  outerKill,  \* abort() was called on that task
  run,        \* its run_session argument
  born,       \* the generation of the loop that launched it
  inner,      \* where the session task is, per connection
  innerKill,  \* AbortOnDrop aborted it
  committed,  \* the AtomicBool shared by the session and the loop
  announced,  \* tasks announced on the session's WebSocket
  held,       \* the download whose JoinHandle pull_batch holds, 0 = none
  dl,         \* where each download task is
  part,       \* downloads whose .vivoshare-*.zip.part exists on disk
  answered,   \* the accept frame bytes:[1] was sent on 10191
  reported    \* the terminal event of the session, or "none"

loopVars == <<armed, starts, loopPc, accepted, current, verdict>>
outerVars == <<outer, outerKill, run, born, answered, reported>>
innerVars == <<inner, innerKill, committed, announced, held>>
dlVars == <<dl, part>>
vars == <<loopVars, outerVars, innerVars, dlVars>>

OuterLive == {"spawned", "reading", "awaiting", "answering"}
OuterState == {"none", "ended", "failed", "dropped"} \union OuterLive
InnerLive == {"hunting", "idle", "acking", "pulling", "draining", "reporting"}
InnerState == {"none", "ok", "err", "dropped"} \union InnerLive
DlRunning == {"connecting", "streaming", "extracting"}
DlState == {"none", "ok", "err", "lost"} \union DlRunning

TypeOK ==
  /\ armed \in BOOLEAN
  /\ starts \in 0 .. MaxStart
  /\ loopPc \in {"accept", "launch"}
  /\ accepted \in 0 .. MaxConn
  /\ current \in Conn \union {NoConn}
  /\ verdict \in {"fresh", "supersede", "busy"}
  /\ outer \in [Conn -> OuterState]
  /\ outerKill \in [Conn -> BOOLEAN]
  /\ run \in [Conn -> BOOLEAN]
  /\ born \in [Conn -> 0 .. MaxStart]
  /\ inner \in [Conn -> InnerState]
  /\ innerKill \in [Conn -> BOOLEAN]
  /\ committed \in [Conn -> BOOLEAN]
  /\ announced \in [Conn -> 0 .. MaxTask]
  /\ held \in [Conn -> Task \union {0}]
  /\ dl \in [Conn -> [Task -> DlState]]
  /\ part \in [Conn -> SUBSET Task]
  /\ answered \in [Conn -> BOOLEAN]
  /\ reported \in [Conn -> {"none", "done", "failed"}]

Init ==
  /\ armed = FALSE
  /\ starts = 0
  /\ loopPc = "accept"
  /\ accepted = 0
  /\ current = NoConn
  /\ verdict = "fresh"
  /\ outer = [c \in Conn |-> "none"]
  /\ outerKill = [c \in Conn |-> FALSE]
  /\ run = [c \in Conn |-> FALSE]
  /\ born = [c \in Conn |-> 0]
  /\ inner = [c \in Conn |-> "none"]
  /\ innerKill = [c \in Conn |-> FALSE]
  /\ committed = [c \in Conn |-> FALSE]
  /\ announced = [c \in Conn |-> 0]
  /\ held = [c \in Conn |-> 0]
  /\ dl = [c \in Conn |-> [k \in Task |-> "none"]]
  /\ part = [c \in Conn |-> {}]
  /\ answered = [c \in Conn |-> FALSE]
  /\ reported = [c \in Conn |-> "none"]

-----------------------------------------------------------------------------
(* The receiver's lifetime *)

\* Mutant: a receiver that starts without sweeping.
NoSweep == UNCHANGED part

\* sweep_partials: every leftover in the directory goes, whoever wrote it.
sweep_partials == part' = [c \in Conn |-> {}]

\* ShareReceiver::start: bind, sweep, spawn a fresh accept loop.
Start ==
  /\ ~armed
  /\ starts < MaxStart
  /\ armed' = TRUE
  /\ starts' = starts + 1
  /\ current' = NoConn
  /\ sweep_partials
  /\ UNCHANGED <<loopPc, accepted, verdict, outerVars, innerVars, dl>>

\* Drop for ShareReceiver: only the accept loop is aborted (at its await); the
\* sessions it spawned were detached all along and go on.
Stop ==
  /\ armed
  /\ loopPc = "accept"
  /\ armed' = FALSE
  /\ UNCHANGED <<starts, loopPc, accepted, current, verdict,
                 outerVars, innerVars, dlVars>>

\* The process ends: every task is gone, what is on disk stays.
Exit ==
  /\ armed
  /\ armed' = FALSE
  /\ loopPc' = "accept"
  /\ outer' = [c \in Conn |->
                 IF outer[c] \in OuterLive THEN "dropped" ELSE outer[c]]
  /\ inner' = [c \in Conn |->
                 IF inner[c] \in InnerLive THEN "dropped" ELSE inner[c]]
  /\ dl' = [c \in Conn |-> [k \in Task |->
                 IF dl[c][k] \in DlRunning THEN "lost" ELSE dl[c][k]]]
  /\ UNCHANGED <<starts, accepted, current, verdict, outerKill, run, born,
                 answered, reported, innerKill, committed, announced, held,
                 part>>

-----------------------------------------------------------------------------
(* accept_loop *)

\* Mutant: a newer tap always takes the phone.
JudgeAnyway ==
  IF current = NoConn \/ outer[current] \notin OuterLive THEN "fresh" ELSE "supersede"

\* What the loop makes of a new connection: a finished or absent session is
\* forgotten, a committed one keeps the phone, any other is superseded.
Judge ==
  IF current = NoConn \/ outer[current] \notin OuterLive THEN "fresh"
  ELSE IF committed[current] THEN "busy" ELSE "supersede"

\* accept() returns; is_finished() and committed.load() are read here ...
Accept ==
  /\ armed
  /\ loopPc = "accept"
  /\ accepted < MaxConn
  /\ accepted' = accepted + 1
  /\ verdict' = Judge
  /\ loopPc' = "launch"
  /\ UNCHANGED <<armed, starts, current, outerVars, innerVars, dlVars>>

\* The run_session argument: `!busy`.
RunSession == verdict # "busy"

\* ... and acted upon here: abort the superseded session, spawn handle_conn.
Launch ==
  /\ loopPc = "launch"
  /\ loopPc' = "accept"
  /\ outerKill' = IF verdict = "supersede"
                  THEN [outerKill EXCEPT ![current] = TRUE] ELSE outerKill
  /\ outer' = [outer EXCEPT ![accepted] = "spawned"]
  /\ run' = [run EXCEPT ![accepted] = RunSession]
  /\ born' = [born EXCEPT ![accepted] = starts]
  /\ current' = IF RunSession THEN accepted ELSE current
  /\ UNCHANGED <<armed, starts, accepted, verdict, answered, reported,
                 innerVars, dlVars>>

-----------------------------------------------------------------------------
(* handle_conn *)

OnlyOuterMoves ==
  UNCHANGED <<loopVars, outerKill, run, born, answered, reported, innerVars, dlVars>>

\* First poll: the session task is spawned before the connect frame is read.
Begin(c) ==
  /\ outer[c] = "spawned"
  /\ outer' = [outer EXCEPT ![c] = "reading"]
  /\ inner' = IF run[c] THEN [inner EXCEPT ![c] = "hunting"] ELSE inner
  /\ UNCHANGED <<loopVars, outerKill, run, born, answered, reported,
                 innerKill, committed, announced, held, dlVars>>

\* Mutant: the accept frame is sent as soon as the connect frame is read.
AnswerFirst(c) ==
  /\ outer[c] = "reading"
  /\ outer' = [outer EXCEPT ![c] = "answering"]
  /\ OnlyOuterMoves

\* read_first_frame returned a frame with the share service id: the handle is
\* taken out of the guard and awaited, or, for an idle connection, answered.
FrameAccepted(c) ==
  /\ outer[c] = "reading"
  /\ outer' = [outer EXCEPT ![c] = IF run[c] THEN "awaiting" ELSE "answering"]
  /\ OnlyOuterMoves

\* Drop for AbortOnDrop, for a guard that still holds the session's handle.
AbortOnDrop(c) ==
  innerKill' = IF run[c] THEN [innerKill EXCEPT ![c] = TRUE] ELSE innerKill

\* No frame within FRAME_TIMEOUT, EOF, bad magic, not JSON, or another service
\* id: an early return, which drops the guard.
FrameRefused(c) ==
  /\ outer[c] = "reading"
  /\ outer' = [outer EXCEPT ![c] = "failed"]
  /\ AbortOnDrop(c)
  /\ UNCHANGED <<loopVars, outerKill, run, born, answered, reported,
                 inner, committed, announced, held, dlVars>>

\* handle.await yields the session's outcome.
SessionOver(c) ==
  /\ outer[c] = "awaiting"
  /\ inner[c] \in {"ok", "err"}
  /\ outer' = [outer EXCEPT ![c] = "answering"]
  /\ OnlyOuterMoves

\* Mutant: the outcome of the session is not looked at.
OutcomeDone(c) == "done"

\* Mutant: a failed session only logs.
OutcomeQuiet(c) == IF inner[c] = "ok" THEN "done" ELSE "none"

\* The event for the outcome of the session.
Outcome(c) == IF inner[c] = "ok" THEN "done" ELSE "failed"

\* The accept frame goes out; a session then reports Done or Failed.
Answer(c) ==
  /\ outer[c] = "answering"
  /\ outer' = [outer EXCEPT ![c] = "ended"]
  /\ answered' = [answered EXCEPT ![c] = TRUE]
  /\ reported' = IF run[c] THEN [reported EXCEPT ![c] = Outcome(c)] ELSE reported
  /\ UNCHANGED <<loopVars, outerKill, run, born, innerVars, dlVars>>

\* The phone is gone from 10191: `?` leaves without any event.
AnswerFails(c) ==
  /\ outer[c] = "answering"
  /\ outer' = [outer EXCEPT ![c] = "failed"]
  /\ OnlyOuterMoves

\* A requested abort takes effect at an await.  While the frame is being read
\* the guard still holds the session and takes it along; later the handle is a
\* plain local, whose drop detaches the session.
OuterDropped(c) ==
  /\ outerKill[c]
  /\ outer[c] \in OuterLive
  /\ outer' = [outer EXCEPT ![c] = "dropped"]
  /\ IF outer[c] = "reading" THEN AbortOnDrop(c) ELSE UNCHANGED innerKill
  /\ UNCHANGED <<loopVars, outerKill, run, born, answered, reported,
                 inner, committed, announced, held, dlVars>>

-----------------------------------------------------------------------------
(* The session task: grab_ws, then pull_batch *)

InnerGoes(c, from, to) ==
  /\ inner[c] = from
  /\ inner' = [inner EXCEPT ![c] = to]

OnlyInnerMoves ==
  UNCHANGED <<loopVars, outerVars, innerKill, committed, announced, held, dlVars>>

\* grab_ws: some poll within WS_WINDOW got its 101.
HuntSucceeds(c) ==
  /\ InnerGoes(c, "hunting", "idle")
  /\ OnlyInnerMoves

\* Mutant: grab_ws retries without a deadline.
HuntRetries(c) ==
  /\ InnerGoes(c, "hunting", "hunting")
  /\ OnlyInnerMoves

\* WS_WINDOW passed.
HuntExpires(c) ==
  /\ InnerGoes(c, "hunting", "err")
  /\ OnlyInnerMoves

\* Before any task: mkdir failed, READ_TIMEOUT, Close, a read error, a failed
\* versionNegotiation ack or a malformed sendRequest.
SessionFails(c) ==
  /\ InnerGoes(c, "idle", "err")
  /\ OnlyInnerMoves

\* sendRequest: Started is emitted, then its ack is being sent.  Nothing stops
\* the phone from announcing another task while one is being pulled.
Announce(c) ==
  /\ inner[c] \in {"idle", "pulling"}
  /\ announced[c] < MaxTask
  /\ inner' = [inner EXCEPT ![c] = "acking"]
  /\ announced' = [announced EXCEPT ![c] = @ + 1]
  /\ UNCHANGED <<loopVars, outerVars, innerKill, committed, held, dlVars>>

\* The ack went out: commit, spawn the download, and remember its handle; the
\* handle of an earlier download is overwritten, which detaches that task.
Commit(c) ==
  /\ InnerGoes(c, "acking", "pulling")
  /\ committed' = [committed EXCEPT ![c] = TRUE]
  /\ held' = [held EXCEPT ![c] = announced[c]]
  /\ dl' = [dl EXCEPT ![c][announced[c]] = "connecting"]
  /\ UNCHANGED <<loopVars, outerVars, innerKill, announced, part>>

\* The ack could not be sent.
AckFails(c) ==
  /\ InnerGoes(c, "acking", "err")
  /\ OnlyInnerMoves

\* select!: the held download has finished; its status is being sent.
DownloadSeen(c) ==
  /\ InnerGoes(c, "pulling", "reporting")
  /\ dl[c][held[c]] \in {"ok", "err"}
  /\ OnlyInnerMoves

\* select!: the WebSocket died or was closed; only the download is awaited now.
WsGone(c) ==
  /\ InnerGoes(c, "pulling", "draining")
  /\ OnlyInnerMoves

\* select!: READ_TIMEOUT without a frame, a malformed second sendRequest, or a
\* failed versionNegotiation ack: `?` leaves, and the download is detached.
PullAbandoned(c) ==
  /\ InnerGoes(c, "pulling", "err")
  /\ OnlyInnerMoves

\* The outcome of the held download becomes the session's, after the status
\* frame (whose failure is ignored) or, on a dead WebSocket, without one.
SessionReturns(c) ==
  /\ inner[c] \in {"draining", "reporting"}
  /\ dl[c][held[c]] \in {"ok", "err"}
  /\ inner' = [inner EXCEPT ![c] = dl[c][held[c]]]
  /\ OnlyInnerMoves

\* The abort of AbortOnDrop takes effect; a held download is detached.
InnerDropped(c) ==
  /\ innerKill[c]
  /\ inner[c] \in InnerLive
  /\ inner' = [inner EXCEPT ![c] = "dropped"]
  /\ OnlyInnerMoves

-----------------------------------------------------------------------------
(* download_batch *)

\* connect_http and a 200: the partial file is created.
DlOpens(c, k) ==
  /\ dl[c][k] = "connecting"
  /\ dl' = [dl EXCEPT ![c][k] = "streaming"]
  /\ part' = [part EXCEPT ![c] = @ \union {k}]
  /\ UNCHANGED <<loopVars, outerVars, innerVars>>

\* The last chunk is on disk; extraction is handed to a blocking thread.
DlStreamed(c, k) ==
  /\ dl[c][k] = "streaming"
  /\ dl' = [dl EXCEPT ![c][k] = "extracting"]
  /\ UNCHANGED <<loopVars, outerVars, innerVars, part>>

\* Refused, not 200, cut short or silent for READ_TIMEOUT.
DlFails(c, k) ==
  /\ dl[c][k] \in {"connecting", "streaming"}
  /\ dl' = [dl EXCEPT ![c][k] = "err"]
  /\ part' = [part EXCEPT ![c] = @ \ {k}]
  /\ UNCHANGED <<loopVars, outerVars, innerVars>>

\* extract_zip opens the partial by name (so it must still be there) and may
\* fail on its own; the partial is removed either way.
DlExtracts(c, k) ==
  /\ dl[c][k] = "extracting"
  /\ \E r \in {"ok", "err"} :
       /\ r = "ok" => k \in part[c]
       /\ dl' = [dl EXCEPT ![c][k] = r]
  /\ part' = [part EXCEPT ![c] = @ \ {k}]
  /\ UNCHANGED <<loopVars, outerVars, innerVars>>

-----------------------------------------------------------------------------
(* Specification *)

Outer(c) ==
  \/ Begin(c)
  \/ FrameAccepted(c)
  \/ FrameRefused(c)
  \/ SessionOver(c)
  \/ Answer(c)
  \/ AnswerFails(c)
  \/ OuterDropped(c)

Inner(c) ==
  \/ HuntSucceeds(c)
  \/ HuntExpires(c)
  \/ SessionFails(c)
  \/ Announce(c)
  \/ Commit(c)
  \/ AckFails(c)
  \/ DownloadSeen(c)
  \/ WsGone(c)
  \/ PullAbandoned(c)
  \/ SessionReturns(c)
  \/ InnerDropped(c)

Download(c, k) ==
  \/ DlOpens(c, k)
  \/ DlStreamed(c, k)
  \/ DlFails(c, k)
  \/ DlExtracts(c, k)

Next ==
  \/ Start
  \/ Stop
  \/ Exit
  \/ Accept
  \/ Launch
  \/ \E c \in Conn : Outer(c) \/ Inner(c)
  \/ \E c \in Conn, k \in Task : Download(c, k)

Spec == Init /\ [][Next]_vars

\* The runtime polls every task that can run, and every wait of ours has a
\* timeout: FRAME_TIMEOUT, WS_WINDOW, READ_TIMEOUT, the 5s ack window of the
\* phone.  Nothing the phone chooses to do is fair: that it serves a hunt, sends
\* a frame, announces a task or drops the WebSocket.  That "idle" ends assumes a
\* phone that stops pinging; that a download ends, a finite stream.
Fairness ==
  /\ WF_vars(Launch)
  /\ \A c \in Conn :
       /\ WF_vars(Begin(c))
       /\ WF_vars(FrameRefused(c))
       /\ WF_vars(SessionOver(c))
       /\ WF_vars(Answer(c) \/ AnswerFails(c))
       /\ WF_vars(OuterDropped(c))
       /\ WF_vars(HuntExpires(c))
       /\ WF_vars(SessionFails(c))
       /\ WF_vars(Commit(c) \/ AckFails(c))
       /\ WF_vars(DownloadSeen(c))
       /\ WF_vars(SessionReturns(c))
       /\ WF_vars(InnerDropped(c))
  /\ \A c \in Conn, k \in Task :
       WF_vars(DlStreamed(c, k) \/ DlFails(c, k)) /\ WF_vars(DlExtracts(c, k))

FairSpec == Spec /\ Fairness

-----------------------------------------------------------------------------
(* Properties *)

Running(c) == outer[c] \in OuterLive /\ run[c]

\* The accept loop supervises at most one session: of those its own generation
\* launched, every running session but `current` has been told to abort.
OneSupervised ==
  \A c \in Conn :
    Running(c) /\ born[c] = starts /\ c # current => outerKill[c]

\* The bytes:[1] of a session that ran goes out only after that session is
\* over (on the phone this frame ends the share), never while it still
\* negotiates, pulls or drains.
AnswerAfterSession ==
  \A c \in Conn : answered[c] /\ run[c] => inner[c] \in {"ok", "err"}

\* An early return never leaves a hunt behind: once handle_conn has returned,
\* with or without an error, its session is over or has been aborted.  (A
\* handle_conn that was itself aborted is not covered: see OneLiveSession.)
NoHuntAfterReturn ==
  \A c \in Conn :
    outer[c] \in {"ended", "failed"} /\ inner[c] \in InnerLive => innerKill[c]

\* Done is only ever shown for files that were saved: the session announced a
\* task, committed, and the download it reports on was extracted.
DoneMeansSaved ==
  \A c \in Conn :
    reported[c] = "done" => /\ committed[c]
                            /\ \E k \in Task : dl[c][k] = "ok"

\* While the receiver is armed, every partial archive on disk belongs to a
\* download that is still at work: aborts, detached pulls and a restart after
\* a crash leave nothing behind for good.
NoStalePartial ==
  armed => \A c \in Conn : \A k \in part[c] : dl[c][k] \in DlRunning

\* A session the loop has decided to abort: what it read of `committed` is old
\* by the time it acts.
Doomed(c) == loopPc = "launch" /\ verdict = "supersede" /\ current = c

\* A session that committed before the loop made up its mind about it.
Secure(c) == committed[c] /\ ~outerKill[c] /\ ~Doomed(c)

\* "From here on this session owns the phone: no further tap may abort it", nor a
\* restarted receiver: only the end of its own connection takes the session, and
\* only the end of the process takes the connection.  (The code does not keep
\* this for a session that commits while it is doomed.)
CommittedStands ==
  [][\A c \in Conn : Secure(c) =>
       /\ Secure(c)'
       /\ innerKill'[c] => outer'[c] = "failed"
       /\ outer'[c] = "dropped" => outer[c] = "dropped" \/ ~armed']_vars

\* Every accepted connection is eventually let go: no session, however it is
\* superseded, timed out or detached, stays for ever.
EverySessionEnds ==
  \A c \in Conn :
    outer[c] = "spawned" ~> /\ outer[c] \notin OuterLive
                            /\ inner[c] \notin InnerLive

\* A batch that was announced to the frontend is concluded by Done or Failed,
\* unless its handle_conn was aborted or returned early with an error.
StartedConcluded ==
  \A c \in Conn :
    announced[c] > 0 ~> reported[c] # "none" \/ outer[c] \in {"dropped", "failed"}

(* What the comments of share.rs say and the code does not do *)

\* "Exactly one session may be live" (share.rs:230), aborts that are already
\* on their way left aside.
OneLiveSession ==
  Cardinality({c \in Conn : /\ inner[c] \in InnerLive
                            /\ ~innerKill[c]
                            /\ ~(outerKill[c] /\ outer[c] \in OuterLive)}) <= 1
=============================================================================
