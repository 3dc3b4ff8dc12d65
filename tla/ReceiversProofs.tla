-------------------------- MODULE ReceiversProofs --------------------------
(***************************************************************************)
(* Proofs about the receivers.                                             *)
(*                                                                         *)
(* ShareReceiver, for every number of connections, tasks and receiver      *)
(* starts.  Three invariants are inductive relative to the typing one:     *)
(* LoopInv (what the accept loop knows about its sessions), SessionInv     *)
(* (how handle_conn, its session and its downloads stand to one another)   *)
(* and NoStalePartial.                                                     *)
(*                                                                         *)
(* Receivers, for every number of tasks, batches, files, uploads and       *)
(* failures and every size of the ring.  Its batches and its relay have an *)
(* inductive invariant each (BatchInv with OrderInv, CloudInv with         *)
(* Waiting), and under the latter the relay implements Mailbox.            *)
(***************************************************************************)
EXTENDS ShareReceiver, Receivers, FiniteSetTheorems, TLAPS

\* Between the decision and the launch the accepted connection is untouched.
LaunchPending ==
  loopPc = "launch" =>
    /\ armed
    /\ accepted \in Conn
    /\ outer[accepted] = "none"
    /\ current < accepted
    /\ verdict = "supersede" => current \in Conn
    /\ verdict = "fresh" => current = NoConn \/ outer[current] \notin OuterLive

\* What the loop remembers is a session it launched itself.
CurrentLaunched ==
  /\ current <= accepted
  /\ current \in Conn => /\ run[current]
                         /\ born[current] = starts
                         /\ outer[current] # "none"

\* Connections not launched yet carry no trace of a launch.
Unlaunched ==
  /\ ~armed => loopPc = "accept"
  /\ \A c \in Conn : c > accepted => outer[c] = "none"
  /\ \A c \in Conn : outer[c] = "none" => ~run[c] /\ ~outerKill[c]
  /\ \A c \in Conn : born[c] <= starts

LoopInv ==
  /\ LaunchPending
  /\ CurrentLaunched
  /\ Unlaunched
  /\ OneSupervised

\* The session exists only between its spawn and its end.
SessionSpawned ==
  \A c \in Conn :
    /\ ~run[c] => inner[c] = "none"
    /\ outer[c] \in {"none", "spawned"} => inner[c] = "none"
    /\ outer[c] = "none" => ~run[c] /\ ~answered[c]

\* handle_conn comes to its answer only through the session's outcome.
AnsweringOver ==
  \A c \in Conn : outer[c] = "answering" /\ run[c] => inner[c] \in {"ok", "err"}

\* A download exists once it was announced and its ack went out.
DownloadsAnnounced ==
  \A c \in Conn :
    /\ \A k \in Task : k > announced[c] => dl[c][k] = "none"
    /\ inner[c] = "acking" => announced[c] \in Task /\ dl[c][announced[c]] = "none"
    /\ inner[c] \in {"pulling", "draining", "reporting"} =>
         committed[c] /\ held[c] \in Task

\* A session that succeeded committed and saved a download.
OkMeansSaved ==
  \A c \in Conn :
    inner[c] = "ok" => committed[c] /\ \E k \in Task : dl[c][k] = "ok"

SessionInv ==
  /\ SessionSpawned
  /\ AnsweringOver
  /\ DownloadsAnnounced
  /\ OkMeansSaved
  /\ AnswerAfterSession
  /\ NoHuntAfterReturn
  /\ DoneMeansSaved

-----------------------------------------------------------------------------
(* The invariants as predicates of the state alone *)

USE DEF Conn, Task, NoConn

\* Every variable keeps its type (the state of share.rs's tasks and flags).
THEOREM TypeCorrect == Spec => []TypeOK
<1> USE ConnAssumption, TaskAssumption, StartAssumption
<1>1. Init => TypeOK
  <2> SUFFICES ASSUME Init PROVE TypeOK
    OBVIOUS
  <2>1. /\ starts \in 0 .. MaxStart /\ accepted \in 0 .. MaxConn
        /\ current \in Conn \union {NoConn}
    BY DEF Init
  <2>5. armed \in BOOLEAN
    BY DEF Init
  <2>6. loopPc \in {"accept", "launch"} /\ verdict \in {"fresh", "supersede", "busy"}
    BY DEF Init
  <2>2. /\ outer \in [Conn -> OuterState] /\ outerKill \in [Conn -> BOOLEAN]
        /\ run \in [Conn -> BOOLEAN] /\ born \in [Conn -> 0 .. MaxStart]
        /\ answered \in [Conn -> BOOLEAN]
        /\ reported \in [Conn -> {"none", "done", "failed"}]
    BY DEF Init, OuterState
  <2>3. /\ inner \in [Conn -> InnerState] /\ innerKill \in [Conn -> BOOLEAN]
        /\ committed \in [Conn -> BOOLEAN]
        /\ announced \in [Conn -> 0 .. MaxTask]
        /\ held \in [Conn -> Task \union {0}]
    BY DEF Init, InnerState
  <2>4. dl \in [Conn -> [Task -> DlState]] /\ part \in [Conn -> SUBSET Task]
    BY DEF Init, DlState
  <2> QED
    BY <2>1, <2>2, <2>3, <2>4, <2>5, <2>6 DEF TypeOK
<1>2. TypeOK /\ [Next]_vars => TypeOK'
  <2> SUFFICES ASSUME TypeOK, [Next]_vars PROVE TypeOK'
    OBVIOUS
  <2> USE DEF TypeOK, OuterState, InnerState, DlState, OuterLive, InnerLive, DlRunning
  <2>1. CASE Start
    BY <2>1 DEF Start, sweep_partials, loopVars, outerVars, innerVars, dlVars
  <2>2. CASE Stop
    BY <2>2 DEF Stop, loopVars, outerVars, innerVars, dlVars
  <2>3. CASE Exit
    BY <2>3 DEF Exit, loopVars, outerVars, innerVars, dlVars
  <2>4. CASE Accept
    BY <2>4 DEF Accept, Judge, loopVars, outerVars, innerVars, dlVars
  <2>5. CASE Launch
    <3>1. /\ outer' \in [Conn -> OuterState] /\ outerKill' \in [Conn -> BOOLEAN]
          /\ run' \in [Conn -> BOOLEAN] /\ born' \in [Conn -> 0 .. MaxStart]
      BY <2>5 DEF Launch, RunSession
    <3>2. loopPc' \in {"accept", "launch"} /\ current' \in Conn \union {NoConn}
      BY <2>5 DEF Launch
    <3> QED
      BY <3>1, <3>2, <2>5 DEF Launch, innerVars, dlVars
  <2>6. ASSUME NEW c \in Conn, Begin(c) PROVE TypeOK'
    BY <2>6 DEF Begin, loopVars, outerVars, innerVars, dlVars
  <2>7. ASSUME NEW c \in Conn, FrameAccepted(c) PROVE TypeOK'
    BY <2>7 DEF FrameAccepted, OnlyOuterMoves, loopVars, outerVars, innerVars, dlVars
  <2>8. ASSUME NEW c \in Conn, FrameRefused(c) PROVE TypeOK'
    BY <2>8 DEF FrameRefused, AbortOnDrop, loopVars, outerVars, innerVars, dlVars
  <2>9. ASSUME NEW c \in Conn, SessionOver(c) PROVE TypeOK'
    BY <2>9 DEF SessionOver, OnlyOuterMoves, loopVars, outerVars, innerVars, dlVars
  <2>10. ASSUME NEW c \in Conn, Answer(c) PROVE TypeOK'
    BY <2>10 DEF Answer, Outcome, loopVars, outerVars, innerVars, dlVars
  <2>11. ASSUME NEW c \in Conn, AnswerFails(c) PROVE TypeOK'
    BY <2>11 DEF AnswerFails, OnlyOuterMoves, loopVars, outerVars, innerVars, dlVars
  <2>12. ASSUME NEW c \in Conn, OuterDropped(c) PROVE TypeOK'
    BY <2>12 DEF OuterDropped, AbortOnDrop, loopVars, outerVars, innerVars, dlVars
  <2>13. ASSUME NEW c \in Conn, HuntSucceeds(c) PROVE TypeOK'
    BY <2>13 DEF HuntSucceeds, OnlyInnerMoves, InnerGoes, loopVars, outerVars, innerVars, dlVars
  <2>14. ASSUME NEW c \in Conn, HuntExpires(c) PROVE TypeOK'
    BY <2>14 DEF HuntExpires, OnlyInnerMoves, InnerGoes, loopVars, outerVars, innerVars, dlVars
  <2>15. ASSUME NEW c \in Conn, SessionFails(c) PROVE TypeOK'
    BY <2>15 DEF SessionFails, OnlyInnerMoves, InnerGoes, loopVars, outerVars, innerVars, dlVars
  <2>16. ASSUME NEW c \in Conn, Announce(c) PROVE TypeOK'
    BY <2>16 DEF Announce, loopVars, outerVars, innerVars, dlVars
  <2>17. ASSUME NEW c \in Conn, Commit(c) PROVE TypeOK'
    <3>1. dl' \in [Conn -> [Task -> DlState]]
      BY <2>17 DEF Commit
    <3>2. held' \in [Conn -> Task \union {0}] /\ inner' \in [Conn -> InnerState]
      BY <2>17 DEF Commit, InnerGoes
    <3> QED
      BY <3>1, <3>2, <2>17 DEF Commit, loopVars, outerVars
  <2>18. ASSUME NEW c \in Conn, AckFails(c) PROVE TypeOK'
    BY <2>18 DEF AckFails, OnlyInnerMoves, InnerGoes, loopVars, outerVars, innerVars, dlVars
  <2>19. ASSUME NEW c \in Conn, DownloadSeen(c) PROVE TypeOK'
    BY <2>19 DEF DownloadSeen, OnlyInnerMoves, InnerGoes, loopVars, outerVars, innerVars, dlVars
  <2>20. ASSUME NEW c \in Conn, WsGone(c) PROVE TypeOK'
    BY <2>20 DEF WsGone, OnlyInnerMoves, InnerGoes, loopVars, outerVars, innerVars, dlVars
  <2>21. ASSUME NEW c \in Conn, PullAbandoned(c) PROVE TypeOK'
    BY <2>21 DEF PullAbandoned, OnlyInnerMoves, InnerGoes, loopVars, outerVars, innerVars, dlVars
  <2>22. ASSUME NEW c \in Conn, SessionReturns(c) PROVE TypeOK'
    BY <2>22 DEF SessionReturns, OnlyInnerMoves, loopVars, outerVars, innerVars, dlVars
  <2>23. ASSUME NEW c \in Conn, InnerDropped(c) PROVE TypeOK'
    BY <2>23 DEF InnerDropped, OnlyInnerMoves, loopVars, outerVars, innerVars, dlVars
  <2>24. ASSUME NEW c \in Conn, NEW k \in Task, DlOpens(c, k) PROVE TypeOK'
    BY <2>24 DEF DlOpens, loopVars, outerVars, innerVars, dlVars
  <2>25. ASSUME NEW c \in Conn, NEW k \in Task, DlStreamed(c, k) PROVE TypeOK'
    BY <2>25 DEF DlStreamed, loopVars, outerVars, innerVars, dlVars
  <2>26. ASSUME NEW c \in Conn, NEW k \in Task, DlFails(c, k) PROVE TypeOK'
    BY <2>26 DEF DlFails, loopVars, outerVars, innerVars, dlVars
  <2>27. ASSUME NEW c \in Conn, NEW k \in Task, DlExtracts(c, k) PROVE TypeOK'
    <3>1. part[c] \ {k} \subseteq Task
      OBVIOUS
    <3>2. part' \in [Conn -> SUBSET Task]
      BY <2>27, <3>1 DEF DlExtracts
    <3>3. dl' \in [Conn -> [Task -> DlState]]
      BY <2>27 DEF DlExtracts
    <3> QED
      BY <2>27, <3>2, <3>3 DEF DlExtracts, loopVars, outerVars, innerVars
  <2>28. CASE UNCHANGED vars
    BY <2>28 DEF vars, loopVars, outerVars, innerVars, dlVars
  <2> QED
    BY <2>1, <2>2, <2>3, <2>4, <2>5, <2>6, <2>7, <2>8, <2>9, <2>10, <2>11, <2>12, <2>13, <2>14,
       <2>15, <2>16, <2>17, <2>18, <2>19, <2>20, <2>21, <2>22, <2>23, <2>24, <2>25, <2>26, <2>27,
       <2>28
    DEF Next, Outer, Inner, Download
<1> QED
  BY <1>1, <1>2, PTL DEF Spec

-----------------------------------------------------------------------------
(* What the accept loop knows *)

\* A step in which sessions at most move on or end, and the loop does not act.
SessionsMoveOn ==
  /\ UNCHANGED <<starts, accepted, current, verdict, outerKill, run, born>>
  /\ loopPc' = "launch" => loopPc = "launch" /\ armed'
  /\ ~armed' => loopPc' = "accept"
  /\ \A d \in Conn : outer'[d] = "none" <=> outer[d] = "none"
  /\ \A d \in Conn : outer'[d] \in OuterLive => outer[d] \in OuterLive

LEMMA MoveOnKeepsLoopInv ==
  ASSUME TypeOK, LoopInv, SessionsMoveOn
  PROVE  LoopInv'
<1>1. LaunchPending'
  BY DEF LoopInv, LaunchPending, SessionsMoveOn, TypeOK
<1>2. CurrentLaunched'
  BY DEF LoopInv, CurrentLaunched, SessionsMoveOn, TypeOK
<1>3. Unlaunched'
  BY DEF LoopInv, Unlaunched, SessionsMoveOn, TypeOK
<1>4. OneSupervised'
  BY DEF LoopInv, OneSupervised, Running, SessionsMoveOn, TypeOK
<1> QED
  BY <1>1, <1>2, <1>3, <1>4 DEF LoopInv

\* Nothing that a session or a download does is an act of the loop.
LEMMA TasksOnlyMoveOn ==
  ASSUME TypeOK, LoopInv
  PROVE  /\ \A c \in Conn : Outer(c) \/ Inner(c) => SessionsMoveOn
         /\ \A c \in Conn, k \in Task : Download(c, k) => SessionsMoveOn
<1> USE DEF TypeOK, LoopInv, LaunchPending, Unlaunched, SessionsMoveOn, OuterLive,
            loopVars, outerVars, OuterState
<1>1. ASSUME NEW c \in Conn, Outer(c) PROVE SessionsMoveOn
  <2>1. CASE Begin(c)
    BY <2>1 DEF Begin, OnlyOuterMoves
  <2>2. CASE FrameAccepted(c)
    BY <2>2 DEF FrameAccepted, OnlyOuterMoves
  <2>3. CASE FrameRefused(c)
    BY <2>3 DEF FrameRefused, OnlyOuterMoves
  <2>4. CASE SessionOver(c)
    BY <2>4 DEF SessionOver, OnlyOuterMoves
  <2>5. CASE Answer(c)
    BY <2>5 DEF Answer, OnlyOuterMoves
  <2>6. CASE AnswerFails(c)
    BY <2>6 DEF AnswerFails, OnlyOuterMoves
  <2>7. CASE OuterDropped(c)
    BY <2>7 DEF OuterDropped, OnlyOuterMoves
  <2> QED
    BY <1>1, <2>1, <2>2, <2>3, <2>4, <2>5, <2>6, <2>7 DEF Outer
<1>2. ASSUME NEW c \in Conn, Inner(c) PROVE SessionsMoveOn
  BY <1>2 DEF Inner, HuntSucceeds, HuntExpires, SessionFails, Announce, Commit,
              AckFails, DownloadSeen, WsGone, PullAbandoned, SessionReturns,
              InnerDropped, OnlyInnerMoves
<1>3. ASSUME NEW c \in Conn, NEW k \in Task, Download(c, k) PROVE SessionsMoveOn
  BY <1>3 DEF Download, DlOpens, DlStreamed, DlFails, DlExtracts
<1> QED
  BY <1>1, <1>2, <1>3

\* The decision is taken for a connection that has no session yet.
LEMMA AcceptKeepsLoopInv ==
  ASSUME TypeOK, LoopInv, Accept
  PROVE  LoopInv'
<1> USE ConnAssumption DEF LoopInv, TypeOK
<1>1. /\ accepted' = accepted + 1 /\ accepted < MaxConn /\ loopPc' = "launch"
      /\ verdict' = Judge
      /\ UNCHANGED <<armed, starts, current, outer, outerKill, run, born>>
      /\ armed
  BY DEF Accept, outerVars
<1>2. LaunchPending'
  BY <1>1 DEF LaunchPending, CurrentLaunched, Unlaunched, Judge
<1>3. CurrentLaunched' /\ Unlaunched'
  BY <1>1 DEF CurrentLaunched, Unlaunched
<1>4. OneSupervised'
  BY <1>1 DEF OneSupervised, Running
<1> QED
  BY <1>2, <1>3, <1>4

\* The launch aborts the session it replaces, and no other.
LEMMA LaunchKeepsLoopInv ==
  ASSUME TypeOK, LoopInv, Launch
  PROVE  LoopInv'
<1> DEFINE n == accepted
<1> USE DEF LoopInv, TypeOK
<1>1. /\ loopPc = "launch" /\ loopPc' = "accept" /\ n \in Conn /\ outer[n] = "none"
      /\ current < n /\ armed
      /\ UNCHANGED <<armed, starts, accepted, verdict>>
      /\ verdict = "supersede" => current \in Conn
      /\ verdict = "fresh" => current = NoConn \/ outer[current] \notin OuterLive
      /\ ~run[n] /\ ~outerKill[n] /\ starts \in 0 .. MaxStart
  BY DEF Launch, LaunchPending, Unlaunched
<1>2. /\ outer' = [outer EXCEPT ![n] = "spawned"]
      /\ run' = [run EXCEPT ![n] = RunSession]
      /\ born' = [born EXCEPT ![n] = starts]
      /\ current' = IF RunSession THEN n ELSE current
      /\ outerKill' = IF verdict = "supersede"
                      THEN [outerKill EXCEPT ![current] = TRUE] ELSE outerKill
  BY DEF Launch
<1>3. LaunchPending'
  BY <1>1 DEF LaunchPending
<1>4. CurrentLaunched'
  <2>1. CASE RunSession
    <3>1. current' = n /\ run'[n] /\ born'[n] = starts /\ outer'[n] = "spawned"
      BY <1>1, <1>2, <2>1
    <3> QED
      BY <1>1, <3>1 DEF CurrentLaunched
  <2>2. CASE ~RunSession
    <3>1. current' = current /\ current <= accepted
      BY <1>1, <1>2, <2>2
    <3>2. ASSUME current \in Conn
          PROVE  /\ run'[current] = run[current] /\ born'[current] = born[current]
                 /\ outer'[current] = outer[current]
      BY <1>1, <1>2, <3>2
    <3> QED
      BY <1>1, <3>1, <3>2 DEF CurrentLaunched
  <2> QED
    BY <2>1, <2>2
<1>5. Unlaunched'
  <2>1. ~armed' => loopPc' = "accept"
    BY <1>1
  <2>2. ASSUME NEW c \in Conn PROVE born'[c] <= starts'
    <3>1. born[c] <= starts /\ born'[c] \in {born[c], starts}
      BY <1>1, <1>2 DEF Unlaunched
    <3> QED
      BY <1>1, <3>1
  <2>3. ASSUME NEW c \in Conn, c > accepted' PROVE outer'[c] = "none"
    BY <1>1, <1>2, <2>3 DEF Unlaunched
  <2>4. ASSUME NEW c \in Conn, outer'[c] = "none" PROVE ~run'[c] /\ ~outerKill'[c]
    BY <1>1, <1>2, <2>4 DEF Unlaunched, CurrentLaunched
  <2> QED
    BY <2>1, <2>2, <2>3, <2>4 DEF Unlaunched
<1>6. OneSupervised'
  <2> SUFFICES ASSUME NEW c \in Conn, Running(c)', born'[c] = starts', c # current'
               PROVE  outerKill'[c]
    BY DEF OneSupervised
  <2>1. CASE c = n
    BY <1>1, <1>2, <2>1 DEF Running
  <2>2. CASE c # n
    <3>1. Running(c) /\ born[c] = starts
      BY <1>1, <1>2, <2>2 DEF Running
    <3>2. CASE c = current
      BY <1>1, <1>2, <3>1, <3>2 DEF RunSession, Running
    <3>3. CASE c # current
      BY <1>1, <1>2, <3>1, <3>3 DEF OneSupervised
    <3> QED
      BY <3>2, <3>3
  <2> QED
    BY <2>1, <2>2
<1> QED
  BY <1>3, <1>4, <1>5, <1>6

LEMMA LoopInvariance == Spec => []LoopInv
<1> USE ConnAssumption, TaskAssumption, StartAssumption
<1>1. Init => LoopInv
  BY DEF Init, LoopInv, LaunchPending, CurrentLaunched, Unlaunched, OneSupervised,
         Running, OuterLive
<1>2. TypeOK /\ LoopInv /\ [Next]_vars => LoopInv'
  <2> SUFFICES ASSUME TypeOK, LoopInv, [Next]_vars PROVE LoopInv'
    OBVIOUS
  <2>1. CASE Start
    <3> USE <2>1 DEF Start, LoopInv, TypeOK, outerVars
    <3>1. LaunchPending' /\ CurrentLaunched'
      BY DEF LaunchPending, CurrentLaunched, Unlaunched
    <3>2. Unlaunched'
      BY DEF Unlaunched
    <3>3. OneSupervised'
      BY DEF OneSupervised, Running, Unlaunched
    <3> QED
      BY <3>1, <3>2, <3>3
  <2>2. CASE Stop
    BY <2>2, MoveOnKeepsLoopInv
    DEF Stop, SessionsMoveOn, outerVars, LoopInv, Unlaunched
  <2>3. CASE Exit
    <3>1. SessionsMoveOn
      BY <2>3 DEF Exit, SessionsMoveOn, TypeOK, OuterLive
    <3> QED
      BY <3>1, MoveOnKeepsLoopInv
  <2>4. CASE Accept
    BY <2>4, AcceptKeepsLoopInv
  <2>5. CASE Launch
    BY <2>5, LaunchKeepsLoopInv
  <2>6. ASSUME NEW c \in Conn, Outer(c) \/ Inner(c) PROVE LoopInv'
    BY <2>6, TasksOnlyMoveOn, MoveOnKeepsLoopInv
  <2>7. ASSUME NEW c \in Conn, NEW k \in Task, Download(c, k) PROVE LoopInv'
    BY <2>7, TasksOnlyMoveOn, MoveOnKeepsLoopInv
  <2>8. CASE UNCHANGED vars
    BY <2>8, MoveOnKeepsLoopInv
    DEF vars, loopVars, outerVars, SessionsMoveOn, LoopInv, LaunchPending, Unlaunched
  <2> QED
    BY <2>1, <2>2, <2>3, <2>4, <2>5, <2>6, <2>7, <2>8 DEF Next
<1> QED
  BY <1>1, <1>2, TypeCorrect, PTL DEF Spec

\* One live session per started receiver is all accept_loop supervises: every
\* other session it launched is on its way out (share.rs:230).
THEOREM AtMostOneSupervised == Spec => []OneSupervised
BY LoopInvariance, PTL DEF LoopInv

\* A session is told to abort only by its own connection: by an early return, or
\* when that was aborted itself, which no connection without a launch is.
AbortsExplained ==
  \A c \in Conn :
    /\ innerKill[c] => outer[c] = "failed" \/ outerKill[c]
    /\ outer[c] = "none" => ~innerKill[c]

LEMMA AbortsInvariance == Spec => []AbortsExplained
<1> USE ConnAssumption, TaskAssumption, StartAssumption
<1>1. Init => AbortsExplained
  BY DEF Init, AbortsExplained
<1>2. TypeOK /\ LoopInv /\ AbortsExplained /\ [Next]_vars => AbortsExplained'
  <2> SUFFICES ASSUME TypeOK, LoopInv, AbortsExplained, [Next]_vars
               PROVE  AbortsExplained'
    OBVIOUS
  <2> USE DEF TypeOK, AbortsExplained
  <2>1. CASE Start \/ Stop \/ Accept \/ UNCHANGED vars
    BY <2>1 DEF Start, Stop, Accept, outerVars, innerVars, vars
  <2>2. CASE Exit
    BY <2>2 DEF Exit, OuterLive
  <2>3. CASE Launch
    BY <2>3 DEF Launch, LoopInv, LaunchPending, innerVars
  <2>4. ASSUME NEW c \in Conn, Outer(c) PROVE AbortsExplained'
    <3>0. CASE Begin(c)
      BY <3>0 DEF Begin, OnlyOuterMoves, innerVars, OuterLive
    <3>1. CASE FrameAccepted(c)
      BY <3>1 DEF FrameAccepted, OnlyOuterMoves, innerVars, OuterLive
    <3>4. CASE FrameRefused(c)
      BY <3>4 DEF FrameRefused, OnlyOuterMoves, AbortOnDrop, innerVars, OuterLive
    <3>2. CASE SessionOver(c) \/ Answer(c) \/ AnswerFails(c)
      BY <3>2 DEF SessionOver, Answer, AnswerFails, OnlyOuterMoves, AbortOnDrop, innerVars,
                  OuterLive
    <3>3. CASE OuterDropped(c)
      BY <3>3 DEF OuterDropped, OnlyOuterMoves, AbortOnDrop, innerVars, OuterLive
    <3> QED
      BY <2>4, <3>0, <3>1, <3>2, <3>3, <3>4 DEF Outer
  <2>5. ASSUME NEW c \in Conn, Inner(c) PROVE AbortsExplained'
    BY <2>5 DEF Inner, HuntSucceeds, HuntExpires, SessionFails, Announce, Commit, AckFails,
                DownloadSeen, WsGone, PullAbandoned, SessionReturns, InnerDropped,
                OnlyInnerMoves, outerVars
  <2>6. ASSUME NEW c \in Conn, NEW k \in Task, Download(c, k) PROVE AbortsExplained'
    BY <2>6 DEF Download, DlOpens, DlStreamed, DlFails, DlExtracts, outerVars, innerVars
  <2> QED
    BY <2>1, <2>2, <2>3, <2>4, <2>5, <2>6 DEF Next
<1> QED
  BY <1>1, <1>2, TypeCorrect, LoopInvariance, PTL DEF Spec

\* "From here on this session owns the phone: no further tap may abort it"
\* (share.rs:618), for every session that the loop had not doomed before.
THEOREM CommittedKept == Spec => CommittedStands
<1>1. ASSUME TypeOK, AbortsExplained, AbortsExplained', [Next]_vars,
             NEW c \in Conn, Secure(c)
      PROVE  /\ Secure(c)'
             /\ innerKill'[c] => outer'[c] = "failed"
             /\ outer'[c] = "dropped" => outer[c] = "dropped" \/ ~armed'
  <2> USE DEF TypeOK, Secure, Doomed
  <2>1. Secure(c)' /\ (outer'[c] = "dropped" => outer[c] = "dropped" \/ ~armed')
    <3>1. CASE Start \/ Stop \/ UNCHANGED vars
      <4>1. /\ committed' = committed /\ outerKill' = outerKill /\ outer' = outer
            /\ \/ current' = NoConn
               \/ loopPc' = loopPc /\ verdict' = verdict /\ current' = current
        BY <3>1 DEF Start, Stop, outerVars, innerVars, loopVars, vars
      <4>2. c # NoConn
        BY DEF Conn, NoConn
      <4> QED
        BY <1>1, <4>1, <4>2
    <3>0. CASE Exit
      BY <1>1, <3>0 DEF Exit
    <3>2. CASE Accept
      BY <1>1, <3>2 DEF Accept, Judge, outerVars, innerVars
    <3>3. CASE Launch
      <4>1. /\ loopPc' = "accept" /\ committed' = committed /\ outerKill'[c] = outerKill[c]
            /\ outer'[c] \in {outer[c], "spawned"}
        BY <1>1, <3>3 DEF Launch, innerVars
      <4> QED
        BY <1>1, <4>1
    <3>4. ASSUME NEW d \in Conn, Outer(d)
          PROVE  Secure(c)' /\ (outer'[c] = "dropped" => outer[c] = "dropped" \/ ~armed')
      BY <1>1, <3>4 DEF Outer, Begin, FrameAccepted, FrameRefused, SessionOver, Answer,
                  AnswerFails, OuterDropped, OnlyOuterMoves, AbortOnDrop, loopVars, innerVars
    <3>5. ASSUME NEW d \in Conn, Inner(d)
          PROVE  Secure(c)' /\ (outer'[c] = "dropped" => outer[c] = "dropped" \/ ~armed')
      BY <1>1, <3>5 DEF Inner, HuntSucceeds, HuntExpires, SessionFails, Announce, Commit,
                  AckFails, DownloadSeen, WsGone, PullAbandoned, SessionReturns, InnerDropped,
                  OnlyInnerMoves, loopVars, outerVars
    <3>6. ASSUME NEW d \in Conn, NEW k \in Task, Download(d, k)
          PROVE  Secure(c)' /\ (outer'[c] = "dropped" => outer[c] = "dropped" \/ ~armed')
      BY <1>1, <3>6 DEF Download, DlOpens, DlStreamed, DlFails, DlExtracts, loopVars, outerVars,
                  innerVars
    <3> QED
      BY <1>1, <3>0, <3>1, <3>2, <3>3, <3>4, <3>5, <3>6 DEF Next
  <2>2. innerKill'[c] => outer'[c] = "failed"
    BY <1>1, <2>1 DEF AbortsExplained
  <2> QED
    BY <2>1, <2>2
<1>2. TypeOK /\ AbortsExplained /\ AbortsExplained' /\ [Next]_vars =>
        [\A c \in Conn : Secure(c) =>
           /\ Secure(c)'
           /\ innerKill'[c] => outer'[c] = "failed"
           /\ outer'[c] = "dropped" => outer[c] = "dropped" \/ ~armed']_vars
  BY <1>1
<1> QED
  BY <1>2, TypeCorrect, AbortsInvariance, PTL DEF Spec, CommittedStands

-----------------------------------------------------------------------------
(* How handle_conn, its session and its downloads stand to one another *)

\* A download only moves on: it does not appear, and what it saved stays saved.
DownloadsMoveOn ==
  /\ UNCHANGED <<outerVars, innerVars>>
  /\ \A d \in Conn, j \in Task :
       /\ dl'[d][j] = "none" <=> dl[d][j] = "none"
       /\ dl[d][j] = "ok" => dl'[d][j] = "ok"

LEMMA MoveOnKeepsSessionInv ==
  ASSUME TypeOK, SessionInv, DownloadsMoveOn
  PROVE  SessionInv'
<1> USE DEF SessionInv, DownloadsMoveOn, outerVars, innerVars
<1>1. SessionSpawned' /\ AnsweringOver' /\ AnswerAfterSession' /\ NoHuntAfterReturn'
  BY DEF SessionSpawned, AnsweringOver, AnswerAfterSession, NoHuntAfterReturn
<1>2. DownloadsAnnounced'
  BY DEF DownloadsAnnounced
<1>3. OkMeansSaved' /\ DoneMeansSaved'
  BY DEF OkMeansSaved, DoneMeansSaved
<1> QED
  BY <1>1, <1>2, <1>3

LEMMA DownloadMovesOn ==
  ASSUME TypeOK, NEW c \in Conn, NEW k \in Task, Download(c, k)
  PROVE  DownloadsMoveOn
<1>1. UNCHANGED <<outerVars, innerVars>>
  BY DEF Download, DlOpens, DlStreamed, DlFails, DlExtracts
<1>2. PICK r \in {"streaming", "extracting", "err", "ok"} :
        dl' = [dl EXCEPT ![c][k] = r]
  BY DEF Download, DlOpens, DlStreamed, DlFails, DlExtracts
<1>3. dl[c][k] \in {"connecting", "streaming", "extracting"}
  BY DEF Download, DlOpens, DlStreamed, DlFails, DlExtracts
<1>4. ASSUME NEW d \in Conn, NEW j \in Task
      PROVE  /\ dl'[d][j] = "none" <=> dl[d][j] = "none"
             /\ dl[d][j] = "ok" => dl'[d][j] = "ok"
  <2>1. CASE d = c /\ j = k
    BY <1>2, <1>3, <2>1 DEF TypeOK
  <2>2. CASE ~(d = c /\ j = k)
    BY <1>2, <2>2 DEF TypeOK
  <2> QED
    BY <2>1, <2>2
<1> QED
  BY <1>1, <1>4 DEF DownloadsMoveOn

\* handle_conn returns from its answer with its session over.
LEMMA ReturnLeavesNoHunt ==
  ASSUME TypeOK, SessionInv, NEW c \in Conn, outer[c] = "answering",
         NEW r \in {"ended", "failed"}, outer' = [outer EXCEPT ![c] = r],
         UNCHANGED <<inner, innerKill>>
  PROVE  NoHuntAfterReturn'
<1>1. inner[c] \notin InnerLive
  BY DEF SessionInv, SessionSpawned, AnsweringOver, InnerLive, TypeOK
<1>2. ASSUME NEW d \in Conn, d # c PROVE outer'[d] = outer[d]
  BY <1>2 DEF TypeOK
<1> QED
  BY <1>1, <1>2 DEF SessionInv, NoHuntAfterReturn

\* The event an answer reports is the one of the session it awaited.
LEMMA AnswerReportsSaved ==
  ASSUME TypeOK, SessionInv, NEW c \in Conn, Answer(c)
  PROVE  DoneMeansSaved'
<1>1. UNCHANGED <<committed, dl>>
  BY DEF Answer, innerVars, dlVars
<1>2. ASSUME NEW d \in Conn, reported'[d] = "done"
      PROVE  reported[d] = "done" \/ inner[d] = "ok"
  BY <1>2 DEF Answer, Outcome, TypeOK
<1> QED
  BY <1>1, <1>2 DEF SessionInv, DoneMeansSaved, OkMeansSaved

LEMMA SessionInvariance == Spec => []SessionInv
<1> USE ConnAssumption, TaskAssumption, StartAssumption
<1>1. Init => SessionInv
  BY DEF Init, SessionInv, SessionSpawned, AnsweringOver, DownloadsAnnounced,
         OkMeansSaved, AnswerAfterSession, NoHuntAfterReturn, DoneMeansSaved
<1>2. TypeOK /\ LoopInv /\ SessionInv /\ [Next]_vars => SessionInv'
  <2> SUFFICES ASSUME TypeOK, LoopInv, SessionInv, [Next]_vars PROVE SessionInv'
    OBVIOUS
  <2> USE DEF TypeOK, SessionInv, SessionSpawned, AnsweringOver,
              DownloadsAnnounced, OkMeansSaved, AnswerAfterSession,
              NoHuntAfterReturn, DoneMeansSaved, OuterLive, InnerLive
  <2>1. CASE Start
    BY <2>1 DEF Start, loopVars, outerVars, innerVars, dlVars
  <2>2. CASE Stop
    BY <2>2 DEF Stop, loopVars, outerVars, innerVars, dlVars
  <2>3. CASE Exit
    <3> USE <2>3 DEF Exit
    <3>8. ASSUME NEW d \in Conn, NEW j \in Task
          PROVE  /\ dl'[d][j] = "none" <=> dl[d][j] = "none"
                 /\ dl[d][j] = "ok" => dl'[d][j] = "ok"
      BY DEF DlRunning
    <3>9. UNCHANGED <<announced, committed, held, reported>>
      OBVIOUS
    <3>10. ASSUME NEW d \in Conn
           PROVE  inner'[d] # "dropped" => inner'[d] = inner[d]
      OBVIOUS
    <3>1. SessionSpawned'
      OBVIOUS
    <3>2. AnsweringOver'
      OBVIOUS
    <3>3. DownloadsAnnounced'
      BY <3>8, <3>9, <3>10
    <3>4. OkMeansSaved'
      BY <3>8, <3>9, <3>10
    <3>5. AnswerAfterSession'
      OBVIOUS
    <3>6. NoHuntAfterReturn'
      OBVIOUS
    <3>7. DoneMeansSaved'
      BY <3>8, <3>9
    <3> QED
      BY <3>1, <3>2, <3>3, <3>4, <3>5, <3>6, <3>7
  <2>4. CASE Accept
    <3> USE <2>4 DEF Accept, loopVars, outerVars, innerVars, dlVars
    <3>1. SessionSpawned'
      OBVIOUS
    <3>2. AnsweringOver'
      OBVIOUS
    <3>3. DownloadsAnnounced'
      OBVIOUS
    <3>4. OkMeansSaved'
      OBVIOUS
    <3>5. AnswerAfterSession'
      OBVIOUS
    <3>6. NoHuntAfterReturn'
      OBVIOUS
    <3>7. DoneMeansSaved'
      OBVIOUS
    <3> QED
      BY <3>1, <3>2, <3>3, <3>4, <3>5, <3>6, <3>7
  <2>5. CASE Launch
    <3> USE <2>5 DEF Launch, loopVars, outerVars, innerVars, dlVars, LoopInv, LaunchPending
    <3>1. SessionSpawned'
      OBVIOUS
    <3>2. AnsweringOver'
      OBVIOUS
    <3>3. DownloadsAnnounced'
      OBVIOUS
    <3>4. OkMeansSaved'
      OBVIOUS
    <3>5. AnswerAfterSession'
      OBVIOUS
    <3>6. NoHuntAfterReturn'
      OBVIOUS
    <3>7. DoneMeansSaved'
      OBVIOUS
    <3> QED
      BY <3>1, <3>2, <3>3, <3>4, <3>5, <3>6, <3>7
  <2>6. ASSUME NEW c \in Conn, Begin(c) PROVE SessionInv'
    <3> USE <2>6 DEF Begin, loopVars, outerVars, innerVars, dlVars
    <3>1. SessionSpawned'
      OBVIOUS
    <3>2. AnsweringOver'
      OBVIOUS
    <3>3. DownloadsAnnounced'
      OBVIOUS
    <3>4. OkMeansSaved'
      OBVIOUS
    <3>5. AnswerAfterSession'
      OBVIOUS
    <3>6. NoHuntAfterReturn'
      OBVIOUS
    <3>7. DoneMeansSaved'
      OBVIOUS
    <3> QED
      BY <3>1, <3>2, <3>3, <3>4, <3>5, <3>6, <3>7
  <2>7. ASSUME NEW c \in Conn, FrameAccepted(c) PROVE SessionInv'
    <3> USE <2>7 DEF FrameAccepted, OnlyOuterMoves, loopVars, outerVars, innerVars, dlVars
    <3>1. SessionSpawned'
      OBVIOUS
    <3>2. AnsweringOver'
      OBVIOUS
    <3>3. DownloadsAnnounced'
      OBVIOUS
    <3>4. OkMeansSaved'
      OBVIOUS
    <3>5. AnswerAfterSession'
      OBVIOUS
    <3>6. NoHuntAfterReturn'
      OBVIOUS
    <3>7. DoneMeansSaved'
      OBVIOUS
    <3> QED
      BY <3>1, <3>2, <3>3, <3>4, <3>5, <3>6, <3>7
  <2>8. ASSUME NEW c \in Conn, FrameRefused(c) PROVE SessionInv'
    <3> USE <2>8 DEF FrameRefused, AbortOnDrop, loopVars, outerVars, innerVars, dlVars
    <3>1. SessionSpawned'
      OBVIOUS
    <3>2. AnsweringOver'
      OBVIOUS
    <3>3. DownloadsAnnounced'
      OBVIOUS
    <3>4. OkMeansSaved'
      OBVIOUS
    <3>5. AnswerAfterSession'
      OBVIOUS
    <3>6. NoHuntAfterReturn'
      OBVIOUS
    <3>7. DoneMeansSaved'
      OBVIOUS
    <3> QED
      BY <3>1, <3>2, <3>3, <3>4, <3>5, <3>6, <3>7
  <2>9. ASSUME NEW c \in Conn, SessionOver(c) PROVE SessionInv'
    <3> USE <2>9 DEF SessionOver, OnlyOuterMoves, loopVars, outerVars, innerVars, dlVars
    <3>1. SessionSpawned'
      OBVIOUS
    <3>2. AnsweringOver'
      OBVIOUS
    <3>3. DownloadsAnnounced'
      OBVIOUS
    <3>4. OkMeansSaved'
      OBVIOUS
    <3>5. AnswerAfterSession'
      OBVIOUS
    <3>6. NoHuntAfterReturn'
      OBVIOUS
    <3>7. DoneMeansSaved'
      OBVIOUS
    <3> QED
      BY <3>1, <3>2, <3>3, <3>4, <3>5, <3>6, <3>7
  <2>10. ASSUME NEW c \in Conn, Answer(c) PROVE SessionInv'
    <3> USE <2>10 DEF Answer, Outcome, innerVars, dlVars
    <3>1. SessionSpawned'
      OBVIOUS
    <3>2. AnsweringOver'
      OBVIOUS
    <3>3. DownloadsAnnounced'
      OBVIOUS
    <3>4. OkMeansSaved'
      OBVIOUS
    <3>5. AnswerAfterSession'
      OBVIOUS
    <3>6. NoHuntAfterReturn'
      BY ReturnLeavesNoHunt
    <3>7. DoneMeansSaved'
      BY AnswerReportsSaved
    <3> QED
      BY <3>1, <3>2, <3>3, <3>4, <3>5, <3>6, <3>7
  <2>11. ASSUME NEW c \in Conn, AnswerFails(c) PROVE SessionInv'
    <3> USE <2>11 DEF AnswerFails, OnlyOuterMoves, innerVars, dlVars
    <3>1. SessionSpawned'
      OBVIOUS
    <3>2. AnsweringOver'
      OBVIOUS
    <3>3. DownloadsAnnounced'
      OBVIOUS
    <3>4. OkMeansSaved'
      OBVIOUS
    <3>5. AnswerAfterSession'
      OBVIOUS
    <3>6. NoHuntAfterReturn'
      BY ReturnLeavesNoHunt
    <3>7. DoneMeansSaved'
      OBVIOUS
    <3> QED
      BY <3>1, <3>2, <3>3, <3>4, <3>5, <3>6, <3>7
  <2>12. ASSUME NEW c \in Conn, OuterDropped(c) PROVE SessionInv'
    <3> USE <2>12 DEF OuterDropped, AbortOnDrop, loopVars, outerVars, innerVars, dlVars
    <3>1. SessionSpawned'
      OBVIOUS
    <3>2. AnsweringOver'
      OBVIOUS
    <3>3. DownloadsAnnounced'
      OBVIOUS
    <3>4. OkMeansSaved'
      OBVIOUS
    <3>5. AnswerAfterSession'
      OBVIOUS
    <3>6. NoHuntAfterReturn'
      OBVIOUS
    <3>7. DoneMeansSaved'
      OBVIOUS
    <3> QED
      BY <3>1, <3>2, <3>3, <3>4, <3>5, <3>6, <3>7
  <2>13. ASSUME NEW c \in Conn, HuntSucceeds(c) PROVE SessionInv'
    <3> USE <2>13 DEF HuntSucceeds, OnlyInnerMoves, InnerGoes, loopVars, outerVars, innerVars,
       dlVars
    <3>1. SessionSpawned'
      OBVIOUS
    <3>2. AnsweringOver'
      OBVIOUS
    <3>3. DownloadsAnnounced'
      OBVIOUS
    <3>4. OkMeansSaved'
      OBVIOUS
    <3>5. AnswerAfterSession'
      OBVIOUS
    <3>6. NoHuntAfterReturn'
      OBVIOUS
    <3>7. DoneMeansSaved'
      OBVIOUS
    <3> QED
      BY <3>1, <3>2, <3>3, <3>4, <3>5, <3>6, <3>7
  <2>14. ASSUME NEW c \in Conn, HuntExpires(c) PROVE SessionInv'
    <3> USE <2>14 DEF HuntExpires, OnlyInnerMoves, InnerGoes, loopVars, outerVars, innerVars, dlVars
    <3>1. SessionSpawned'
      OBVIOUS
    <3>2. AnsweringOver'
      OBVIOUS
    <3>3. DownloadsAnnounced'
      OBVIOUS
    <3>4. OkMeansSaved'
      OBVIOUS
    <3>5. AnswerAfterSession'
      OBVIOUS
    <3>6. NoHuntAfterReturn'
      OBVIOUS
    <3>7. DoneMeansSaved'
      OBVIOUS
    <3> QED
      BY <3>1, <3>2, <3>3, <3>4, <3>5, <3>6, <3>7
  <2>15. ASSUME NEW c \in Conn, SessionFails(c) PROVE SessionInv'
    <3> USE <2>15 DEF SessionFails, OnlyInnerMoves, InnerGoes, loopVars, outerVars, innerVars,
       dlVars
    <3>1. SessionSpawned'
      OBVIOUS
    <3>2. AnsweringOver'
      OBVIOUS
    <3>3. DownloadsAnnounced'
      OBVIOUS
    <3>4. OkMeansSaved'
      OBVIOUS
    <3>5. AnswerAfterSession'
      OBVIOUS
    <3>6. NoHuntAfterReturn'
      OBVIOUS
    <3>7. DoneMeansSaved'
      OBVIOUS
    <3> QED
      BY <3>1, <3>2, <3>3, <3>4, <3>5, <3>6, <3>7
  <2>16. ASSUME NEW c \in Conn, Announce(c) PROVE SessionInv'
    <3> USE <2>16 DEF Announce, loopVars, outerVars, innerVars, dlVars
    <3>1. SessionSpawned'
      OBVIOUS
    <3>2. AnsweringOver'
      OBVIOUS
    <3>3. DownloadsAnnounced'
      OBVIOUS
    <3>4. OkMeansSaved'
      OBVIOUS
    <3>5. AnswerAfterSession'
      OBVIOUS
    <3>6. NoHuntAfterReturn'
      OBVIOUS
    <3>7. DoneMeansSaved'
      OBVIOUS
    <3> QED
      BY <3>1, <3>2, <3>3, <3>4, <3>5, <3>6, <3>7
  <2>17. ASSUME NEW c \in Conn, Commit(c) PROVE SessionInv'
    <3> USE <2>17 DEF Commit, InnerGoes, loopVars, outerVars, innerVars, dlVars
    <3>1. SessionSpawned'
      OBVIOUS
    <3>2. AnsweringOver'
      OBVIOUS
    <3>3. DownloadsAnnounced'
      OBVIOUS
    <3>4. OkMeansSaved'
      OBVIOUS
    <3>5. AnswerAfterSession'
      OBVIOUS
    <3>6. NoHuntAfterReturn'
      OBVIOUS
    <3>7. DoneMeansSaved'
      OBVIOUS
    <3> QED
      BY <3>1, <3>2, <3>3, <3>4, <3>5, <3>6, <3>7
  <2>18. ASSUME NEW c \in Conn, AckFails(c) PROVE SessionInv'
    <3> USE <2>18 DEF AckFails, OnlyInnerMoves, InnerGoes, loopVars, outerVars, innerVars, dlVars
    <3>1. SessionSpawned'
      OBVIOUS
    <3>2. AnsweringOver'
      OBVIOUS
    <3>3. DownloadsAnnounced'
      OBVIOUS
    <3>4. OkMeansSaved'
      OBVIOUS
    <3>5. AnswerAfterSession'
      OBVIOUS
    <3>6. NoHuntAfterReturn'
      OBVIOUS
    <3>7. DoneMeansSaved'
      OBVIOUS
    <3> QED
      BY <3>1, <3>2, <3>3, <3>4, <3>5, <3>6, <3>7
  <2>19. ASSUME NEW c \in Conn, DownloadSeen(c) PROVE SessionInv'
    <3> USE <2>19 DEF DownloadSeen, OnlyInnerMoves, InnerGoes, loopVars, outerVars, innerVars,
       dlVars
    <3>1. SessionSpawned'
      OBVIOUS
    <3>2. AnsweringOver'
      OBVIOUS
    <3>3. DownloadsAnnounced'
      OBVIOUS
    <3>4. OkMeansSaved'
      OBVIOUS
    <3>5. AnswerAfterSession'
      OBVIOUS
    <3>6. NoHuntAfterReturn'
      OBVIOUS
    <3>7. DoneMeansSaved'
      OBVIOUS
    <3> QED
      BY <3>1, <3>2, <3>3, <3>4, <3>5, <3>6, <3>7
  <2>20. ASSUME NEW c \in Conn, WsGone(c) PROVE SessionInv'
    <3> USE <2>20 DEF WsGone, OnlyInnerMoves, InnerGoes, loopVars, outerVars, innerVars, dlVars
    <3>1. SessionSpawned'
      OBVIOUS
    <3>2. AnsweringOver'
      OBVIOUS
    <3>3. DownloadsAnnounced'
      OBVIOUS
    <3>4. OkMeansSaved'
      OBVIOUS
    <3>5. AnswerAfterSession'
      OBVIOUS
    <3>6. NoHuntAfterReturn'
      OBVIOUS
    <3>7. DoneMeansSaved'
      OBVIOUS
    <3> QED
      BY <3>1, <3>2, <3>3, <3>4, <3>5, <3>6, <3>7
  <2>21. ASSUME NEW c \in Conn, PullAbandoned(c) PROVE SessionInv'
    <3> USE <2>21 DEF PullAbandoned, OnlyInnerMoves, InnerGoes, loopVars, outerVars, innerVars,
       dlVars
    <3>1. SessionSpawned'
      OBVIOUS
    <3>2. AnsweringOver'
      OBVIOUS
    <3>3. DownloadsAnnounced'
      OBVIOUS
    <3>4. OkMeansSaved'
      OBVIOUS
    <3>5. AnswerAfterSession'
      OBVIOUS
    <3>6. NoHuntAfterReturn'
      OBVIOUS
    <3>7. DoneMeansSaved'
      OBVIOUS
    <3> QED
      BY <3>1, <3>2, <3>3, <3>4, <3>5, <3>6, <3>7
  <2>22. ASSUME NEW c \in Conn, SessionReturns(c) PROVE SessionInv'
    <3> USE <2>22 DEF SessionReturns, OnlyInnerMoves, outerVars, dlVars
    <3>1. SessionSpawned'
      OBVIOUS
    <3>2. AnsweringOver'
      OBVIOUS
    <3>3. DownloadsAnnounced'
      OBVIOUS
    <3>4. OkMeansSaved'
      OBVIOUS
    <3>5. AnswerAfterSession'
      OBVIOUS
    <3>6. NoHuntAfterReturn'
      OBVIOUS
    <3>7. DoneMeansSaved'
      OBVIOUS
    <3> QED
      BY <3>1, <3>2, <3>3, <3>4, <3>5, <3>6, <3>7
  <2>23. ASSUME NEW c \in Conn, InnerDropped(c) PROVE SessionInv'
    <3> USE <2>23 DEF InnerDropped, OnlyInnerMoves, outerVars, dlVars
    <3>1. SessionSpawned'
      OBVIOUS
    <3>2. AnsweringOver'
      OBVIOUS
    <3>3. DownloadsAnnounced'
      OBVIOUS
    <3>4. OkMeansSaved'
      OBVIOUS
    <3>5. AnswerAfterSession'
      OBVIOUS
    <3>6. NoHuntAfterReturn'
      OBVIOUS
    <3>7. DoneMeansSaved'
      OBVIOUS
    <3> QED
      BY <3>1, <3>2, <3>3, <3>4, <3>5, <3>6, <3>7
  <2>24. ASSUME NEW c \in Conn, NEW k \in Task, Download(c, k) PROVE SessionInv'
    BY <2>24, DownloadMovesOn, MoveOnKeepsSessionInv
  <2>25. CASE UNCHANGED vars
    BY <2>25 DEF vars, loopVars, outerVars, innerVars, dlVars
  <2> QED
    BY <2>1, <2>2, <2>3, <2>4, <2>5, <2>6, <2>7, <2>8, <2>9, <2>10, <2>11, <2>12, <2>13, <2>14,
       <2>15, <2>16, <2>17, <2>18, <2>19, <2>20, <2>21, <2>22, <2>23, <2>24, <2>25
    DEF Next, Outer, Inner
<1> QED
  BY <1>1, <1>2, TypeCorrect, LoopInvariance, PTL DEF Spec
\* bytes:[1] on 10191 ends the share on the phone; handle_conn sends it only
\* when the session it spawned has returned (share.rs:410).
THEOREM AnswerComesLast == Spec => []AnswerAfterSession
BY SessionInvariance, PTL DEF SessionInv

\* No early return of handle_conn leaves an unaborted hunt (AbortOnDrop).
THEOREM HuntStopsWithReturn == Spec => []NoHuntAfterReturn
BY SessionInvariance, PTL DEF SessionInv

\* The Done event stands for a committed session with a saved download.
THEOREM DoneIsSaved == Spec => []DoneMeansSaved
BY SessionInvariance, PTL DEF SessionInv

-----------------------------------------------------------------------------
(* Partial archives *)

\* While armed, a partial on disk belongs to a running download: download_batch
\* removes what it wrote and start sweeps what a dead process left.
THEOREM PartialsAccounted == Spec => []NoStalePartial
<1>1. Init => NoStalePartial
  BY DEF Init, NoStalePartial
<1>2. TypeOK /\ LoopInv /\ SessionInv /\ NoStalePartial /\ [Next]_vars
        => NoStalePartial'
  <2> SUFFICES ASSUME TypeOK, LoopInv, SessionInv, NoStalePartial, [Next]_vars
               PROVE  NoStalePartial'
    OBVIOUS
  <2> USE DEF NoStalePartial
  <2>1. CASE Start
    BY <2>1 DEF Start, sweep_partials
  <2>2. CASE Stop \/ Exit
    BY <2>2 DEF Stop, Exit
  <2>3. CASE Accept \/ Launch
    BY <2>3 DEF Accept, Launch, dlVars
  <2>4. ASSUME NEW c \in Conn, Outer(c) PROVE NoStalePartial'
    BY <2>4 DEF Outer, Begin, FrameAccepted, FrameRefused, SessionOver, Answer,
                AnswerFails, OuterDropped, OnlyOuterMoves, dlVars, loopVars
  <2>5. ASSUME NEW c \in Conn, Inner(c) PROVE NoStalePartial'
    <3>1. CASE Commit(c)
      <4>1. UNCHANGED <<armed, part>>
        BY <3>1 DEF Commit, loopVars
      <4>2. dl' = [dl EXCEPT ![c][announced[c]] = "connecting"]
        BY <3>1 DEF Commit
      <4>3. ASSUME NEW d \in Conn, NEW k \in Task, dl[d][k] \in DlRunning
            PROVE  dl'[d][k] \in DlRunning
        BY <4>2, <4>3 DEF TypeOK, DlRunning
      <4> QED
        BY <4>1, <4>3 DEF TypeOK
    <3>2. CASE ~Commit(c)
      BY <2>5, <3>2 DEF Inner, HuntSucceeds, HuntExpires, SessionFails, Announce,
          AckFails, DownloadSeen, WsGone, PullAbandoned, SessionReturns,
          InnerDropped, OnlyInnerMoves, dlVars, loopVars
    <3> QED
      BY <3>1, <3>2
  <2>6. ASSUME NEW c \in Conn, NEW k \in Task, Download(c, k) PROVE NoStalePartial'
    <3>1. UNCHANGED armed
      BY <2>6 DEF Download, DlOpens, DlStreamed, DlFails, DlExtracts, loopVars
    <3>5. /\ \E r \in DlState : dl' = [dl EXCEPT ![c][k] = r]
          /\ \E P \in {part[c] \union {k}, part[c], part[c] \ {k}} :
               part' = [part EXCEPT ![c] = P]
      <4>1. CASE DlOpens(c, k)
        BY <4>1 DEF DlOpens, DlState, DlRunning
      <4>2. CASE DlStreamed(c, k)
        BY <4>2 DEF DlStreamed, DlState, DlRunning, TypeOK
      <4>3. CASE DlFails(c, k)
        BY <4>3 DEF DlFails, DlState
      <4>4. CASE DlExtracts(c, k)
        BY <4>4 DEF DlExtracts, DlState
      <4> QED
        BY <2>6, <4>1, <4>2, <4>3, <4>4 DEF Download
    <3>2. ASSUME NEW d \in Conn, NEW j \in Task, ~(d = c /\ j = k)
          PROVE  dl'[d][j] = dl[d][j] /\ (j \in part'[d] => j \in part[d])
      BY <3>2, <3>5 DEF TypeOK
    <3>3. ASSUME NoStalePartial, armed, k \in part'[c] PROVE dl'[c][k] \in DlRunning
      <4>1. CASE DlOpens(c, k)
        BY <4>1 DEF DlOpens, TypeOK, DlRunning
      <4>2. CASE DlStreamed(c, k)
        BY <4>2 DEF DlStreamed, TypeOK, DlRunning
      <4>3. CASE DlFails(c, k) \/ DlExtracts(c, k)
        <5>1. part' = [part EXCEPT ![c] = @ \ {k}]
          BY <4>3 DEF DlFails, DlExtracts
        <5>2. k \notin part'[c]
          BY <5>1 DEF TypeOK
        <5> QED
          BY <3>3, <5>2
      <4> QED
        BY <2>6, <4>1, <4>2, <4>3 DEF Download
    <3>4. part' \in [Conn -> SUBSET Task]
      BY <2>6 DEF Download, DlOpens, DlStreamed, DlFails, DlExtracts, TypeOK
    <3> QED
      BY <3>1, <3>2, <3>3, <3>4 DEF TypeOK
  <2>7. CASE UNCHANGED vars
    BY <2>7 DEF vars, loopVars, dlVars
  <2> QED
    BY <2>1, <2>2, <2>3, <2>4, <2>5, <2>6, <2>7 DEF Next
<1> QED
  BY <1>1, <1>2, TypeCorrect, LoopInvariance, SessionInvariance, PTL DEF Spec

-----------------------------------------------------------------------------
(***************************************************************************)
(* Receivers: batches over the control WS                                  *)
(***************************************************************************)

\* A task that pulls has a batch.
Pulled == \A t \in Arm : at[t] \in Pulling => work[t] \in Batch

BatchInv == BatchTypeOK /\ Pulled

\* Batches in a ring come in the order of their announcement, and none ahead of it.
Later(q, b) == \A i \in 1 .. Len(q) : q[i] \in Batch => b < q[i]
Rising(q) ==
  \A i, j \in 1 .. Len(q) : i < j /\ q[i] \in Batch /\ q[j] \in Batch => q[i] < q[j]
Upto(q, n) == \A i \in 1 .. Len(q) : q[i] <= n

\* What a task pulls, and what it answered for, is behind all that is in its ring;
\* what it answered for is behind what it pulls.
Behind(t, b) == b <= batches /\ Later(inbox[t], b)
InOrder == \A t \in Arm : Rising(inbox[t]) /\ Upto(inbox[t], batches)
Answered(t) == {b \in Batch : receipts[t][b] # <<>>}
Fresh ==
  /\ \A t \in Arm : at[t] \in Pulling => Behind(t, work[t])
  /\ \A t \in Arm : \A b \in Answered(t) :
       Behind(t, b) /\ (at[t] \in Pulling => b < work[t])

OrderInv == InOrder /\ Fresh /\ AnsweredOnce

-----------------------------------------------------------------------------
(* The receivers of batches *)

\* The files of a batch are counted up to MaxFile.
LEMMA FilesCounted ==
  ASSUME NEW S, S \subseteq File
  PROVE  Cardinality(S) \in 0 .. MaxFile
<1>1. IsFiniteSet(File) /\ Cardinality(File) = MaxFile
  BY FileAssumption, FS_Interval DEF File
<1>2. IsFiniteSet(S) /\ Cardinality(S) <= Cardinality(File)
  BY <1>1, FS_Subset
<1>3. Cardinality(S) \in Nat
  BY <1>2, FS_CardinalityType
<1> QED
  BY <1>1, <1>2, <1>3, FileAssumption

\* The least of a set of files is one of them.
LEMMA MinIsIn ==
  ASSUME NEW S, S \subseteq Nat, S # {}
  PROVE  Min(S) \in S
<1> DEFINE R == {ss \in Nat \X Nat : ss[1] < ss[2]}
<1>1. IsWellFoundedOn(R, Nat)
  BY NatLessThanWellFounded DEF OpToRel
<1>2. PICK x \in S : \A y \in S : ~(<<y, x>> \in R)
  BY <1>1, WFMin
<1>3. ASSUME NEW y \in S PROVE x <= y
  <2>1. <<y, x>> \notin R
    BY <1>2
  <2>2. x \in Nat /\ y \in Nat
    OBVIOUS
  <2> QED
    BY <2>1, <2>2
<1> QED
  BY <1>3 DEF Min

Msg == Batch \cup {CancelMsg}

\* A ring of at most Ring messages stays one, and what falls out was a batch.
LEMMA RingKeeps ==
  ASSUME NEW q \in Seq(Msg), Len(q) <= Ring, NEW msg \in Msg
  PROVE  /\ Kept(q, msg) \in Seq(Msg) /\ Len(Kept(q, msg)) <= Ring
         /\ Lost(q) \subseteq Batch
<1>1. CASE Len(q) < Ring
  BY <1>1, RingAssumption DEF Kept, Lost
<1>2. CASE ~(Len(q) < Ring)
  <2>1. q # <<>> /\ Len(q) = Ring
    BY <1>2, RingAssumption
  <2>2. Tail(q) \in Seq(Msg) /\ Len(Tail(q)) = Len(q) - 1
    BY <2>1
  <2>3. q[1] \in Msg
    BY <2>1, RingAssumption
  <2> QED
    BY <1>2, <2>1, <2>2, <2>3, RingAssumption DEF Kept, Lost, Msg
<1> QED
  BY <1>1, <1>2

\* A message to every task that is live.
LEMMA SendsTyped ==
  ASSUME BatchTypeOK, NEW msg \in Msg, Sends(msg)
  PROVE  /\ inbox' \in [Arm -> Seq(Msg)] /\ \A t \in Arm : Len(inbox'[t]) <= Ring
         /\ missed' \in [Arm -> SUBSET Batch]
<1>1. \A t \in Arm : inbox[t] \in Seq(Msg) /\ Len(inbox[t]) <= Ring
  BY DEF BatchTypeOK, Msg
<1>2. \A t \in Arm : /\ Kept(inbox[t], msg) \in Seq(Msg) /\ Len(Kept(inbox[t], msg)) <= Ring
                     /\ Lost(inbox[t]) \subseteq Batch
  BY <1>1, RingKeeps
<1> QED
  BY <1>1, <1>2 DEF Sends, BatchTypeOK

\* A step of Receivers keeps the types of the batches' side, and that who pulls has a batch.
LEMMA StepBatch ==
  ASSUME BatchInv, ReceiversNext
  PROVE  BatchInv'
<1> USE DEF BatchInv
<1>1. CASE \E t \in Arm : Arms(t)
  BY <1>1 DEF Arms, BatchTypeOK, Pulled, Pulling
<1>2. CASE \E t \in Arm : Reads(t)
  <2>1. PICK t \in Arm : Reads(t)
    BY <1>2
  <2>2. have' \in [Arm -> 0 .. ReplyEnd]
    <3>1. PICK n \in have[t] + 1 .. ReplyEnd : have' = [have EXCEPT ![t] = n]
      BY <2>1 DEF Reads
    <3>2. n \in 0 .. ReplyEnd
      BY <3>1, FileAssumption DEF BatchTypeOK, ReplyEnd
    <3> QED
      BY <3>1, <3>2 DEF BatchTypeOK
  <2> QED
    BY <2>1, <2>2 DEF Reads, batchFrame, BatchTypeOK, Pulled
<1>3. CASE \E t \in Arm : Receives(t)
  <2>1. PICK t \in Arm : Receives(t)
    BY <1>3
  <2>2. /\ inbox[t] \in Seq(Msg) /\ inbox[t] # <<>> /\ Len(inbox[t]) <= Ring
        /\ inbox' = [inbox EXCEPT ![t] = Tail(inbox[t])]
    BY <2>1 DEF Receives, BatchTypeOK, Msg
  <2>3. Tail(inbox[t]) \in Seq(Msg) /\ Len(Tail(inbox[t])) <= Ring
    BY <2>2, RingAssumption
  <2>4. inbox' \in [Arm -> Seq(Msg)] /\ \A s \in Arm : Len(inbox'[s]) <= Ring
    BY <2>2, <2>3 DEF BatchTypeOK, Msg
  <2>5. \/ /\ at' = [at EXCEPT ![t] = "info"] /\ Head(inbox[t]) \in Batch
           /\ work' = [work EXCEPT ![t] = Head(inbox[t])]
        \/ UNCHANGED <<at, work>>
    BY <2>1 DEF Receives, Moves
  <2>6. /\ at' \in [Arm -> Pulling \cup {"none", "recv", "over"}]
        /\ work' \in [Arm -> Batch \cup {NoBatch}] /\ Pulled'
    <3>1. CASE /\ at' = [at EXCEPT ![t] = "info"] /\ Head(inbox[t]) \in Batch
               /\ work' = [work EXCEPT ![t] = Head(inbox[t])]
      BY <3>1 DEF BatchTypeOK, Pulled, Pulling
    <3>2. CASE UNCHANGED <<at, work>>
      BY <3>2 DEF BatchTypeOK, Pulled, Pulling
    <3> QED
      BY <2>5, <3>1, <3>2
  <2> QED
    BY <2>1, <2>4, <2>6 DEF Receives, BatchTypeOK, Msg
<1>4. CASE \E t \in Arm : RecvEnds(t) \/ Registers(t) \/ Stops(t)
  <2>1. PICK t \in Arm : RecvEnds(t) \/ Registers(t) \/ Stops(t)
    BY <1>4
  <2>2. CASE RecvEnds(t)
    BY <2>2 DEF RecvEnds, Moves, BatchTypeOK, Pulled, Pulling
  <2>3. CASE Registers(t) \/ Stops(t)
    BY <2>3 DEF Registers, Stops, Moves, batchFrame, BatchTypeOK, Pulled, Pulling
  <2> QED
    BY <2>1, <2>2, <2>3
<1>5. CASE \E t \in Arm : Writes(t)
  <2>1. PICK t \in Arm : Writes(t)
    BY <1>5
  <2>2. \/ UNCHANGED saved
        \/ \E f \in File : saved' = [saved EXCEPT ![t] = saved[t] \cup {f}]
    <3> DEFINE rest == Unpacked(t) \ saved[t]
    <3>1. rest # {} => Min(rest) \in File
      <4>1. rest \subseteq File /\ File \subseteq Nat
        BY DEF Unpacked, File
      <4> QED
        BY <4>1, MinIsIn
    <3> QED
      BY <2>1, <3>1 DEF Writes
  <2>3. saved' \in [Arm -> SUBSET File]
    <3>1. saved \in [Arm -> SUBSET File]
      BY DEF BatchTypeOK
    <3>2. ASSUME NEW f \in File, saved' = [saved EXCEPT ![t] = saved[t] \cup {f}]
          PROVE  saved' \in [Arm -> SUBSET File]
      <4>1. saved[t] \cup {f} \in SUBSET File
        BY <3>1
      <4> QED
        BY <3>1, <3>2, <4>1
    <3> QED
      BY <2>2, <3>1, <3>2
  <2>4. at' = at \/ at' = [at EXCEPT ![t] = "answer"]
    BY <2>1 DEF Writes, Moves
  <2>5. good' \in [Arm -> BOOLEAN]
    BY <2>1 DEF Writes, BatchTypeOK
  <2>6. at[t] = "write"
    BY <2>1 DEF Writes
  <2> QED
    BY <2>1, <2>3, <2>4, <2>5, <2>6 DEF Writes, batchFrame, BatchTypeOK, Pulled, Pulling
<1>6. CASE \E t \in Arm : Answers(t)
  <2>1. PICK t \in Arm : Answers(t)
    BY <1>6
  <2>2. work[t] \in Batch /\ Cardinality(saved[t]) \in 0 .. MaxFile
    BY <2>1, FilesCounted DEF Answers, Pulled, Pulling, BatchTypeOK
  <2>3. receipts' \in [Arm -> [Batch -> Seq(Receipt)]]
    <3>0. <<"success", Cardinality(saved[t])>> \in Receipt /\ <<"cancel", MaxFile>> \in Receipt
      BY <2>2, FileAssumption DEF Receipt
    <3>1. PICK new \in Receipt :
            receipts' = [receipts EXCEPT ![t][work[t]] = Append(receipts[t][work[t]], new)]
      BY <2>1, <3>0 DEF Answers
    <3>2. /\ receipts \in [Arm -> [Batch -> Seq(Receipt)]]
          /\ receipts[t][work[t]] \in Seq(Receipt)
      BY <2>2 DEF BatchTypeOK
    <3>3. Append(receipts[t][work[t]], new) \in Seq(Receipt)
      BY <3>2
    <3> QED
      BY <2>2, <3>1, <3>2, <3>3
  <2>4. 0 \in 0 .. ReplyEnd
    BY FileAssumption DEF ReplyEnd
  <2> QED
    BY <2>1, <2>3, <2>4 DEF Answers, Moves, BatchTypeOK, Pulled, Pulling
<1>7. CASE Announces \/ Cancels
  <2>0. cancelled' \subseteq Batch
    <3>1. CASE Cancels
      <4>1. batches \in Batch
        BY <3>1, BatchAssumption DEF Cancels, BatchTypeOK, Batch
      <4> QED
        BY <3>1, <4>1 DEF Cancels, BatchTypeOK
    <3>2. CASE Announces
      BY <3>2 DEF Announces, BatchTypeOK
    <3> QED
      BY <1>7, <3>1, <3>2
  <2>1. PICK msg \in Msg : Sends(msg) /\ batches' \in 0 .. MaxBatch
    <3>1. CASE batches < MaxBatch /\ batches' = batches + 1 /\ Sends(batches + 1)
      <4>1. batches \in 0 .. MaxBatch
        BY DEF BatchTypeOK
      <4>2. batches + 1 \in 0 .. MaxBatch /\ batches + 1 \in Msg
        BY <3>1, <4>1, BatchAssumption DEF Msg, Batch
      <4> QED
        BY <3>1, <4>2
    <3>2. CASE UNCHANGED batches /\ Sends(CancelMsg)
      BY <3>2 DEF BatchTypeOK, Msg
    <3> QED
      BY <1>7, <3>1, <3>2 DEF Announces, Cancels
  <2> QED
    BY <1>7, <2>0, <2>1, SendsTyped DEF Announces, Cancels, BatchTypeOK, Pulled, Msg
<1>8. CASE SessionEnds
  <2>1. \A t \in Arm : at'[t] = at[t] \/ at'[t] = "over"
    BY <1>8 DEF SessionEnds, BatchTypeOK
  <2>2. at' \in [Arm -> Pulling \cup {"none", "recv", "over"}]
    BY <1>8 DEF SessionEnds, BatchTypeOK
  <2> QED
    BY <1>8, <2>1, <2>2 DEF SessionEnds, BatchTypeOK, Pulled, Pulling
<1>9. CASE \/ \E u \in Upload : Uploads(u) \/ Expires(u)
           \/ UserSets \/ CloudStarts \/ CloudStops \/ Pass
  <2>1. UNCHANGED <<scene, batchVars>>
    BY <1>9
       DEF Uploads, Expires, UserSets, CloudStarts, CloudStops, Pass, Wakes, Queries, TakesNext, Inits,
           Fetches, Streams, StreamBreaks, Renames, Completes, cloudFrame
  <2> QED
    BY <2>1 DEF batchVars, BatchTypeOK, Pulled
<1> QED
  BY <1>1, <1>2, <1>3, <1>4, <1>5, <1>6, <1>7, <1>8, <1>9 DEF ReceiversNext, Pull

-----------------------------------------------------------------------------
(* The order of the batches *)

\* Taking the head of a ring leaves the order of the rest, and what was behind it all.
LEMMA TailInOrder ==
  ASSUME NEW q \in Seq(Msg), q # <<>>, Rising(q), NEW n \in Nat, Upto(q, n)
  PROVE  /\ Rising(Tail(q)) /\ Upto(Tail(q), n)
         /\ \A b \in Batch : Later(q, b) => Later(Tail(q), b)
         /\ Head(q) \in Batch => Later(Tail(q), Head(q)) /\ Head(q) <= n
<1>1. Len(q) \in Nat /\ Len(q) > 0 /\ Len(Tail(q)) = Len(q) - 1 /\ Head(q) = q[1]
  OBVIOUS
<1>2. \A i \in 1 .. Len(Tail(q)) : i + 1 \in 1 .. Len(q) /\ Tail(q)[i] = q[i + 1]
  BY <1>1
<1>3. Rising(Tail(q))
  <2> SUFFICES ASSUME NEW i \in 1 .. Len(Tail(q)), NEW j \in 1 .. Len(Tail(q)), i < j,
                      Tail(q)[i] \in Batch, Tail(q)[j] \in Batch
               PROVE  Tail(q)[i] < Tail(q)[j]
    BY DEF Rising
  <2>1. i + 1 < j + 1 /\ i + 1 \in 1 .. Len(q) /\ j + 1 \in 1 .. Len(q)
    BY <1>1, <1>2
  <2>2. q[i + 1] \in Batch /\ q[j + 1] \in Batch
    BY <1>2
  <2>3. q[i + 1] < q[j + 1]
    BY <2>1, <2>2 DEF Rising
  <2> QED
    BY <2>3, <1>2
<1>4. Upto(Tail(q), n) /\ \A b \in Batch : Later(q, b) => Later(Tail(q), b)
  BY <1>2 DEF Upto, Later
<1>5. ASSUME Head(q) \in Batch PROVE Later(Tail(q), Head(q)) /\ Head(q) <= n
  <2>1. 1 \in 1 .. Len(q) /\ q[1] \in Batch
    BY <1>1, <1>5
  <2>2. q[1] <= n
    BY <2>1 DEF Upto
  <2>3. ASSUME NEW i \in 1 .. Len(Tail(q)), Tail(q)[i] \in Batch PROVE q[1] < Tail(q)[i]
    <3>1. i + 1 \in 1 .. Len(q) /\ 1 < i + 1 /\ q[i + 1] \in Batch
      BY <1>1, <1>2, <2>3
    <3>2. q[1] < q[i + 1]
      BY <2>1, <3>1 DEF Rising
    <3> QED
      BY <3>2, <1>2
  <2> QED
    BY <1>1, <2>2, <2>3 DEF Later
<1> QED
  BY <1>3, <1>4, <1>5

\* A message at the end: a batch that is newer than all before, or a cancel.
LEMMA AppendInOrder ==
  ASSUME NEW q \in Seq(Msg), Rising(q), NEW n \in Nat, Upto(q, n), NEW msg \in Msg,
         NEW m \in Nat, n <= m, msg <= m, msg \in Batch => n < msg
  PROVE  /\ Rising(Append(q, msg)) /\ Upto(Append(q, msg), m)
         /\ \A b \in Batch : b <= n /\ Later(q, b) => Later(Append(q, msg), b)
<1> DEFINE a == Append(q, msg)
<1>1. Len(q) \in Nat /\ Len(a) = Len(q) + 1 /\ a[Len(q) + 1] = msg
  OBVIOUS
<1>2. \A i \in 1 .. Len(a) : i \in 1 .. Len(q) \/ i = Len(q) + 1
  BY <1>1
<1>3. \A i \in 1 .. Len(q) : a[i] = q[i] /\ a[i] \in Nat /\ a[i] <= n
  <2>1. \A i \in 1 .. Len(q) : q[i] \in Msg /\ q[i] <= n
    BY DEF Upto
  <2> QED
    BY <2>1 DEF Msg, Batch, CancelMsg
<1>4. msg \in Nat
  BY DEF Msg, Batch, CancelMsg
<1>5. Rising(a)
  <2> SUFFICES ASSUME NEW i \in 1 .. Len(a), NEW j \in 1 .. Len(a), i < j,
                      a[i] \in Batch, a[j] \in Batch
               PROVE  a[i] < a[j]
    BY DEF Rising
  <2>1. i \in 1 .. Len(q)
    BY <1>1
  <2>2. CASE j \in 1 .. Len(q)
    <3>1. q[i] \in Batch /\ q[j] \in Batch /\ a[i] = q[i] /\ a[j] = q[j]
      BY <1>3, <2>1, <2>2
    <3> QED
      BY <3>1, <2>1, <2>2 DEF Rising
  <2>3. CASE j = Len(q) + 1
    <3>1. a[j] = msg /\ a[i] <= n /\ a[i] \in Nat
      BY <1>1, <1>3, <2>1, <2>3
    <3> QED
      BY <3>1, <1>4
  <2> QED
    BY <1>2, <2>2, <2>3
<1>6. Upto(a, m)
  BY <1>1, <1>2, <1>3 DEF Upto
<1>7. ASSUME NEW b \in Batch, b <= n, Later(q, b) PROVE Later(a, b)
  <2>1. \A i \in 1 .. Len(q) : a[i] \in Batch => b < a[i]
    BY <1>3, <1>7 DEF Later
  <2>2. msg \in Batch => b < msg
    BY <1>4, <1>7 DEF Batch
  <2> QED
    BY <1>1, <1>2, <2>1, <2>2 DEF Later
<1> QED
  BY <1>5, <1>6, <1>7

\* And so for a message in the ring.
LEMMA KeptInOrder ==
  ASSUME NEW q \in Seq(Msg), Rising(q), NEW n \in Nat, Upto(q, n), NEW msg \in Msg,
         NEW m \in Nat, n <= m, msg <= m, msg \in Batch => n < msg
  PROVE  /\ Rising(Kept(q, msg)) /\ Upto(Kept(q, msg), m)
         /\ \A b \in Batch : b <= n /\ Later(q, b) => Later(Kept(q, msg), b)
<1>1. CASE Len(q) < Ring
  BY <1>1, AppendInOrder DEF Kept
<1>2. CASE ~(Len(q) < Ring)
  <2>1. q # <<>>
    BY <1>2, RingAssumption
  <2>2. Tail(q) \in Seq(Msg)
    BY <2>1
  <2>3. /\ Rising(Tail(q)) /\ Upto(Tail(q), n)
        /\ \A b \in Batch : Later(q, b) => Later(Tail(q), b)
    BY <2>1, TailInOrder
  <2>4. /\ Rising(Append(Tail(q), msg)) /\ Upto(Append(Tail(q), msg), m)
        /\ \A b \in Batch : b <= n /\ Later(Tail(q), b) => Later(Append(Tail(q), msg), b)
    BY <2>2, <2>3, AppendInOrder
  <2> QED
    BY <1>2, <2>3, <2>4 DEF Kept
<1> QED
  BY <1>1, <1>2

\* A step that announces nothing, takes nothing from a ring and answers nothing.
LEMMA QuietKeepsOrder ==
  ASSUME BatchInv, OrderInv, UNCHANGED <<batches, inbox, work, receipts>>,
         \A t \in Arm : at'[t] \in Pulling => at[t] \in Pulling
  PROVE  OrderInv'
<1>1. InOrder' /\ AnsweredOnce'
  BY DEF OrderInv, InOrder, AnsweredOnce
<1>2. \A t \in Arm, b \in Batch : Behind(t, b) => Behind(t, b)'
  BY DEF Behind
<1>3. \A t \in Arm : Answered(t)' = Answered(t) /\ Answered(t) \subseteq Batch
  BY DEF Answered
<1>4. Fresh'
  BY <1>2, <1>3 DEF OrderInv, Fresh, BatchInv, Pulled
<1> QED
  BY <1>1, <1>4 DEF OrderInv

\* A step keeps the order, and so does not answer for a batch twice.
LEMMA StepOrder ==
  ASSUME BatchInv, OrderInv, ReceiversNext
  PROVE  OrderInv'
<1>1. CASE \E t \in Arm : Receives(t)
  <2>1. PICK t \in Arm : Receives(t)
    BY <1>1
  <2>2. /\ inbox[t] \in Seq(Msg) /\ inbox[t] # <<>> /\ batches \in Nat
        /\ inbox' = [inbox EXCEPT ![t] = Tail(inbox[t])]
        /\ UNCHANGED <<batches, receipts>> /\ at[t] = "recv"
    BY <2>1 DEF Receives, BatchInv, BatchTypeOK, Msg
  <2>3. Rising(inbox[t]) /\ Upto(inbox[t], batches)
    BY DEF OrderInv, InOrder
  <2>4. /\ Rising(Tail(inbox[t])) /\ Upto(Tail(inbox[t]), batches)
        /\ \A b \in Batch : Later(inbox[t], b) => Later(Tail(inbox[t]), b)
        /\ Head(inbox[t]) \in Batch =>
             Later(Tail(inbox[t]), Head(inbox[t])) /\ Head(inbox[t]) <= batches
    BY <2>2, <2>3, TailInOrder
  <2>5. \A s \in Arm : inbox'[s] = IF s = t THEN Tail(inbox[t]) ELSE inbox[s]
    BY <2>2 DEF BatchInv, BatchTypeOK
  <2>6. InOrder'
    BY <2>2, <2>4, <2>5 DEF OrderInv, InOrder
  <2>7. \A s \in Arm, b \in Batch : Behind(s, b) => Behind(s, b)'
    BY <2>2, <2>4, <2>5 DEF Behind
  <2>8. /\ \A s \in Arm : Answered(s)' = Answered(s) /\ Answered(s) \subseteq Batch
        /\ \A s \in Arm : \A b \in Answered(s) : Behind(s, b)'
    <3>1. \A s \in Arm : Answered(s)' = Answered(s) /\ Answered(s) \subseteq Batch
      BY <2>2 DEF Answered
    <3> QED
      BY <2>7, <3>1 DEF OrderInv, Fresh
  <2>9. CASE UNCHANGED <<at, work>>
    <3>1. \A s \in Arm : at'[s] \in Pulling => Behind(s, work[s])'
      BY <2>7, <2>9 DEF OrderInv, Fresh, BatchInv, Pulled
    <3> QED
      BY <2>2, <2>6, <2>8, <2>9, <3>1 DEF OrderInv, Fresh, AnsweredOnce
  <2>10. CASE /\ at' = [at EXCEPT ![t] = "info"] /\ Head(inbox[t]) \in Batch
              /\ work' = [work EXCEPT ![t] = Head(inbox[t])]
    <3>0. PICK new : new = Head(inbox[t])
      OBVIOUS
    <3>1. /\ at'[t] = "info" /\ work'[t] = new
          /\ \A s \in Arm : s # t => at'[s] = at[s] /\ work'[s] = work[s]
      BY <2>10, <3>0 DEF BatchInv, BatchTypeOK
    <3>2. Behind(t, new)'
      BY <3>0, <2>2, <2>4, <2>5, <2>10 DEF Behind
    <3>3. \A s \in Arm : at'[s] \in Pulling => Behind(s, work[s])'
      BY <2>7, <3>1, <3>2 DEF OrderInv, Fresh, BatchInv, Pulled
    <3>4. \A b \in Answered(t) : b < new
      <4>1. new = inbox[t][1] /\ 1 \in 1 .. Len(inbox[t])
        BY <2>2, <3>0
      <4> QED
        BY <3>0, <2>10, <4>1 DEF OrderInv, Fresh, Behind, Later
    <3>5. \A s \in Arm : \A b \in Answered(s) : at'[s] \in Pulling => b < work'[s]
      BY <2>8, <3>1, <3>4 DEF OrderInv, Fresh
    <3> QED
      BY <2>2, <2>6, <2>8, <3>3, <3>5 DEF OrderInv, Fresh, AnsweredOnce
  <2> QED
    BY <2>1, <2>9, <2>10 DEF Receives, Moves
<1>2. CASE \E t \in Arm : Answers(t)
  <2>1. PICK t \in Arm : Answers(t)
    BY <1>2
  <2>2. PICK new : receipts' = [receipts EXCEPT ![t][work[t]] = Append(@, new)]
    BY <2>1 DEF Answers
  <2>3. /\ at[t] \in Pulling /\ work[t] \in Batch /\ UNCHANGED <<batches, inbox>>
        /\ at'[t] = "recv" /\ at' = [at EXCEPT ![t] = "recv"]
        /\ work' = [work EXCEPT ![t] = NoBatch]
    BY <2>1 DEF Answers, Moves, BatchInv, BatchTypeOK, Pulled, Pulling
  <2>4. \A s \in Arm : /\ at'[s] \in Pulling => at[s] \in Pulling
                       /\ at'[s] \in Pulling => s # t /\ work'[s] = work[s]
    BY <2>3 DEF BatchInv, BatchTypeOK, Pulling
  <2>5. InOrder' /\ \A s \in Arm, b \in Batch : Behind(s, b) => Behind(s, b)'
    BY <2>3 DEF OrderInv, InOrder, Behind
  <2>6. \A s \in Arm, b \in Batch :
          receipts'[s][b] = IF s = t /\ b = work[t] THEN Append(receipts[s][b], new)
                                                    ELSE receipts[s][b]
    BY <2>2, <2>3 DEF BatchInv, BatchTypeOK
  <2>7. \A s \in Arm : Answered(s) \subseteq Batch /\ Answered(s)' \subseteq Batch
                       /\ \A b \in Answered(s)' : b \in Answered(s) \/ (s = t /\ b = work[t])
    BY <2>6 DEF Answered
  <2>8. \A s \in Arm : at'[s] \in Pulling => Behind(s, work[s])'
    BY <2>4, <2>5 DEF OrderInv, Fresh, BatchInv, Pulled
  <2>9. Fresh'
    <3>1. Behind(t, work[t])
      BY <2>3 DEF OrderInv, Fresh
    <3>2. \A s \in Arm : \A b \in Answered(s)' : Behind(s, b)
      BY <2>7, <3>1 DEF OrderInv, Fresh
    <3>3. \A s \in Arm : \A b \in Answered(s)' : Behind(s, b)'
      BY <2>5, <2>7, <3>2
    <3>4. \A s \in Arm : \A b \in Answered(s)' : at'[s] \in Pulling => b < work'[s]
      BY <2>4, <2>7 DEF OrderInv, Fresh
    <3> QED
      BY <2>8, <3>3, <3>4 DEF Fresh
  <2>10. AnsweredOnce'
    <3>1. receipts[t][work[t]] = <<>>
      <4>1. ~(work[t] < work[t])
        BY <2>3 DEF Batch
      <4>2. work[t] \notin Answered(t)
        BY <2>3, <4>1 DEF OrderInv, Fresh
      <4> QED
        BY <2>3, <4>2 DEF Answered
    <3>2. Len(Append(receipts[t][work[t]], new)) = 1
      BY <3>1
    <3>3. ASSUME NEW s \in Arm, NEW b \in Batch PROVE Len(receipts'[s][b]) <= 1
      <4>1. CASE s = t /\ b = work[t]
        <5>1. receipts'[s][b] = Append(receipts[t][work[t]], new)
          BY <2>6, <4>1
        <5> QED
          BY <3>2, <5>1
      <4>2. CASE ~(s = t /\ b = work[t])
        BY <2>6, <4>2 DEF OrderInv, AnsweredOnce
      <4> QED
        BY <4>1, <4>2
    <3> QED
      BY <3>3 DEF AnsweredOnce
  <2> QED
    BY <2>5, <2>9, <2>10 DEF OrderInv
<1>3. CASE Announces \/ Cancels
  <2>1. /\ batches \in Nat /\ UNCHANGED <<at, work, receipts>>
        /\ \A t \in Arm : inbox[t] \in Seq(Msg) /\ Rising(inbox[t]) /\ Upto(inbox[t], batches)
    BY <1>3 DEF Announces, Cancels, BatchInv, BatchTypeOK, Msg, OrderInv, InOrder
  <2>2. PICK msg \in Msg : /\ Sends(msg) /\ batches' \in Nat /\ batches <= batches'
                           /\ msg <= batches' /\ (msg \in Batch => batches < msg)
    <3>1. CASE batches < MaxBatch /\ batches' = batches + 1 /\ Sends(batches + 1)
      <4>1. batches + 1 \in Msg
        BY <2>1, <3>1, BatchAssumption DEF Msg, Batch
      <4> QED
        BY <2>1, <3>1, <4>1
    <3>2. CASE UNCHANGED batches /\ Sends(CancelMsg)
      <4>1. CancelMsg \in Msg /\ CancelMsg \notin Batch /\ CancelMsg <= batches
        BY <2>1 DEF Msg, CancelMsg, Batch
      <4> QED
        BY <2>1, <3>2, <4>1
    <3> QED
      BY <1>3, <3>1, <3>2 DEF Announces, Cancels
  <2>3. \A t \in Arm : inbox'[t] = inbox[t] \/ inbox'[t] = Kept(inbox[t], msg)
    BY <2>2 DEF Sends
  <2>4. \A t \in Arm : /\ Rising(inbox'[t]) /\ Upto(inbox'[t], batches')
                       /\ \A b \in Batch : b <= batches /\ Later(inbox[t], b) => Later(inbox'[t], b)
    <3> SUFFICES ASSUME NEW t \in Arm
                 PROVE  /\ Rising(inbox'[t]) /\ Upto(inbox'[t], batches')
                        /\ \A b \in Batch :
                             b <= batches /\ Later(inbox[t], b) => Later(inbox'[t], b)
      OBVIOUS
    <3>1. CASE inbox'[t] = inbox[t]
      <4>1. \A i \in 1 .. Len(inbox[t]) : inbox[t][i] \in Nat /\ inbox[t][i] <= batches
        BY <2>1 DEF Upto, Msg, Batch, CancelMsg
      <4> QED
        BY <2>1, <2>2, <3>1, <4>1 DEF Upto
    <3>2. CASE inbox'[t] = Kept(inbox[t], msg)
      BY <2>1, <2>2, <3>2, KeptInOrder
    <3> QED
      BY <2>3, <3>1, <3>2
  <2>5. InOrder'
    BY <2>4 DEF InOrder
  <2>6. \A t \in Arm, b \in Batch : Behind(t, b) => Behind(t, b)'
    BY <2>1, <2>2, <2>4 DEF Behind, Batch
  <2>7. \A t \in Arm : Answered(t)' = Answered(t) /\ Answered(t) \subseteq Batch
    BY <2>1 DEF Answered
  <2>8. Fresh'
    BY <2>1, <2>6, <2>7 DEF OrderInv, Fresh, BatchInv, Pulled
  <2> QED
    BY <2>1, <2>5, <2>8 DEF OrderInv, AnsweredOnce
<1>4. CASE \/ \E t \in Arm : Arms(t) \/ Reads(t) \/ RecvEnds(t) \/ Registers(t) \/ Stops(t)
                              \/ Writes(t)
           \/ SessionEnds
  <2>1. UNCHANGED <<batches, inbox, work, receipts>>
    BY <1>4 DEF Arms, Reads, RecvEnds, Registers, Stops, Writes, SessionEnds, batchFrame
  <2>2. \A t \in Arm : at'[t] \in Pulling => at[t] \in Pulling
    BY <1>4
       DEF Arms, Reads, RecvEnds, Registers, Stops, Writes, SessionEnds, Moves, BatchInv,
           BatchTypeOK, Pulling
  <2> QED
    BY <2>1, <2>2, QuietKeepsOrder
<1>5. CASE \/ \E u \in Upload : Uploads(u) \/ Expires(u)
           \/ UserSets \/ CloudStarts \/ CloudStops \/ Pass
  <2>1. UNCHANGED <<batches, inbox, work, receipts, at>>
    BY <1>5
       DEF Uploads, Expires, UserSets, CloudStarts, CloudStops, Pass, Wakes, Queries, TakesNext, Inits,
           Fetches, Streams, StreamBreaks, Renames, Completes, cloudFrame, batchVars
  <2> QED
    BY <2>1, QuietKeepsOrder
<1> QED
  BY <1>1, <1>2, <1>3, <1>4, <1>5 DEF ReceiversNext, Pull

-----------------------------------------------------------------------------
(***************************************************************************)
(* Receivers: uploads at the relay                                         *)
(***************************************************************************)

\* A poller in the midst of an upload knows it, and has a file of it to fetch.
Tasked ==
  /\ cloud \in {"init", "file", "body", "rename", "complete"} => task \in Upload
  /\ cloud \in {"file", "body", "rename"} => list # {}

\* What the relay marked is there, or is about to be renamed; what is there of the
\* upload being received and what is still on the list is all of it.
Had == final \cup slipped
Marked == IF cloud = "rename" THEN {Current} ELSE {}
Accounted ==
  /\ marked \subseteq Had \cup Marked
  /\ cloud \in {"file", "body", "rename"} => Files(task) \subseteq Had \cup ({task} \X list)
  /\ cloud = "complete" => Files(task) \subseteq Had

CloudInv == CloudTypeOK /\ Tasked /\ Accounted /\ NothingForgotten

\* What this pass still has to receive waits, and so does what it receives.
Waiting ==
  /\ \A u \in queue : record[u] = "pending"
  /\ cloud \in {"init", "file", "body", "rename", "complete"} =>
       record[task] = "pending" /\ task \notin queue

RelayStep == Relay!Next \/ UNCHANGED Relay!vars

\* The file that is fetched is one of the upload's.
LEMMA CurrentTyped ==
  ASSUME CloudTypeOK, Tasked, cloud \in {"body", "rename"}
  PROVE  task \in Upload /\ Min(list) \in File /\ Current \in Upload \X File
<1>1. task \in Upload /\ list # {} /\ list \subseteq File /\ list \subseteq Nat
  BY DEF CloudTypeOK, Tasked, File
<1> QED
  BY <1>1, MinIsIn DEF Current

\* What is lost of a file that the relay marked, the history has.
LEMMA DropsCounted ==
  ASSUME CloudTypeOK, Tasked, Accounted, cloud \in {"body", "rename"}, Drops
  PROVE  /\ {marked', final', slipped'} \subseteq SUBSET (Upload \X File)
         /\ Had \subseteq Had' /\ marked' \subseteq Had'
<1>1. Current \in Upload \X File
  BY CurrentTyped
<1>2. /\ marked' \subseteq marked \cup {Current} /\ final' = final
      /\ slipped' = slipped \cup ({Current} \cap marked')
  BY DEF Drops
<1>3. marked \subseteq Had \cup {Current}
  BY DEF Accounted, Marked
<1> QED
  BY <1>1, <1>2, <1>3 DEF CloudTypeOK, Had

\* A file that got its name is one more that is there.
LEMMA KeepsCounted ==
  ASSUME CloudTypeOK, Tasked, Accounted, cloud = "rename", Keeps
  PROVE  /\ {marked', final', slipped'} \subseteq SUBSET (Upload \X File)
         /\ Had' = Had \cup {Current} /\ marked' \subseteq Had'
<1>1. Current \in Upload \X File
  BY CurrentTyped
<1>2. marked' = marked /\ final' = final \cup {Current} /\ slipped' = slipped
  BY DEF Keeps
<1>3. marked \subseteq Had \cup {Current}
  BY DEF Accounted, Marked
<1> QED
  BY <1>1, <1>2, <1>3 DEF CloudTypeOK, Had

\* The relay forgets, or does not, the upload whose files are all there.
LEMMA ForgetKeeps ==
  ASSUME CloudInv, Had \subseteq Had',
         \/ UNCHANGED record
         \/ cloud = "complete" /\ \E r \in {"pending", "complete"} :
              record' = [record EXCEPT ![task] = r]
  PROVE  record' \in [Upload -> {"none", "pending", "complete"}] /\ NothingForgotten'
<1> USE DEF CloudInv
<1>1. CASE UNCHANGED record
  BY <1>1 DEF CloudTypeOK, NothingForgotten, Had
<1>2. CASE cloud = "complete" /\ \E r \in {"pending", "complete"} :
             record' = [record EXCEPT ![task] = r]
  <2>1. task \in Upload /\ Files(task) \subseteq Had
    BY <1>2 DEF Tasked, Accounted
  <2>2. PICK r \in {"pending", "complete"} : record' = [record EXCEPT ![task] = r]
    BY <1>2
  <2>3. record' \in [Upload -> {"none", "pending", "complete"}]
    BY <2>2 DEF CloudTypeOK
  <2>4. \A u \in Upload : record'[u] = "complete" => u = task \/ record[u] = "complete"
    BY <2>1, <2>2 DEF CloudTypeOK
  <2>5. \A u \in Upload : record'[u] = "complete" => Files(u) \subseteq Had
    BY <2>1, <2>4 DEF NothingForgotten, Had
  <2> QED
    BY <2>3, <2>5 DEF NothingForgotten, Had
<1> QED
  BY <1>1, <1>2

\* An abort loses track of one file at most, and the history knows which.
LEMMA AbortKeeps ==
  ASSUME CloudInv, Aborted, cloud' \in {"off", "query"}
  PROVE  /\ record' \in [Upload -> {"none", "pending", "complete"}]
         /\ {marked', final', slipped'} \subseteq SUBSET (Upload \X File)
         /\ queue' = {} /\ task' = NoUpload /\ list' = {}
         /\ Tasked' /\ Accounted' /\ NothingForgotten'
<1> USE DEF CloudInv
<1>1. /\ {marked', final', slipped'} \subseteq SUBSET (Upload \X File)
      /\ Had \subseteq Had' /\ marked' \subseteq Had'
  <2>1. CASE cloud = "rename" /\ Keeps
    BY <2>1, KeepsCounted
  <2>2. CASE cloud \in {"body", "rename"} /\ Drops
    BY <2>2, DropsCounted
  <2>3. CASE cloud \notin {"body", "rename"} /\ UNCHANGED <<marked, final, slipped>>
    BY <2>3 DEF CloudTypeOK, Accounted, Marked, Had
  <2> QED
    BY <2>1, <2>2, <2>3 DEF Aborted
<1>2. \/ UNCHANGED record
      \/ cloud = "complete" /\ \E r \in {"pending", "complete"} :
           record' = [record EXCEPT ![task] = r]
  BY DEF Aborted
<1>3. queue' = {} /\ task' = NoUpload /\ list' = {}
  BY DEF Aborted
<1>4. Tasked' /\ Accounted'
  BY <1>1 DEF Tasked, Accounted
<1> QED
  BY <1>1, <1>2, <1>3, <1>4, ForgetKeeps

\* A call that fails.
LEMMA FaultyTyped == ASSUME CloudTypeOK, Faulty PROVE faults' \in 0 .. MaxFault
BY FaultAssumption DEF Faulty, CloudTypeOK

\* A step keeps the poller's invariant.
LEMMA StepCloud ==
  ASSUME CloudInv, ReceiversNext
  PROVE  CloudInv'
<1> USE DEF CloudInv
<1> USE FaultyTyped
<1>1. CASE \E u \in Upload : Uploads(u)
  <2>1. PICK u \in Upload : Uploads(u)
    BY <1>1
  <2>2. record' \in [Upload -> {"none", "pending", "complete"}]
        /\ \A v \in Upload : record'[v] = "complete" => record[v] = "complete"
    BY <2>1 DEF Uploads, CloudTypeOK
  <2>3. UNCHANGED <<marked, expired, mode, account, cloud, queue, task, list, final, slipped,
                    cloudStarts, faults>>
    BY <2>1 DEF Uploads
  <2> QED
    BY <2>2, <2>3 DEF CloudTypeOK, Tasked, Accounted, Had, Marked, NothingForgotten, Files, Current
<1>2. CASE UserSets \/ \E u \in Upload : Expires(u)
  <2>1. /\ mode' \in BOOLEAN /\ account' \in BOOLEAN /\ expired' \subseteq Upload
        /\ UNCHANGED <<record, marked, cloud, queue, task, list, final, slipped, cloudStarts,
                       faults>>
    BY <1>2 DEF UserSets, Expires, CloudTypeOK
  <2> QED
    BY <2>1 DEF CloudTypeOK, Tasked, Accounted, Had, Marked, NothingForgotten, Current
<1>3. CASE CloudStarts
  <2>1. cloudStarts' \in 0 .. MaxCloudStart
    BY <1>3, CloudStartAssumption DEF CloudStarts, CloudTypeOK
  <2> QED
    BY <1>3, <2>1, AbortKeeps DEF CloudStarts, CloudTypeOK
<1>4. CASE CloudStops
  BY <1>4, AbortKeeps DEF CloudStops, CloudTypeOK
<1>5. CASE Wakes
  BY <1>5 DEF Wakes, cloudFrame, CloudTypeOK, Tasked, Accounted, Had, Marked, NothingForgotten
<1>6. CASE Queries
  BY <1>6 DEF Queries, cloudFrame, CloudTypeOK, Tasked, Accounted, Had, Marked, NothingForgotten
<1>7. CASE TakesNext
  BY <1>7 DEF TakesNext, cloudFrame, CloudTypeOK, Tasked, Accounted, Had, Marked, NothingForgotten
<1>8. CASE Inits
  <2> DEFINE rest == {f \in File : <<task, f>> \notin marked}
  <2>1. task \in Upload /\ marked \subseteq Had
    BY <1>8 DEF Inits, Tasked, Accounted, Marked
  <2>2. Files(task) \subseteq Had \cup ({task} \X rest)
    BY <2>1 DEF Files
  <2> QED
    BY <1>8, <2>1, <2>2
       DEF Inits, cloudFrame, CloudTypeOK, Tasked, Accounted, Had, Marked, NothingForgotten
<1>9. CASE Fetches
  BY <1>9 DEF Fetches, cloudFrame, CloudTypeOK, Tasked, Accounted, Had, Marked, NothingForgotten
<1>10. CASE Streams
  <2>1. Current \in Upload \X File /\ task \in Upload
    BY <1>10, CurrentTyped DEF Streams
  <2>2. marked' \subseteq marked \cup {Current} /\ Current' = Current
    BY <1>10 DEF Streams, Current
  <2>3. marked \subseteq Had /\ Files(task) \subseteq Had \cup ({task} \X list)
    BY <1>10 DEF Streams, Accounted, Marked
  <2>4. Accounted'
    BY <1>10, <2>2, <2>3 DEF Streams, Accounted, Had, Marked
  <2> QED
    BY <1>10, <2>1, <2>2, <2>4
       DEF Streams, cloudFrame, CloudTypeOK, Tasked, NothingForgotten
<1>11. CASE StreamBreaks
  <2>1. /\ {marked', final', slipped'} \subseteq SUBSET (Upload \X File)
        /\ Had \subseteq Had' /\ marked' \subseteq Had'
    BY <1>11, DropsCounted DEF StreamBreaks
  <2>2. Tasked' /\ Accounted'
    BY <1>11, <2>1 DEF StreamBreaks, Tasked, Accounted
  <2>3. NothingForgotten'
    BY <1>11, <2>1, ForgetKeeps DEF StreamBreaks
  <2> QED
    BY <1>11, <2>1, <2>2, <2>3 DEF StreamBreaks, cloudFrame, CloudTypeOK
<1>12. CASE Renames
  <2>1. task \in Upload /\ Current = <<task, Min(list)>> /\ UNCHANGED <<task, record>>
    BY <1>12 DEF Renames, Tasked, Current
  <2>2. CASE Faulty /\ Drops /\ cloud' = "next" /\ list' = {}
    <3>1. /\ {marked', final', slipped'} \subseteq SUBSET (Upload \X File)
          /\ Had \subseteq Had' /\ marked' \subseteq Had'
      BY <1>12, <2>2, DropsCounted DEF Renames
    <3>2. Tasked' /\ Accounted' /\ NothingForgotten'
      BY <2>1, <2>2, <3>1, ForgetKeeps DEF Tasked, Accounted
    <3> QED
      BY <1>12, <2>2, <3>1, <3>2 DEF Renames, cloudFrame, CloudTypeOK
  <2>3. CASE /\ Keeps /\ list' = list \ {Min(list)}
             /\ cloud' = IF list' = {} THEN "complete" ELSE "file"
             /\ UNCHANGED faults
    <3>1. /\ {marked', final', slipped'} \subseteq SUBSET (Upload \X File)
          /\ Had' = Had \cup {Current} /\ marked' \subseteq Had'
      BY <1>12, <2>3, KeepsCounted DEF Renames
    <3>2. Files(task) \subseteq Had \cup ({task} \X list)
      BY <1>12 DEF Renames, Accounted
    <3>3. Files(task)' \subseteq Had' \cup ({task'} \X list')
      BY <2>1, <2>3, <3>1, <3>2 DEF Files
    <3>4. Accounted'
      BY <2>3, <3>1, <3>3 DEF Accounted, Files
    <3>5. Tasked' /\ NothingForgotten'
      BY <2>1, <2>3, <3>1, ForgetKeeps DEF Tasked
    <3> QED
      BY <1>12, <2>3, <3>1, <3>4, <3>5 DEF Renames, cloudFrame, CloudTypeOK
  <2> QED
    BY <1>12, <2>2, <2>3 DEF Renames
<1>13. CASE Completes
  <2>1. task \in Upload /\ Files(task) \subseteq Had /\ marked \subseteq Had
    BY <1>13 DEF Completes, Tasked, Accounted, Marked
  <2>2. /\ cloud = "complete" /\ Had' = Had
        /\ \E r \in {"pending", "complete"} : record' = [record EXCEPT ![task] = r]
    BY <1>13 DEF Completes, Had
  <2>3. record' \in [Upload -> {"none", "pending", "complete"}] /\ NothingForgotten'
    BY <2>2, ForgetKeeps
  <2> QED
    BY <1>13, <2>1, <2>3
       DEF Completes, cloudFrame, CloudTypeOK, Tasked, Accounted, Had, Marked
<1>14. CASE \/ \E t \in Arm : Arms(t) \/ Reads(t) \/ Pull(t)
            \/ Announces \/ Cancels \/ SessionEnds
  <2>1. UNCHANGED cloudVars
    BY <1>14
       DEF Arms, Reads, Pull, Receives, RecvEnds, Registers, Stops, Writes, Answers,
           Announces, Cancels, SessionEnds, batchFrame
  <2> QED
    BY <2>1 DEF cloudVars, CloudTypeOK, Tasked, Accounted, Had, Marked, NothingForgotten, Current
<1> QED
  BY <1>1, <1>2, <1>3, <1>4, <1>5, <1>6, <1>7, <1>8, <1>9, <1>10, <1>11, <1>12, <1>13, <1>14
     DEF ReceiversNext, Pass

\* A file under its final name, or lost, of the upload that is received.
LEMMA OneMore ==
  ASSUME CloudInv, Waiting, cloud \in {"body", "rename"}, UNCHANGED record, Keeps \/ Drops
  PROVE  RelayStep
<1>1. task \in Upload /\ record[task] = "pending" /\ Min(list) \in File
  BY CurrentTyped DEF CloudInv, Waiting
<1>2. CASE final' = final \cup {Current} /\ UNCHANGED slipped
  <2>1. Relay!Deliver(task, Min(list))
    BY <1>1, <1>2 DEF Relay!Deliver, Current
  <2> QED
    BY <1>1, <2>1 DEF RelayStep, Relay!Next
<1>3. CASE slipped' = slipped \cup {Current} /\ UNCHANGED final
  <2>1. Relay!Lose(task, Min(list))
    BY <1>1, <1>3 DEF Relay!Lose, Current
  <2> QED
    BY <1>1, <2>1 DEF RelayStep, Relay!Next
<1>4. CASE UNCHANGED <<final, slipped>>
  BY <1>4 DEF RelayStep, Relay!vars
<1>5. \/ final' = final \cup {Current} /\ UNCHANGED slipped
      \/ slipped' = slipped \cup {Current} /\ UNCHANGED final
      \/ UNCHANGED <<final, slipped>>
  <2>1. CASE Keeps
    BY <2>1 DEF Keeps
  <2>2. CASE Drops
    <3>1. {Current} \cap marked' = {Current} \/ {Current} \cap marked' = {}
      OBVIOUS
    <3> QED
      BY <2>2, <3>1 DEF Drops
  <2> QED
    BY <2>1, <2>2
<1> QED
  BY <1>2, <1>3, <1>4, <1>5

\* An upload that the relay is told to forget has arrived and waited.
LEMMA MayForget ==
  ASSUME CloudInv, Waiting, cloud = "complete", UNCHANGED <<final, slipped>>,
         \/ UNCHANGED record
         \/ \E r \in {"pending", "complete"} : record' = [record EXCEPT ![task] = r]
  PROVE  RelayStep
<1>1. task \in Upload /\ record[task] = "pending" /\ Files(task) \subseteq Had
  BY DEF CloudInv, Tasked, Waiting, Accounted
<1>2. CASE record' = [record EXCEPT ![task] = "complete"]
  <2>1. Relay!Forget(task)
    BY <1>1, <1>2 DEF Relay!Forget, Files, Had
  <2> QED
    BY <1>1, <2>1 DEF RelayStep, Relay!Next
<1>3. CASE UNCHANGED record \/ record' = [record EXCEPT ![task] = "pending"]
  <2>1. UNCHANGED record
    BY <1>1, <1>3 DEF CloudInv, CloudTypeOK
  <2> QED
    BY <2>1 DEF RelayStep, Relay!vars
<1> QED
  BY <1>2, <1>3

\* A step of the receivers is one of the mailbox, or none.
LEMMA StepRelay ==
  ASSUME CloudInv, Waiting, ReceiversNext
  PROVE  RelayStep /\ Waiting'
<1>1. CASE \E u \in Upload : Uploads(u)
  <2>1. PICK u \in Upload : Uploads(u)
    BY <1>1
  <2>2. Relay!Next
    BY <2>1 DEF Uploads, Relay!Next, Relay!Post
  <2>3. \A v \in queue : v \in Upload
    BY DEF CloudInv, CloudTypeOK
  <2>4. \A v \in Upload : record[v] = "pending" => record'[v] = "pending"
    BY <2>1 DEF Uploads, CloudInv, CloudTypeOK
  <2>5. UNCHANGED <<queue, cloud, task>>
    BY <2>1 DEF Uploads
  <2> QED
    BY <2>2, <2>3, <2>4, <2>5 DEF RelayStep, Waiting, CloudInv, Tasked
<1>2. CASE CloudStarts \/ CloudStops
  <2>1. Aborted /\ cloud' \in {"off", "query"}
    BY <1>2 DEF CloudStarts, CloudStops
  <2>2. Waiting'
    BY <2>1 DEF Aborted, Waiting
  <2>3. CASE cloud \in {"body", "rename"}
    BY <2>1, <2>2, <2>3, OneMore DEF Aborted
  <2>4. CASE cloud = "complete"
    BY <2>1, <2>2, <2>4, MayForget DEF Aborted
  <2>5. CASE cloud \notin {"body", "rename", "complete"}
    BY <2>1, <2>2, <2>5 DEF Aborted, RelayStep, Relay!vars
  <2> QED
    BY <2>3, <2>4, <2>5
<1>3. CASE Queries
  BY <1>3 DEF Queries, Waiting, RelayStep, Relay!vars
<1>4. CASE TakesNext
  BY <1>4 DEF TakesNext, Waiting, RelayStep, Relay!vars
<1>5. CASE Renames \/ StreamBreaks
  <2>1. RelayStep
    BY <1>5, OneMore DEF Renames, StreamBreaks
  <2> QED
    BY <1>5, <2>1 DEF Renames, StreamBreaks, Waiting
<1>6. CASE Completes
  <2>1. /\ cloud = "complete" /\ cloud' = "next" /\ UNCHANGED <<queue, final, slipped>>
        /\ \E r \in {"pending", "complete"} : record' = [record EXCEPT ![task] = r]
    BY <1>6 DEF Completes
  <2>2. task \in Upload /\ task \notin queue
    BY <2>1 DEF CloudInv, Tasked, Waiting
  <2>3. \A u \in queue : record'[u] = record[u]
    BY <2>1, <2>2 DEF CloudInv, CloudTypeOK
  <2>4. Waiting'
    BY <2>1, <2>3 DEF Waiting
  <2> QED
    BY <2>1, <2>4, MayForget
<1>7. CASE \/ Inits \/ Fetches \/ Streams \/ Wakes \/ UserSets
           \/ \E u \in Upload : Expires(u)
  <2>1. UNCHANGED <<record, queue, task, final, slipped>>
    BY <1>7 DEF Inits, Fetches, Streams, Wakes, UserSets, Expires, cloudFrame
  <2> QED
    BY <1>7, <2>1
       DEF Inits, Fetches, Streams, Wakes, UserSets, Expires, Waiting, RelayStep, Relay!vars
<1>8. CASE \/ \E t \in Arm : Arms(t) \/ Reads(t) \/ Pull(t)
           \/ Announces \/ Cancels \/ SessionEnds
  <2>1. UNCHANGED cloudVars
    BY <1>8
       DEF Arms, Reads, Pull, Receives, RecvEnds, Registers, Stops, Writes, Answers,
           Announces, Cancels, SessionEnds, batchFrame
  <2> QED
    BY <2>1 DEF cloudVars, Waiting, RelayStep, Relay!vars
<1> QED
  BY <1>1, <1>2, <1>3, <1>4, <1>5, <1>6, <1>7, <1>8 DEF ReceiversNext, Pass

-----------------------------------------------------------------------------
(* What holds throughout *)

ReceiversInv == BatchInv /\ OrderInv /\ CloudInv /\ Waiting

\* The inductive invariant of both receivers: the rings hold the batches in their
\* order and a task has answered for none that is ahead of it (filetrans_feature);
\* what the relay marked is there, what is being received is on the list or there,
\* and it waits at the relay (receive_task).
THEOREM ReceiversInvariance == ReceiversSpec => []ReceiversInv
<1>1. ReceiversInit => ReceiversInv
  <2> SUFFICES ASSUME ReceiversInit PROVE ReceiversInv
    OBVIOUS
  <2>1. BatchTypeOK
    <3>1. batches \in 0 .. MaxBatch /\ 0 \in 0 .. ReplyEnd
      BY BatchAssumption, FileAssumption DEF ReceiversInit, ReplyEnd
    <3>2. inbox \in [Arm -> Seq(Msg)] /\ \A t \in Arm : Len(inbox[t]) <= Ring
      BY RingAssumption DEF ReceiversInit
    <3> QED
      BY <3>1, <3>2 DEF ReceiversInit, BatchTypeOK, Msg
  <2>2. Pulled
    BY DEF ReceiversInit, Pulled, Pulling
  <2>3. OrderInv
    <3>1. \A t \in Arm : inbox[t] = <<>> /\ at[t] = "none"
      BY DEF ReceiversInit
    <3>2. InOrder
      BY <3>1 DEF InOrder, Rising, Upto
    <3>3. Fresh /\ AnsweredOnce
      BY <3>1 DEF ReceiversInit, Fresh, Answered, AnsweredOnce, Pulling
    <3> QED
      BY <3>2, <3>3 DEF OrderInv
  <2>4. CloudTypeOK
    <3>1. cloudStarts \in 0 .. MaxCloudStart /\ faults \in 0 .. MaxFault
      BY CloudStartAssumption, FaultAssumption DEF ReceiversInit
    <3>2. record \in [Upload -> {"none", "pending", "complete"}]
      BY DEF ReceiversInit
    <3> QED
      BY <3>1, <3>2 DEF ReceiversInit, CloudTypeOK
  <2>5. Tasked /\ Accounted /\ Waiting
    BY DEF ReceiversInit, Tasked, Accounted, Waiting
  <2>6. NothingForgotten
    BY DEF ReceiversInit, NothingForgotten
  <2> QED
    BY <2>1, <2>2, <2>3, <2>4, <2>5, <2>6 DEF ReceiversInv, BatchInv, CloudInv
<1>2. ReceiversInv /\ [ReceiversNext]_receiversVars => ReceiversInv'
  <2>1. ReceiversInv /\ UNCHANGED receiversVars => ReceiversInv'
    <3> SUFFICES ASSUME ReceiversInv, UNCHANGED receiversVars PROVE ReceiversInv'
      OBVIOUS
    <3>1. UNCHANGED <<batchVars, cloudVars>>
      BY DEF receiversVars
    <3>2. BatchInv' /\ OrderInv'
      BY <3>1 DEF receiversVars, batchVars, ReceiversInv, BatchInv, BatchTypeOK, Pulled, OrderInv,
                  InOrder, Fresh, Behind, Answered, AnsweredOnce
    <3>3. CloudInv' /\ Waiting'
      BY <3>1 DEF cloudVars, ReceiversInv, CloudInv, CloudTypeOK, Tasked, Accounted, Had, Marked,
                  Current, NothingForgotten, Waiting
    <3> QED
      BY <3>2, <3>3 DEF ReceiversInv
  <2> QED
    BY <2>1, StepBatch, StepOrder, StepCloud, StepRelay DEF ReceiversInv
<1> QED
  BY <1>1, <1>2, PTL DEF ReceiversSpec

\* Type correctness; a ring holds Ring messages at most, and a receipt counts no more
\* files than a batch has.
THEOREM ReceiversTypeCorrect == ReceiversSpec => []ReceiversTypeOK
<1>1. ReceiversInv => ReceiversTypeOK
  BY DEF ReceiversInv, BatchInv, CloudInv, ReceiversTypeOK
<1> QED
  BY <1>1, ReceiversInvariance, PTL

\* filetrans_feature gives a batch one verdict, for any number of receivers that are
\* armed and of batches and cancels, however far the ring overflows.
THEOREM OneVerdict == ReceiversSpec => []AnsweredOnce
<1>1. ReceiversInv => AnsweredOnce
  BY DEF ReceiversInv, OrderInv
<1> QED
  BY <1>1, ReceiversInvariance, PTL

\* receive_task tells the relay to forget an upload only when each of its files got
\* its name, in this attempt or an earlier one, or was lost on the way to it: for
\* any number of uploads, files, starts and failures.
THEOREM UnsavedIsKept == ReceiversSpec => []NothingForgotten
<1>1. ReceiversInv => NothingForgotten
  BY DEF ReceiversInv, CloudInv
<1> QED
  BY <1>1, ReceiversInvariance, PTL

\* The poller and the relay implement the mailbox: each step of theirs posts,
\* delivers, loses or forgets what a mailbox may, or is none of its steps.
THEOREM RelayIsAMailbox == ReceiversSpec => MailboxSpec
<1>1. ReceiversInit => Relay!Init
  BY DEF ReceiversInit, Relay!Init
<1>2. ReceiversInv /\ [ReceiversNext]_receiversVars => [Relay!Next]_Relay!vars
  <2> SUFFICES ASSUME ReceiversInv, [ReceiversNext]_receiversVars
               PROVE  Relay!Next \/ UNCHANGED Relay!vars
    OBVIOUS
  <2>1. CASE ReceiversNext
    BY <2>1, StepRelay DEF ReceiversInv, RelayStep
  <2>2. CASE UNCHANGED receiversVars
    BY <2>2 DEF receiversVars, cloudVars, Relay!vars
  <2> QED
    BY <2>1, <2>2
<1> QED
  BY <1>1, <1>2, ReceiversInvariance, PTL DEF ReceiversSpec, MailboxSpec, Relay!Spec
=============================================================================
