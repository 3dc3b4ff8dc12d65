------------------------------ MODULE Pollers ------------------------------
(***************************************************************************)
(* The event queues of the FFI (pcsuite-ffi/src/lib.rs).  A source (the    *)
(* EasyShare listener, the cloud-transfer poller, a feature of a session)  *)
(* sends into an unbounded channel; a thread of the app blocks in          *)
(* next_...(), which takes the receiver out of its slot, waits in slices   *)
(* of 300ms with the stop flag read before each, and puts the receiver     *)
(* back.  Starting and stopping run on another thread and touch the same   *)
(* three pieces one after the other: source, flag, slot.                   *)
(***************************************************************************)
EXTENDS Naturals, Sequences

CONSTANTS
  MaxStart,  \* starts of the source
  MaxEvent   \* events of all sources together

ASSUME StartAssumption == MaxStart \in Nat
ASSUME EventAssumption == MaxEvent \in Nat

Inc == 1 .. MaxStart    \* the incarnations of the source, and their channels
Event == 1 .. MaxEvent
None == 0               \* no channel; also the "" that is no event

VARIABLES
  kind,    \* which of the sources this is: "share", "cloud" or "feature"
  todo,    \* the steps that the app's start or stop call has yet to make
  starts,  \* starts so far: the newest incarnation
  slot,    \* the incarnation that the slot of the source owns
  source,  \* per incarnation: "none", "run", "tail" (told to go) or "gone"
  chan,    \* per incarnation, the events in its channel
  sent,    \* events sent so far
  stop,    \* the stop flag
  parked,  \* the channel whose receiver is in the slot
  pc,      \* the poll thread: "out", "check", "recv" or "back"
  held,    \* the channel whose receiver the poll thread has taken
  msg,     \* what its call is going to return
  loop,    \* the app's poll loop is running
  last,    \* history: the incarnation that runs or ran last
  told,    \* history: the app has asked that one to stop
  handed,  \* history: what the calls have received, None for ""
  crossed  \* history: a start met a call of the poll thread: "now" (this start),
           \* "before" (an earlier one, and this one is not through) or "no"

appVars == <<todo, starts>>
sourceVars == <<slot, source, last, told>>
pollVars == <<pc, held, msg, loop, handed>>
vars == <<kind, appVars, sourceVars, chan, sent, stop, parked, pollVars, crossed>>

Init ==
  /\ kind \in {"share", "cloud", "feature"}
  /\ todo = <<>>
  /\ starts = 0
  /\ slot = None
  /\ source = [i \in Inc |-> "none"]
  /\ chan = [i \in Inc |-> <<>>]
  /\ sent = 0
  /\ stop = FALSE
  /\ parked = None
  /\ pc = "out"
  /\ held = None
  /\ msg = None
  /\ loop = FALSE
  /\ last = None
  /\ told = FALSE
  /\ handed = <<>>
  /\ crossed = "no"

-----------------------------------------------------------------------------
(* The app's start and stop calls, one step at a time *)

\* Mutant: the old receiver stays, as if one were enough for all sources.
StartPlanNoPark ==
  [share   |-> <<"drop", "spawn", "clear", "return">>,
   cloud   |-> <<"drop", "clear", "spawn", "return">>,
   feature |-> <<"clear", "spawn", "return">>]

\* share_recv_start binds (and so runs) before it clears the flag;
\* cloud_recv_start and the enable_...() of a session spawn last, and a session
\* has no handle of its own to drop: the old task goes on for the session's life.
StartPlan ==
  [share   |-> <<"drop", "spawn", "clear", "park", "return">>,
   cloud   |-> <<"drop", "clear", "park", "spawn", "return">>,
   feature |-> <<"clear", "park", "spawn", "return">>]

\* stop_verify and its like only set the flag.
StopPlan ==
  [share   |-> <<"flag", "drop">>,
   cloud   |-> <<"flag", "drop">>,
   feature |-> <<"flag">>]

\* A start whose receiver is not in the slot yet.
Starting == \E i \in 1 .. Len(todo) : todo[i] = "park"

\* A start call, whatever the poll thread is at.
Starts ==
  /\ todo = <<>>
  /\ starts < MaxStart
  /\ starts' = starts + 1
  /\ todo' = StartPlan[kind]
  /\ crossed' = IF pc # "out" THEN "now" ELSE IF crossed = "now" THEN "before" ELSE crossed
  /\ UNCHANGED <<kind, sourceVars, chan, sent, stop, parked, pollVars>>

Stops ==
  /\ todo = <<>>
  /\ starts > 0
  /\ ~stop
  /\ todo' = StopPlan[kind]
  /\ UNCHANGED <<kind, starts, sourceVars, chan, sent, stop, parked, pollVars, crossed>>

Does(step) ==
  /\ todo # <<>>
  /\ Head(todo) = step
  /\ todo' = Tail(todo)
  /\ UNCHANGED <<kind, starts>>

\* The handle is taken out of its slot and dropped, which aborts the task: it
\* ends at its next await, and what it had spawned may outlive it.
Drops ==
  /\ Does("drop")
  /\ slot' = None
  /\ source' = IF slot # None /\ source[slot] = "run"
                 THEN [source EXCEPT ![slot] = "tail"] ELSE source
  /\ UNCHANGED <<last, told, chan, sent, stop, parked, pollVars, crossed>>

Spawns ==
  /\ Does("spawn")
  /\ slot' = starts
  /\ source' = [source EXCEPT ![starts] = "run"]
  /\ last' = starts
  /\ told' = FALSE
  /\ crossed' = IF crossed = "now" THEN "now" ELSE "no"
  /\ UNCHANGED <<chan, sent, stop, parked, pollVars>>

\* Port 10191 is taken: the call returns the error, with the old source dropped.
BindFails ==
  /\ kind = "share"
  /\ todo # <<>>
  /\ Head(todo) = "spawn"
  /\ todo' = <<>>
  /\ UNCHANGED <<kind, starts, sourceVars, chan, sent, stop, parked, pollVars, crossed>>

Clears ==
  /\ Does("clear")
  /\ stop' = FALSE
  /\ UNCHANGED <<sourceVars, chan, sent, parked, pollVars, crossed>>

\* The new receiver goes into the slot; one that is there is dropped.
Parks ==
  /\ Does("park")
  /\ parked' = starts
  /\ UNCHANGED <<sourceVars, chan, sent, stop, pollVars, crossed>>

\* The app polls from now on, if it does not already.
StartReturns ==
  /\ Does("return")
  /\ loop' = TRUE
  /\ UNCHANGED <<sourceVars, chan, sent, stop, parked, pc, held, msg, handed, crossed>>

Flags ==
  /\ Does("flag")
  /\ stop' = TRUE
  /\ told' = TRUE
  /\ UNCHANGED <<slot, source, last, chan, sent, parked, pollVars, crossed>>

Call ==
  \/ Drops \/ Spawns \/ Clears \/ Parks \/ StartReturns \/ Flags

-----------------------------------------------------------------------------
(* The sources *)

\* An event; nobody hears it when the receiver is gone.
Sends(i) ==
  /\ source[i] \in {"run", "tail"}
  /\ sent < MaxEvent
  /\ sent' = sent + 1
  /\ chan' = [chan EXCEPT ![i] = Append(@, sent + 1)]
  /\ UNCHANGED <<kind, appVars, sourceVars, stop, parked, pollVars, crossed>>

\* The task has ended with all it had spawned: the channel is closed. One that
\* was not told to ends with the control connection of its session.
SourceEnds(i) ==
  /\ \/ source[i] = "tail"
     \/ source[i] = "run" /\ kind = "feature"
  /\ source' = [source EXCEPT ![i] = "gone"]
  /\ UNCHANGED <<kind, appVars, slot, last, told, chan, sent, stop, parked,
                 pollVars, crossed>>

-----------------------------------------------------------------------------
(* The poll thread, in next_...() *)

\* A call that begins before a start has put its receiver into the slot takes
\* the old one, if there is one.
Begins ==
  /\ pc = "out"
  /\ loop
  /\ crossed' = IF Starting THEN "now" ELSE crossed
  /\ UNCHANGED <<kind, appVars, sourceVars, sent, stop>>

OnlyPoll == UNCHANGED <<kind, appVars, sourceVars, sent, stop, crossed>>

\* The app polls what it has never started.
PollsEarly ==
  /\ starts = 0
  /\ handed = <<>>
  /\ todo = <<>>
  /\ ~loop
  /\ loop' = TRUE
  /\ OnlyPoll
  /\ UNCHANGED <<chan, parked, pc, held, msg, handed>>

Takes ==
  /\ Begins
  /\ parked # None
  /\ held' = parked
  /\ parked' = None
  /\ pc' = "check"
  /\ UNCHANGED <<chan, msg, loop, handed>>

\* The call is over with nothing to tell: the app's loop ends on "".
Gives(m) ==
  /\ msg' = m
  /\ handed' = Append(handed, m)

\* Nothing is in the slot: "" at once.
FindsNone ==
  /\ Begins
  /\ parked = None
  /\ Gives(None)
  /\ loop' = FALSE
  /\ UNCHANGED <<chan, parked, pc, held>>

SeesStop ==
  /\ pc = "check"
  /\ stop
  /\ Gives(None)
  /\ pc' = "back"
  /\ OnlyPoll
  /\ UNCHANGED <<chan, parked, held, loop>>

Waits ==
  /\ pc = "check"
  /\ ~stop
  /\ pc' = "recv"
  /\ OnlyPoll
  /\ UNCHANGED <<chan, parked, held, msg, loop, handed>>

Receives ==
  /\ pc = "recv"
  /\ chan[held] # <<>>
  /\ Gives(Head(chan[held]))
  /\ chan' = [chan EXCEPT ![held] = Tail(@)]
  /\ pc' = "back"
  /\ OnlyPoll
  /\ UNCHANGED <<parked, held, loop>>

\* No sender is left: recv gives None.
FindsClosed ==
  /\ pc = "recv"
  /\ chan[held] = <<>>
  /\ source[held] = "gone"
  /\ Gives(None)
  /\ pc' = "back"
  /\ OnlyPoll
  /\ UNCHANGED <<chan, parked, held, loop>>

\* Mutant: the wait has no slices.
SliceNever ==
  /\ pc = "recv"
  /\ chan[held] = <<>>
  /\ source[held] # "gone"
  /\ OnlyPoll
  /\ UNCHANGED <<chan, parked, pc, held, msg, loop, handed>>

\* 300ms without an event.
SliceEnds ==
  /\ pc = "recv"
  /\ chan[held] = <<>>
  /\ source[held] # "gone"
  /\ pc' = "check"
  /\ OnlyPoll
  /\ UNCHANGED <<chan, parked, held, msg, loop, handed>>

\* The receiver goes back over whatever is in the slot.
PutsBack ==
  /\ pc = "back"
  /\ parked' = held
  /\ held' = None
  /\ pc' = "out"
  /\ loop' = (loop /\ msg # None)
  /\ OnlyPoll
  /\ UNCHANGED <<chan, msg, handed>>

Poll ==
  \/ Takes \/ FindsNone \/ SeesStop \/ Waits
  \/ Receives \/ FindsClosed \/ SliceEnds \/ PutsBack

Next ==
  \/ Starts \/ Stops \/ BindFails \/ Call \/ PollsEarly \/ Poll
  \/ \E i \in Inc : Sends(i) \/ SourceEnds(i)

Spec == Init /\ [][Next]_vars

\* Threads are scheduled, and a task that was told to go goes.
Fairness ==
  /\ WF_vars(Call)
  /\ WF_vars(Poll)
  /\ \A i \in Inc : WF_vars(source[i] = "tail" /\ SourceEnds(i))

FairSpec == Spec /\ Fairness

-----------------------------------------------------------------------------
(* Properties *)

TypeOK ==
  /\ kind \in {"share", "cloud", "feature"}
  /\ todo \in Seq({"drop", "spawn", "clear", "park", "return", "flag"})
  /\ starts \in 0 .. MaxStart
  /\ slot \in Inc \cup {None}
  /\ source \in [Inc -> {"none", "run", "tail", "gone"}]
  /\ chan \in [Inc -> Seq(Event)]
  /\ sent \in 0 .. MaxEvent
  /\ stop \in BOOLEAN
  /\ parked \in Inc \cup {None}
  /\ pc \in {"out", "check", "recv", "back"}
  /\ held \in Inc \cup {None}
  /\ held = None <=> pc = "out"
  /\ msg \in Event \cup {None}
  /\ loop \in BOOLEAN
  /\ last \in Inc \cup {None}
  /\ told \in BOOLEAN
  /\ handed \in Seq(Event \cup {None})
  /\ crossed \in {"no", "before", "now"}

\* What the comments on the next_...() calls say holds of every start that no
\* call overlaps, whatever happened at earlier ones: the calls get every event of
\* the newest source, in order and once, and "" only when that source was stopped
\* or is over. A start that meets a call is promised nothing: the call hands out
\* what the old source says, "" when that is gone, and puts the old receiver
\* back over the new one.
Stream == INSTANCE EventStream WITH
  Nothing <- None,
  calling <- pc # "out",
  opening <- Starting,
  state <- IF crossed # "no" THEN "crossed"
           ELSE IF last = None THEN "off"
           ELSE IF told THEN "stopped"
           ELSE IF source[last] = "gone" THEN "over" ELSE "on",
  pending <- IF crossed # "no" \/ last = None THEN <<>> ELSE chan[last]

StreamSpec == Stream!Spec

\* "the next (or in-flight) next_verify_code() returns an empty String within
\* ~300ms so its thread can break": a call does not outlast a stop, whatever
\* the source does, unless a start takes the stop back before it is seen.
StopReturns == stop /\ pc # "out" ~> pc = "out" \/ ~stop
=============================================================================
