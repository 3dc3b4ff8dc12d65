--------------------------- MODULE PollersProofs ---------------------------
(***************************************************************************)
(* The queues of the FFI give what EventStream says, for any number of     *)
(* starts and events and however starts and calls overlap: the types, and  *)
(* the safety part of the refinement.  That the app hears everything in    *)
(* the end is left to the model checker.                                   *)
(***************************************************************************)
EXTENDS Pollers, TLAPS

\* What is left of a start before its source is there.
Before ==
  { <<"drop", "spawn", "clear", "park", "return">>, <<"spawn", "clear", "park", "return">>,
    <<"drop", "clear", "park", "spawn", "return">>, <<"clear", "park", "spawn", "return">>,
    <<"park", "spawn", "return">>, <<"spawn", "return">> }

\* What is left of it from there on.
After == { <<"clear", "park", "return">>, <<"park", "return">>, <<"return">> }

\* What is left when the flag is down, and when the receiver is in its slot.
Cleared == { <<"park", "spawn", "return">>, <<"spawn", "return">>, <<"park", "return">>,
             <<"return">> }
Parked == { <<"spawn", "return">>, <<"return">> }

Stopping == { <<"flag", "drop">>, <<"drop">>, <<"flag">> }

\* What is left of one that has yet to put its receiver into the slot, and of
\* those that do so before they spawn.
Opening == (Before \ {<<"spawn", "return">>})
             \cup {<<"clear", "park", "return">>, <<"park", "return">>}
Early == { <<"drop", "clear", "park", "spawn", "return">>,
           <<"clear", "park", "spawn", "return">>, <<"park", "spawn", "return">>,
           <<"spawn", "return">> }

\* The channel whose receiver is about: in the slot, or out with a call.
Rec == IF pc = "out" THEN parked ELSE held

\* The app's calls run one at a time, from the first step to the last.
Steps ==
  /\ todo \in {<<>>} \cup Before \cup After \cup Stopping
  /\ todo # <<>> => starts \in Inc
  /\ todo \in Early => kind # "share"

\* No incarnation has a history before it is spawned.
Unborn ==
  \A i \in Inc : i > starts \/ (i = starts /\ todo \in Before) =>
    source[i] = "none" /\ chan[i] = <<>>

\* A start that has parked its receiver has cleared the flag, and if it met no
\* call, then nothing has gone back over that receiver.
Prepared ==
  /\ todo \in After => last = starts
  /\ todo \in Cleared => ~stop
  /\ todo \in Parked /\ crossed # "now" => Rec = starts

\* A call that is out while a start has its receiver still in hand has been met.
Overlap == pc # "out" /\ Starting => crossed = "now"

\* The flag is up only if the newest source was told to stop, but for the moment
\* in which a new listener runs under the old flag.
Flagged == stop /\ ~told => todo = <<"clear", "park", "return">>

\* If its start met no call, then the receiver about is that of the newest
\* source, or is going to be when the start under way is through.
Newest ==
  crossed = "no" =>
    \/ Rec = last
    \/ Rec = starts /\ todo = <<"spawn", "return">>
    \/ todo \in {<<"clear", "park", "return">>, <<"park", "return">>}

\* Every event is in one place, once.
Fresh ==
  /\ \A i \in Inc : \A m \in 1 .. Len(chan[i]) :
       /\ chan[i][m] <= sent
       /\ \A j \in Inc : \A n \in 1 .. Len(chan[j]) :
            chan[i][m] = chan[j][n] => i = j /\ m = n
       /\ \A n \in 1 .. Len(handed) : handed[n] # chan[i][m]
  /\ \A n \in 1 .. Len(handed) : handed[n] <= sent

IInv ==
  TypeOK /\ Steps /\ Unborn /\ Prepared /\ Overlap /\ Flagged /\ Newest /\ Fresh

-----------------------------------------------------------------------------
(* Plans *)

LEMMA Incs == Inc \subseteq Nat \ {0} /\ None \notin Inc
BY StartAssumption DEF Inc, None

\* The tails of the plans, and which of their tuples are which.
LEMMA Tails ==
  /\ Tail(<<"drop", "spawn", "clear", "park", "return">>)
       = <<"spawn", "clear", "park", "return">>
  /\ Tail(<<"drop", "clear", "park", "spawn", "return">>)
       = <<"clear", "park", "spawn", "return">>
  /\ Tail(<<"spawn", "clear", "park", "return">>) = <<"clear", "park", "return">>
  /\ Tail(<<"clear", "park", "spawn", "return">>) = <<"park", "spawn", "return">>
  /\ Tail(<<"park", "spawn", "return">>) = <<"spawn", "return">>
  /\ Tail(<<"clear", "park", "return">>) = <<"park", "return">>
  /\ Tail(<<"flag", "drop">>) = <<"drop">>
  /\ Tail(<<"spawn", "return">>) = <<"return">>
  /\ Tail(<<"park", "return">>) = <<"return">>
  /\ Tail(<<"return">>) = <<>> /\ Tail(<<"drop">>) = <<>> /\ Tail(<<"flag">>) = <<>>
OBVIOUS

LEMMA Heads ==
  /\ Head(<<"drop", "spawn", "clear", "park", "return">>) = "drop"
  /\ Head(<<"drop", "clear", "park", "spawn", "return">>) = "drop"
  /\ Head(<<"spawn", "clear", "park", "return">>) = "spawn"
  /\ Head(<<"clear", "park", "spawn", "return">>) = "clear"
  /\ Head(<<"park", "spawn", "return">>) = "park"
  /\ Head(<<"clear", "park", "return">>) = "clear"
  /\ Head(<<"flag", "drop">>) = "flag"
  /\ Head(<<"spawn", "return">>) = "spawn"
  /\ Head(<<"park", "return">>) = "park"
  /\ Head(<<"return">>) = "return" /\ Head(<<"drop">>) = "drop" /\ Head(<<"flag">>) = "flag"
OBVIOUS

\* The plans that are on their way are told apart.
LEMMA Kinds ==
  /\ Before \cap After = {} /\ Before \cap Stopping = {} /\ After \cap Stopping = {}
  /\ <<>> \notin Before \cup After \cup Stopping
  /\ Parked \subseteq Cleared /\ Cleared \subseteq Before \cup After
  /\ Opening \subseteq Before \cup After /\ Opening \cap Parked = {}
  /\ Early \subseteq Before
  /\ <<"park", "spawn", "return">> \in Before /\ <<"spawn", "return">> \in Before
  /\ <<"clear", "park", "return">> \in After \ Cleared
  /\ <<"park", "return">> \in After \ Parked /\ <<"return">> \in After
  /\ <<"park", "spawn", "return">> \notin Parked
  /\ <<"spawn", "return">> \in Parked \cap Early
  /\ <<"clear", "park", "return">> \in Opening /\ <<"park", "return">> \in Opening
  /\ <<"spawn", "return">> # <<"park", "return">>
  /\ <<"spawn", "clear", "park", "return">> \in (Before \cap Opening) \ (Early \cup Cleared)
  /\ <<"clear", "park", "spawn", "return">> \in (Before \cap Opening \cap Early) \ Cleared
  /\ <<"drop", "spawn", "clear", "park", "return">> \in Before \cap Opening
  /\ <<"drop", "clear", "park", "spawn", "return">> \in Before \cap Opening
  /\ <<"park", "spawn", "return">> \in Opening \cap Early
  /\ <<"return">> \in Parked /\ <<"return">> # <<"spawn", "return">>
  /\ <<"clear", "park", "return">> # <<"park", "return">>
  /\ <<"spawn", "clear", "park", "return">> # <<"spawn", "return">>
BY DEF Before, After, Stopping, Cleared, Parked, Opening, Early

\* A start has its receiver in hand as long as "park" is before it.
LEMMA Openings ==
  \A t \in {<<>>} \cup Before \cup After \cup Stopping :
    (\E i \in 1 .. Len(t) : t[i] = "park") <=> t \in Opening
<1>1. \A t \in Opening : \E i \in 1 .. Len(t) : t[i] = "park"
  <2>1. <<"drop", "spawn", "clear", "park", "return">>[4] = "park"
    OBVIOUS
  <2>2. <<"drop", "clear", "park", "spawn", "return">>[3] = "park"
    OBVIOUS
  <2>3. <<"spawn", "clear", "park", "return">>[3] = "park"
    OBVIOUS
  <2>4. <<"clear", "park", "spawn", "return">>[2] = "park"
    OBVIOUS
  <2>5. <<"park", "spawn", "return">>[1] = "park"
    OBVIOUS
  <2>6. <<"clear", "park", "return">>[2] = "park" /\ <<"park", "return">>[1] = "park"
    OBVIOUS
  <2> QED
    BY <2>1, <2>2, <2>3, <2>4, <2>5, <2>6 DEF Opening, Before
<1>2. \A t \in {<<>>} \cup Stopping \cup Parked : \A i \in 1 .. Len(t) : t[i] # "park"
  BY DEF Stopping, Parked
<1>3. {<<>>} \cup Before \cup After \cup Stopping
        \subseteq Opening \cup {<<>>} \cup Stopping \cup Parked
  BY DEF Opening, Before, After, Parked
<1> QED
  BY <1>1, <1>2, <1>3

\* The next step of a call, and what is left after it.
LEMMA NextStep ==
  ASSUME Steps, NEW step, Does(step)
  PROVE  /\ step = "drop" => \/ /\ todo \in Before \cap Opening
                                /\ todo' \in (Before \cap Opening) \ Cleared
                                /\ todo' \in Early => todo \in Early
                             \/ todo \in Stopping /\ todo' = <<>>
         /\ step = "spawn" => \/ /\ todo = <<"spawn", "clear", "park", "return">>
                                 /\ todo' = <<"clear", "park", "return">>
                              \/ todo = <<"spawn", "return">> /\ todo' = <<"return">>
         /\ step = "clear" => \/ /\ todo = <<"clear", "park", "spawn", "return">>
                                 /\ todo' = <<"park", "spawn", "return">>
                              \/ /\ todo = <<"clear", "park", "return">>
                                 /\ todo' = <<"park", "return">>
         /\ step = "park" => \/ /\ todo = <<"park", "spawn", "return">>
                                /\ todo' = <<"spawn", "return">>
                             \/ todo = <<"park", "return">> /\ todo' = <<"return">>
         /\ step = "return" => todo = <<"return">> /\ todo' = <<>>
         /\ step = "flag" => todo \in Stopping /\ todo' \in Stopping \cup {<<>>}
<1>1. /\ todo # <<>> /\ step = Head(todo) /\ todo' = Tail(todo)
      /\ todo \in Before \cup After \cup Stopping
  BY DEF Steps, Does
<1>2. CASE todo \in Before
  <2>1. CASE todo \in Early
    BY <1>1, <2>1, Tails, Heads, Kinds DEF Early
  <2>2. CASE todo \in Before \ Early
    <3>1. todo \in { <<"drop", "spawn", "clear", "park", "return">>,
                    <<"spawn", "clear", "park", "return">> }
      BY <2>2 DEF Before, Early
    <3> QED
      BY <1>1, <3>1, Tails, Heads, Kinds
  <2> QED
    BY <1>2, <2>1, <2>2
<1>3. CASE todo \in After
  BY <1>1, <1>3, Tails, Heads DEF After
<1>4. CASE todo \in Stopping
  BY <1>1, <1>4, Tails, Heads DEF Stopping
<1> QED
  BY <1>1, <1>2, <1>3, <1>4

\* The plans are sequences of steps, and begin as they should.
LEMMA Plans ==
  /\ {<<>>} \cup Before \cup After \cup Stopping
       \subseteq Seq({"drop", "spawn", "clear", "park", "return", "flag"})
  /\ \A k \in {"share", "cloud", "feature"} :
       StartPlan[k] \in Before \ Cleared /\ StopPlan[k] \in Stopping
<1>1. {<<>>} \cup Before \cup After \cup Stopping
        \subseteq Seq({"drop", "spawn", "clear", "park", "return", "flag"})
  <2> DEFINE S == Seq({"drop", "spawn", "clear", "park", "return", "flag"})
  <2>1. Before \subseteq S
    BY DEF Before
  <2>2. After \subseteq S
    BY DEF After
  <2>3. Stopping \subseteq S
    BY DEF Stopping
  <2>4. <<>> \in S
    OBVIOUS
  <2> QED
    BY <2>1, <2>2, <2>3, <2>4
<1>2. StartPlan["share"] = <<"drop", "spawn", "clear", "park", "return">>
  BY DEF StartPlan
<1>3. StartPlan["cloud"] = <<"drop", "clear", "park", "spawn", "return">>
  BY DEF StartPlan
<1>4. StartPlan["feature"] = <<"clear", "park", "spawn", "return">>
  BY DEF StartPlan
<1>5. StopPlan["share"] = <<"flag", "drop">> /\ StopPlan["cloud"] = <<"flag", "drop">>
  BY DEF StopPlan
<1>6. StopPlan["feature"] = <<"flag">>
  BY DEF StopPlan
<1>7. \A k \in {"share", "cloud", "feature"} : StartPlan[k] \in Before \ Cleared
  BY <1>2, <1>3, <1>4 DEF Before, Cleared
<1>8. \A k \in {"share", "cloud", "feature"} : StopPlan[k] \in Stopping
  BY <1>5, <1>6 DEF Stopping
<1> QED
  BY <1>1, <1>7, <1>8

\* What the poll thread receives, and what it gives.
LEMMA Received ==
  ASSUME TypeOK, Receives
  PROVE  /\ held \in Inc
         /\ Head(chan[held]) \in Event /\ Head(chan[held]) # None
         /\ Tail(chan[held]) \in Seq(Event)
<1>1. held \in Inc /\ chan[held] \in Seq(Event) /\ chan[held] # <<>>
  BY DEF TypeOK, Receives
<1>2. None \notin Event
  BY DEF Event, None
<1> QED
  BY <1>1, <1>2

LEMMA GivesTyped ==
  ASSUME TypeOK, NEW m \in Event \cup {None}, Gives(m)
  PROVE  msg' \in Event \cup {None} /\ handed' \in Seq(Event \cup {None})
BY DEF TypeOK, Gives

-----------------------------------------------------------------------------
(* Events *)

\* "" is no event.
LEMMA SaysNothing ==
  ASSUME TypeOK, Fresh, UNCHANGED <<chan, sent>>,
         handed' = handed \/ handed' = Append(handed, None)
  PROVE  Fresh'
<1>1. handed \in Seq(Event \cup {None}) /\ None \notin Event /\ sent \in Nat /\ None <= sent
  BY EventAssumption DEF TypeOK, Event, None
<1>2. \A i \in Inc : chan[i] \in Seq(Event)
  BY DEF TypeOK
<1>3. \A n \in 1 .. Len(handed') :
        \/ handed'[n] = None
        \/ n \in 1 .. Len(handed) /\ handed'[n] = handed[n]
  <2>1. CASE handed' = handed
    BY <1>1, <2>1
  <2>2. CASE handed' = Append(handed, None)
    <3>1. Len(handed') = Len(handed) + 1 /\ Len(handed) \in Nat
      BY <1>1, <2>2
    <3>2. \A n \in 1 .. Len(handed) : handed'[n] = handed[n]
      BY <1>1, <2>2
    <3>3. handed'[Len(handed) + 1] = None
      BY <1>1, <2>2
    <3>4. \A n \in 1 .. Len(handed') : n \in 1 .. Len(handed) \/ n = Len(handed) + 1
      BY <3>1
    <3> QED
      BY <3>2, <3>3, <3>4
  <2> QED
    BY <2>1, <2>2
<1> QED
  BY <1>1, <1>2, <1>3 DEF Fresh

\* A new event is none of the old ones.
LEMMA SaysNew ==
  ASSUME TypeOK, Fresh, NEW i \in Inc, Sends(i)
  PROVE  Fresh'
<1>1. /\ sent \in Nat /\ sent' = sent + 1 /\ handed' = handed
      /\ chan' = [chan EXCEPT ![i] = Append(@, sent + 1)]
  BY EventAssumption DEF TypeOK, Sends, pollVars
<1>2. \A j \in Inc : chan[j] \in Seq(Event)
  BY DEF TypeOK
<1>3. \A j \in Inc : \A m \in 1 .. Len(chan'[j]) :
        \/ m \in 1 .. Len(chan[j]) /\ chan'[j][m] = chan[j][m]
        \/ j = i /\ m = Len(chan[i]) + 1 /\ chan'[j][m] = sent + 1
  BY <1>1, <1>2 DEF TypeOK
<1>4. /\ \A j \in Inc : \A m \in 1 .. Len(chan[j]) : chan[j][m] \in Nat /\ chan[j][m] < sent + 1
      /\ \A n \in 1 .. Len(handed) : handed[n] \in Nat /\ handed[n] < sent + 1
  <2>1. \A j \in Inc : \A m \in 1 .. Len(chan[j]) : chan[j][m] \in Nat
    <3>1. Event \subseteq Nat
      BY DEF Event
    <3>2. \A j \in Inc : \A m \in 1 .. Len(chan[j]) : chan[j][m] \in Event
      BY <1>2
    <3> QED
      BY <3>1, <3>2
  <2>2. \A n \in 1 .. Len(handed) : handed[n] \in Nat
    BY DEF TypeOK, Event, None
  <2> QED
    BY <1>1, <2>1, <2>2 DEF Fresh
<1>5. \A j \in Inc : \A m \in 1 .. Len(chan'[j]) :
        /\ chan'[j][m] <= sent'
        /\ \A n \in 1 .. Len(handed) : handed[n] # chan'[j][m]
  BY <1>1, <1>3, <1>4 DEF Fresh
<1>6. \A j, k \in Inc : \A m \in 1 .. Len(chan'[j]), n \in 1 .. Len(chan'[k]) :
        chan'[j][m] = chan'[k][n] => j = k /\ m = n
  BY <1>1, <1>3, <1>4 DEF Fresh
<1>7. \A n \in 1 .. Len(handed) : handed[n] <= sent'
  BY <1>1, <1>4
<1> QED
  BY <1>1, <1>5, <1>6, <1>7 DEF Fresh

LEMMA SendTyped ==
  ASSUME TypeOK, NEW i \in Inc, Sends(i)
  PROVE  TypeOK'
<1>1. /\ sent' = sent + 1 /\ sent' \in 0 .. MaxEvent /\ sent' \in Event
      /\ chan' = [chan EXCEPT ![i] = Append(@, sent')]
  BY EventAssumption DEF Sends, TypeOK, Event
<1>2. chan' \in [Inc -> Seq(Event)]
  BY <1>1 DEF TypeOK
<1>3. UNCHANGED <<kind, todo, starts, slot, source, last, told, stop, parked, pc, held, msg,
                  loop, handed, crossed>>
  BY DEF Sends, appVars, sourceVars, pollVars
<1> QED
  BY <1>1, <1>2, <1>3 DEF TypeOK

\* What is received is in its channel no longer.
LEMMA HearsOnce ==
  ASSUME TypeOK, Fresh, Receives
  PROVE  Fresh'
<1> DEFINE h == held
<1>1. /\ h \in Inc /\ chan[h] \in Seq(Event) /\ chan[h] # <<>>
      /\ sent' = sent
      /\ handed' = Append(handed, chan[h][1])
      /\ chan' = [chan EXCEPT ![h] = Tail(@)]
  BY DEF TypeOK, Receives, Gives, OnlyPoll
<1>2. \A j \in Inc : chan[j] \in Seq(Event)
  BY DEF TypeOK
<1>3. \A j \in Inc : \A m \in 1 .. Len(chan'[j]) :
        \/ j # h /\ m \in 1 .. Len(chan[j]) /\ chan'[j][m] = chan[j][m]
        \/ j = h /\ m + 1 \in 1 .. Len(chan[h]) /\ chan'[j][m] = chan[h][m + 1] /\ m + 1 # 1
  <2>1. \A j \in Inc : j # h => chan'[j] = chan[j]
    BY <1>1 DEF TypeOK
  <2>2. chan'[h] = Tail(chan[h])
    BY <1>1 DEF TypeOK
  <2>3. \A m \in 1 .. Len(Tail(chan[h])) :
          m + 1 \in 1 .. Len(chan[h]) /\ Tail(chan[h])[m] = chan[h][m + 1] /\ m + 1 # 1
    BY <1>1
  <2> QED
    BY <2>1, <2>2, <2>3
<1>4. handed \in Seq(Event \cup {None}) /\ 1 \in 1 .. Len(chan[h])
  BY <1>1 DEF TypeOK
<1>5. \A n \in 1 .. Len(handed') :
        \/ n \in 1 .. Len(handed) /\ handed'[n] = handed[n]
        \/ handed'[n] = chan[h][1]
  BY <1>1, <1>4
<1>6. \A j \in Inc : \A m \in 1 .. Len(chan'[j]) : chan'[j][m] <= sent /\ chan'[j][m] # chan[h][1]
  BY <1>1, <1>3, <1>4 DEF Fresh
<1>7. \A j \in Inc : \A m \in 1 .. Len(chan'[j]) : \A n \in 1 .. Len(handed) :
        handed[n] # chan'[j][m]
  BY <1>1, <1>3 DEF Fresh
<1>8. \A j, k \in Inc : \A m \in 1 .. Len(chan'[j]), n \in 1 .. Len(chan'[k]) :
        chan'[j][m] = chan'[k][n] => j = k /\ m = n
  <2> SUFFICES ASSUME NEW j \in Inc, NEW k \in Inc,
                      NEW m \in 1 .. Len(chan'[j]), NEW n \in 1 .. Len(chan'[k]),
                      chan'[j][m] = chan'[k][n]
               PROVE  j = k /\ m = n
    OBVIOUS
  <2>1. PICK a \in 1 .. Len(chan[j]) :
          chan'[j][m] = chan[j][a] /\ a = (IF j = h THEN m + 1 ELSE m)
    BY <1>3
  <2>2. PICK c \in 1 .. Len(chan[k]) :
          chan'[k][n] = chan[k][c] /\ c = (IF k = h THEN n + 1 ELSE n)
    BY <1>3
  <2>3. chan[j][a] = chan[k][c]
    BY <2>1, <2>2
  <2>4. j = k /\ a = c
    BY <2>3 DEF Fresh
  <2>5. Len(chan'[j]) \in Nat /\ Len(chan'[k]) \in Nat
    BY <1>1, <1>2 DEF TypeOK
  <2> QED
    BY <2>1, <2>2, <2>4, <2>5
<1>9. \A n \in 1 .. Len(handed') : handed'[n] <= sent
  BY <1>1, <1>4, <1>5 DEF Fresh
<1> QED
  BY <1>1, <1>5, <1>6, <1>7, <1>8, <1>9 DEF Fresh

-----------------------------------------------------------------------------
(* The invariant *)

\* The poll thread keeps it.
LEMMA PollKept ==
  ASSUME IInv, Poll \/ PollsEarly
  PROVE  IInv'
<1> USE Incs
<1>1. UNCHANGED <<kind, todo, starts, slot, source, last, told, sent, stop>>
  BY DEF Poll, PollsEarly, Takes, FindsNone, SeesStop, Waits, Receives, FindsClosed, SliceEnds,
         PutsBack, Begins, OnlyPoll, appVars, sourceVars
<1>2. crossed' \in {"no", "before", "now"} /\ (crossed' # "now" => crossed' = crossed)
  BY DEF Poll, PollsEarly, Takes, FindsNone, SeesStop, Waits, Receives, FindsClosed, SliceEnds,
         PutsBack, Begins, OnlyPoll, IInv, TypeOK
<1>3. TypeOK'
  <2>1. CASE Receives
    <3>1. Gives(Head(chan[held])) /\ Head(chan[held]) \in Event
      BY <2>1, Received DEF IInv, Receives
    <3>2. msg' \in Event \cup {None} /\ handed' \in Seq(Event \cup {None})
      BY <3>1, GivesTyped DEF IInv
    <3> QED
      BY <1>1, <1>2, <2>1, <3>2, Received DEF IInv, TypeOK, Receives
  <2>2. CASE FindsNone \/ SeesStop \/ FindsClosed
    <3>1. Gives(None)
      BY <2>2 DEF FindsNone, SeesStop, FindsClosed
    <3>2. msg' \in Event \cup {None} /\ handed' \in Seq(Event \cup {None})
      BY <3>1, GivesTyped DEF IInv
    <3> QED
      BY <1>1, <1>2, <2>2, <3>2 DEF IInv, TypeOK, FindsNone, SeesStop, FindsClosed
  <2>3. CASE Takes \/ Waits \/ SliceEnds \/ PutsBack \/ PollsEarly
    BY <1>1, <1>2, <2>3 DEF IInv, TypeOK, Takes, Waits, SliceEnds, PutsBack, PollsEarly
  <2> QED
    BY <2>1, <2>2, <2>3 DEF Poll
<1>4. Rec' = Rec
  <2>1. CASE Takes \/ FindsNone
    BY <2>1 DEF Rec, Takes, FindsNone, Begins
  <2>2. CASE PutsBack
    BY <2>2 DEF Rec, PutsBack
  <2>3. CASE PollsEarly \/ SeesStop \/ Waits \/ Receives \/ FindsClosed \/ SliceEnds
    BY <2>3 DEF Rec, PollsEarly, SeesStop, Waits, Receives, FindsClosed, SliceEnds
  <2> QED
    BY <2>1, <2>2, <2>3 DEF Poll
<1>5. Steps' /\ Prepared' /\ Newest' /\ Flagged'
  BY <1>1, <1>2, <1>4 DEF IInv, Steps, Prepared, Newest, Flagged
<1>6. Unborn'
  <2>1. CASE Receives
    <3>1. held \in Inc /\ chan[held] # <<>> /\ chan' = [chan EXCEPT ![held] = Tail(@)]
      BY <2>1 DEF Receives, IInv, TypeOK
    <3> QED
      BY <1>1, <3>1 DEF IInv, Unborn, TypeOK
  <2>2. CASE ~Receives
    BY <1>1, <2>2 DEF IInv, Unborn, Poll, PollsEarly, Takes, FindsNone, SeesStop, Waits,
       FindsClosed, SliceEnds, PutsBack
  <2> QED
    BY <2>1, <2>2
<1>7. Overlap'
  <2>1. Starting' = Starting
    BY <1>1 DEF Starting
  <2>2. CASE Takes \/ FindsNone
    BY <2>1, <2>2 DEF Takes, FindsNone, Begins, Overlap, IInv, TypeOK
  <2>3. CASE ~(Takes \/ FindsNone)
    BY <2>1, <2>3 DEF Overlap, IInv, Poll, PollsEarly, SeesStop, Waits, Receives, FindsClosed,
       SliceEnds, PutsBack, OnlyPoll
  <2> QED
    BY <2>2, <2>3
<1>8. Fresh'
  <2>1. CASE Receives
    BY <2>1, HearsOnce DEF IInv
  <2>2. CASE ~Receives
    <3>1. UNCHANGED <<chan, sent>> /\ (handed' = handed \/ handed' = Append(handed, None))
      BY <1>1, <2>2 DEF Poll, PollsEarly, Takes, FindsNone, SeesStop, Waits, FindsClosed,
         SliceEnds, PutsBack, Gives
    <3> QED
      BY <3>1, SaysNothing DEF IInv
  <2> QED
    BY <2>1, <2>2
<1> QED
  BY <1>3, <1>5, <1>6, <1>7, <1>8 DEF IInv

\* So do the app's calls.
LEMMA CallKept ==
  ASSUME IInv, Call
  PROVE  IInv'
<1> USE Incs
<1>1. UNCHANGED <<kind, starts, sent, chan, pc, held, msg, handed>>
  BY DEF Call, Drops, Spawns, Clears, Parks, StartReturns, Flags, Does, pollVars
<1>2. loop' \in BOOLEAN
  BY DEF Call, Drops, Spawns, Clears, Parks, StartReturns, Flags, pollVars, IInv, TypeOK
<1>3. Fresh'
  BY <1>1, SaysNothing DEF IInv
<1>4. ASSUME Steps'
      PROVE  todo' \in Seq({"drop", "spawn", "clear", "park", "return", "flag"})
  BY <1>4, Plans DEF Steps
<1>5. Steps => (Starting <=> todo \in Opening)
  BY Openings DEF Starting, Steps
<1>6. Steps' => (Starting' <=> todo' \in Opening)
  BY Openings DEF Starting, Steps
<1>7. CASE Drops
  <2>1. \/ /\ todo \in Before \cap Opening /\ todo' \in (Before \cap Opening) \ Cleared
           /\ todo' \in Early => todo \in Early
        \/ todo \in Stopping /\ todo' = <<>>
    BY <1>7, NextStep DEF Drops, IInv
  <2>2. /\ source' \in [Inc -> {"none", "run", "tail", "gone"}]
        /\ \A i \in Inc : source[i] = "none" <=> source'[i] = "none"
    BY <1>7 DEF Drops, IInv, TypeOK
  <2>3. UNCHANGED <<last, told, stop, parked, crossed>> /\ slot' = None
    BY <1>7 DEF Drops
  <2>4. Steps'
    BY <1>1, <2>1, Kinds DEF IInv, Steps
  <2>5. TypeOK'
    BY <1>1, <1>2, <1>4, <2>2, <2>3, <2>4 DEF IInv, TypeOK
  <2>6. Overlap'
    BY <1>1, <1>5, <1>6, <2>1, <2>3, <2>4, Kinds DEF IInv, Overlap
  <2>7. Flagged'
    BY <2>1, <2>3, Kinds DEF IInv, Flagged
  <2>8. Rec' = Rec
    BY <1>1, <2>3 DEF Rec
  <2>9. Newest'
    BY <1>1, <2>1, <2>3, <2>8, Kinds DEF IInv, Newest
  <2> QED
    BY <1>1, <1>3, <2>1, <2>2, <2>3, <2>4, <2>5, <2>6, <2>7, <2>8, <2>9, Kinds
       DEF IInv, Unborn, Prepared
<1>8. CASE Spawns
  <2>1. /\ todo \in Before
        /\ \/ todo \in Opening /\ todo' = <<"clear", "park", "return">>
           \/ todo = <<"spawn", "return">> /\ todo' = <<"return">>
    BY <1>8, NextStep, Kinds DEF Spawns, IInv
  <2>2. starts \in Inc
    BY <1>8, <2>1, Kinds DEF IInv, Steps
  <2>3. /\ slot' = starts /\ last' = starts /\ told' = FALSE
        /\ source' = [source EXCEPT ![starts] = "run"]
        /\ crossed' = IF crossed = "now" THEN "now" ELSE "no"
        /\ UNCHANGED <<stop, parked>>
    BY <1>8 DEF Spawns
  <2>4. todo' \in After /\ todo' \notin Early /\ Steps'
    BY <1>1, <2>1, <2>2, Kinds DEF Steps
  <2>5. TypeOK'
    BY <1>1, <1>2, <1>4, <2>2, <2>3, <2>4 DEF IInv, TypeOK
  <2>6. Unborn'
    <3>1. todo' \notin Before
      BY <2>4, Kinds
    <3>2. \A i \in Inc : i > starts => source'[i] = "none" /\ chan[i] = <<>>
      BY <2>2, <2>3 DEF IInv, Unborn, TypeOK
    <3> QED
      BY <1>1, <3>1, <3>2 DEF Unborn
  <2>7. Rec' = Rec
    BY <1>1, <2>3 DEF Rec
  <2>8. Prepared'
    BY <1>1, <2>1, <2>3, <2>4, <2>7 DEF IInv, Prepared, Cleared, Parked
  <2>9. Overlap'
    BY <1>1, <1>5, <1>6, <2>1, <2>3, <2>4, Kinds DEF IInv, Overlap, Opening
  <2>10. Flagged'
    BY <2>1, <2>3, Kinds DEF IInv, Flagged, Prepared
  <2>11. Newest'
    BY <1>1, <2>1, <2>3, <2>7, Kinds DEF IInv, Newest, Prepared
  <2> QED
    BY <1>3, <2>4, <2>5, <2>6, <2>8, <2>9, <2>10, <2>11 DEF IInv
<1>9. CASE Clears \/ Parks
  <2>1. \/ /\ Clears /\ todo = <<"clear", "park", "spawn", "return">>
           /\ todo' = <<"park", "spawn", "return">>
        \/ Clears /\ todo = <<"clear", "park", "return">> /\ todo' = <<"park", "return">>
        \/ Parks /\ todo = <<"park", "spawn", "return">> /\ todo' = <<"spawn", "return">>
        \/ Parks /\ todo = <<"park", "return">> /\ todo' = <<"return">>
    BY <1>9, NextStep DEF Clears, Parks, IInv
  <2>2. starts \in Inc
    BY <1>9, <2>1 DEF IInv, Steps
  <2>3. /\ UNCHANGED <<slot, source, last, told, crossed>>
        /\ stop' \in BOOLEAN /\ parked' \in Inc \cup {None}
        /\ todo \in Before <=> todo' \in Before
        /\ todo \in After <=> todo' \in After
        /\ todo' \in Cleared
    BY <1>9, <2>1, <2>2, Kinds DEF Clears, Parks, sourceVars, IInv, TypeOK, Before, After, Cleared
  <2>4. Steps'
    <3>1. todo' \in Early => todo \in Early
      BY <2>1 DEF Early
    <3> QED
      BY <1>1, <2>2, <2>3, <3>1, Kinds DEF IInv, Steps
  <2>5. TypeOK'
    BY <1>1, <1>2, <1>4, <2>3, <2>4 DEF IInv, TypeOK
  <2>6. ~stop'
    BY <2>1 DEF Clears, Parks, IInv, Prepared, Cleared
  <2>7. Unborn'
    BY <1>1, <2>2, <2>3 DEF IInv, Unborn
  <2>8. Overlap'
    BY <1>1, <1>5, <1>6, <2>1, <2>3, <2>4, Kinds DEF IInv, Overlap
  <2>9. Flagged'
    BY <2>6 DEF Flagged
  <2>12. ~(Clears /\ Parks)
    BY DEF Clears, Parks, Does
  <2>10. CASE Clears
    <3>1. Rec' = Rec
      BY <1>1, <2>10 DEF Clears, Rec
    <3>2. todo' \notin Parked /\ todo' # <<"spawn", "return">>
      BY <2>1, <2>10, <2>12, Kinds
    <3>3. Prepared'
      BY <1>1, <2>3, <2>6, <3>2 DEF IInv, Prepared
    <3>4. Newest'
      BY <1>1, <2>1, <2>3, <2>10, <2>12, <3>1 DEF IInv, Newest
    <3> QED
      BY <1>3, <2>4, <2>5, <2>7, <2>8, <2>9, <3>3, <3>4 DEF IInv
  <2>11. CASE Parks
    <3>1. crossed # "now" => pc = "out" /\ Rec' = starts
      BY <1>1, <1>5, <2>1, <2>11, <2>12, Kinds DEF Parks, Rec, IInv, Overlap
    <3>2. Prepared'
      BY <1>1, <2>3, <2>6, <3>1 DEF IInv, Prepared
    <3>3. Newest'
      BY <1>1, <2>1, <2>3, <2>11, <2>12, <3>1, Kinds DEF IInv, Newest, Prepared
    <3> QED
      BY <1>3, <2>4, <2>5, <2>7, <2>8, <2>9, <3>2, <3>3 DEF IInv
  <2> QED
    BY <1>9, <2>10, <2>11
<1>10. CASE StartReturns
  <2>1. todo = <<"return">> /\ todo' = <<>>
    BY <1>10, NextStep DEF StartReturns, IInv
  <2>2. UNCHANGED <<slot, source, last, told, stop, parked, crossed>>
    BY <1>10 DEF StartReturns, sourceVars
  <2>3. last = starts /\ (crossed = "no" => Rec = starts) /\ ~stop
    BY <2>1, Kinds DEF IInv, Prepared, Cleared, Parked
  <2>4. Steps'
    BY <2>1, Kinds DEF Steps
  <2>5. TypeOK'
    BY <1>1, <1>2, <1>4, <2>2, <2>4 DEF IInv, TypeOK
  <2>6. todo' \notin Before \cup After \cup Cleared \cup Parked \cup Opening
    BY <2>1, Kinds
  <2>7. Unborn' /\ Prepared'
    BY <1>1, <2>2, <2>6 DEF IInv, Unborn, Prepared
  <2>8. Overlap' /\ Flagged'
    BY <1>6, <2>2, <2>3, <2>4, <2>6 DEF Overlap, Flagged
  <2>9. Rec' = Rec
    BY <1>1, <2>2 DEF Rec
  <2> QED
    BY <1>3, <2>2, <2>3, <2>4, <2>5, <2>7, <2>8, <2>9 DEF IInv, Newest
<1>11. CASE Flags
  <2>1. todo \in Stopping /\ todo' \in Stopping \cup {<<>>}
    BY <1>11, NextStep DEF Flags, IInv
  <2>2. stop' = TRUE /\ told' = TRUE /\ UNCHANGED <<slot, source, last, parked, crossed>>
    BY <1>11 DEF Flags
  <2>3. Steps'
    BY <1>1, <2>1, Kinds DEF IInv, Steps
  <2>4. TypeOK'
    BY <1>1, <1>2, <1>4, <2>2, <2>3 DEF IInv, TypeOK
  <2>5. todo' \notin Before \cup After \cup Cleared \cup Parked \cup Opening
    BY <2>1, Kinds
  <2>6. Unborn' /\ Prepared' /\ Flagged'
    BY <1>1, <2>2, <2>5 DEF IInv, Unborn, Prepared, Flagged
  <2>7. Overlap'
    BY <1>6, <2>3, <2>5 DEF Overlap
  <2>8. Rec' = Rec
    BY <1>1, <2>2 DEF Rec
  <2> QED
    BY <1>3, <2>1, <2>2, <2>3, <2>4, <2>6, <2>7, <2>8, Kinds DEF IInv, Newest
<1> QED
  BY <1>7, <1>8, <1>9, <1>10, <1>11 DEF Call

\* And the rest: the sources, and the app as it makes up its mind.
LEMMA OthersKept ==
  ASSUME IInv, Starts \/ Stops \/ BindFails \/ (\E i \in Inc : Sends(i) \/ SourceEnds(i))
               \/ UNCHANGED vars
  PROVE  IInv'
<1> USE Incs
<1>1. ASSUME Steps'
      PROVE  todo' \in Seq({"drop", "spawn", "clear", "park", "return", "flag"})
  BY <1>1, Plans DEF Steps
<1>2. Steps' => (Starting' <=> todo' \in Opening)
  BY Openings DEF Starting, Steps
<1>3. CASE Starts
  <2>1. /\ todo = <<>> /\ starts' = starts + 1 /\ starts' \in Inc /\ starts \in Nat
        /\ crossed' = IF pc # "out" THEN "now" ELSE IF crossed = "now" THEN "before" ELSE crossed
        /\ UNCHANGED <<kind, slot, source, last, told, chan, sent, stop, parked, pollVars>>
    BY <1>3, StartAssumption DEF Starts, IInv, TypeOK, Inc, sourceVars
  <2>2. todo' \in Before \ Cleared
    BY <1>3, Plans DEF Starts, IInv, TypeOK
  <2>3. Steps'
    <3>1. todo' \in Early => kind # "share"
      <4>1. StartPlan["share"] \notin Early
        BY DEF StartPlan, Early
      <4> QED
        BY <1>3, <4>1 DEF Starts
    <3> QED
      BY <2>1, <2>2, <3>1 DEF Steps
  <2>4. TypeOK'
    <3>1. starts' \in 0 .. MaxStart
      BY <2>1, StartAssumption DEF Inc
    <3> QED
      BY <1>1, <2>1, <2>3, <3>1 DEF IInv, TypeOK, pollVars
  <2>5. Unborn'
    BY <2>1, <2>2 DEF IInv, Unborn
  <2>6. Prepared'
    BY <2>1, <2>2, Kinds DEF IInv, Prepared
  <2>7. Overlap'
    BY <2>1 DEF Overlap, pollVars
  <2>8. Flagged'
    BY <2>1 DEF IInv, Flagged
  <2>9. Newest'
    BY <2>1 DEF IInv, Newest, Rec, pollVars
  <2>10. Fresh'
    BY <2>1, SaysNothing DEF IInv, pollVars
  <2> QED
    BY <2>3, <2>4, <2>5, <2>6, <2>7, <2>8, <2>9, <2>10 DEF IInv
<1>4. CASE Stops
  <2>1. /\ todo = <<>> /\ starts \in Inc
        /\ UNCHANGED <<kind, starts, slot, source, last, told, chan, sent, stop, parked, pollVars,
                       crossed>>
    BY <1>4 DEF Stops, IInv, TypeOK, Inc, sourceVars
  <2>2. todo' \in Stopping
    BY <1>4, Plans DEF Stops, IInv, TypeOK
  <2>3. Steps'
    BY <2>1, <2>2, Kinds DEF Steps
  <2>4. TypeOK'
    BY <1>1, <2>1, <2>3 DEF IInv, TypeOK, pollVars
  <2>5. todo' \notin Before \cup After \cup Cleared \cup Parked \cup Opening
    BY <2>2, Kinds
  <2>6. Unborn' /\ Prepared' /\ Flagged'
    BY <2>1, <2>5 DEF IInv, Unborn, Prepared, Flagged
  <2>7. Overlap'
    BY <1>2, <2>3, <2>5 DEF Overlap
  <2>8. Newest'
    BY <2>1 DEF IInv, Newest, Rec, pollVars
  <2>9. Fresh'
    BY <2>1, SaysNothing DEF IInv, pollVars
  <2> QED
    BY <2>3, <2>4, <2>6, <2>7, <2>8, <2>9 DEF IInv
<1>5. CASE BindFails
  <2>1. /\ Head(todo) = "spawn" /\ todo \in Before /\ todo' = <<>> /\ todo \notin Early
        /\ UNCHANGED <<kind, starts, slot, source, last, told, chan, sent, stop, parked, pollVars,
                       crossed>>
    BY <1>5, Heads DEF BindFails, IInv, Steps, After, Stopping, sourceVars
  <2>2. Steps'
    BY <2>1, Kinds DEF Steps
  <2>3. TypeOK'
    BY <1>1, <2>1, <2>2 DEF IInv, TypeOK, pollVars
  <2>4. todo' \notin Before \cup After \cup Cleared \cup Parked \cup Opening
    BY <2>1, Kinds
  <2>5. Unborn' /\ Prepared' /\ Flagged'
    BY <2>1, <2>4 DEF IInv, Unborn, Prepared, Flagged
  <2>6. Overlap'
    BY <1>2, <2>2, <2>4 DEF Overlap
  <2>7. Newest'
    BY <2>1, Kinds DEF IInv, Newest, Rec, pollVars
  <2>8. Fresh'
    BY <2>1, SaysNothing DEF IInv, pollVars
  <2> QED
    BY <2>2, <2>3, <2>5, <2>6, <2>7, <2>8 DEF IInv
<1>6. ASSUME NEW i \in Inc, Sends(i)
      PROVE  IInv'
  <2>1. /\ sent' = sent + 1 /\ sent' \in Event
        /\ chan' = [chan EXCEPT ![i] = Append(@, sent')]
        /\ source[i] # "none"
        /\ UNCHANGED <<kind, todo, starts, slot, source, last, told, stop, parked, pollVars,
                       crossed>>
    BY <1>6, EventAssumption DEF Sends, IInv, TypeOK, Event, appVars, sourceVars
  <2>2. Append(chan[i], sent') \in Seq(Event)
    BY <2>1 DEF IInv, TypeOK
  <2>3. TypeOK'
    BY <1>6, SendTyped DEF IInv
  <2>4. Unborn'
    BY <2>1 DEF IInv, Unborn, TypeOK
  <2>5. Steps' /\ Prepared' /\ Overlap' /\ Flagged' /\ Newest'
    BY <2>1 DEF IInv, Steps, Prepared, Overlap, Starting, Flagged, Newest, Rec, pollVars
  <2>6. Fresh'
    BY <1>6, SaysNew DEF IInv
  <2> QED
    BY <2>3, <2>4, <2>5, <2>6 DEF IInv
<1>7. ASSUME NEW i \in Inc, SourceEnds(i)
      PROVE  IInv'
  <2>1. /\ source' = [source EXCEPT ![i] = "gone"]
        /\ source[i] # "none"
        /\ UNCHANGED <<kind, todo, starts, slot, last, told, chan, sent, stop, parked, pollVars,
                       crossed>>
    BY <1>7 DEF SourceEnds, appVars
  <2>2. TypeOK'
    BY <2>1 DEF IInv, TypeOK, pollVars
  <2>3. Unborn'
    BY <2>1 DEF IInv, Unborn, TypeOK
  <2>4. Steps' /\ Prepared' /\ Overlap' /\ Flagged' /\ Newest'
    BY <2>1 DEF IInv, Steps, Prepared, Overlap, Starting, Flagged, Newest, Rec, pollVars
  <2>5. Fresh'
    BY <2>1, SaysNothing DEF IInv, pollVars
  <2> QED
    BY <2>2, <2>3, <2>4, <2>5 DEF IInv
<1>8. CASE UNCHANGED vars
  <2>1. Fresh'
    BY <1>8, SaysNothing DEF IInv, vars, pollVars
  <2> QED
    BY <1>8, <2>1 DEF IInv, TypeOK, Steps, Unborn, Prepared, Overlap, Starting, Flagged, Newest,
       Rec, vars, appVars, sourceVars, pollVars
<1> QED
  BY <1>3, <1>4, <1>5, <1>6, <1>7, <1>8

LEMMA Kept ==
  ASSUME IInv, [Next]_vars
  PROVE  IInv'
BY PollKept, CallKept, OthersKept DEF Next

LEMMA InitKept ==
  ASSUME Init
  PROVE  IInv
<1>1. TypeOK
  <2>1. chan \in [Inc -> Seq(Event)] /\ handed \in Seq(Event \cup {None})
    BY DEF Init
  <2>2. todo \in Seq({"drop", "spawn", "clear", "park", "return", "flag"})
    BY DEF Init
  <2>3. starts \in 0 .. MaxStart /\ sent \in 0 .. MaxEvent
    BY StartAssumption, EventAssumption DEF Init
  <2> QED
    BY <2>1, <2>2, <2>3 DEF Init, TypeOK
<1>2. Steps /\ Unborn /\ Prepared /\ Overlap /\ Flagged /\ Newest
  BY Kinds, Incs DEF Init, Steps, Unborn, Prepared, Overlap, Flagged, Newest, Rec
<1>3. Fresh
  BY DEF Init, Fresh
<1> QED
  BY <1>1, <1>2, <1>3 DEF IInv

\* TypeOK for every bound.
THEOREM TypeCorrect == Spec => []TypeOK
<1>1. IInv => TypeOK
  BY DEF IInv
<1> QED
  BY InitKept, Kept, <1>1, PTL DEF Spec

-----------------------------------------------------------------------------
(* The refinement *)

\* Each step is a step of the stream, or none that can be seen there.
LEMMA StepSimulation ==
  ASSUME IInv, [Next]_vars
  PROVE  [Stream!Next]_(Stream!vars)
<1> USE Incs, Kinds DEF Stream!Next, Stream!vars, Stream!told, Stream!busy
<1>1. todo' = todo => Starting' = Starting
  BY DEF Starting
<1>2. Starting <=> todo \in Opening
  BY Openings DEF Starting, IInv, Steps
<1>3. IInv'
  BY Kept
<1>4. Starting' <=> todo' \in Opening
  BY <1>3, Openings DEF Starting, IInv, Steps
<1>17. (todo \in Opening <=> todo' \in Opening) => Starting' = Starting
  <2>1. (Starting <=> Starting') => Starting' = Starting
    BY DEF Starting
  <2> QED
    BY <1>2, <1>4, <2>1
<1>5. CASE Starts
  <2>1. /\ ~Starting
        /\ UNCHANGED <<source, last, told, chan, handed, pc>>
        /\ crossed' = IF pc # "out" THEN "now" ELSE IF crossed = "now" THEN "before" ELSE crossed
        /\ Starting'
    <3>1. todo' \in Opening
      BY <1>5, Plans DEF Starts, IInv, TypeOK, Opening, Cleared
    <3> QED
      BY <1>2, <1>4, <1>5, <3>1 DEF Starts, sourceVars, pollVars
  <2>2. CASE pc = "out"
    BY <2>1, <2>2 DEF Stream!ComesOrGoes, Stream!told
  <2>3. CASE pc # "out"
    BY <2>1, <2>3 DEF Stream!Cross
  <2> QED
    BY <2>2, <2>3
<1>6. CASE Spawns
  <2>1. todo \in Before /\ starts \in Inc /\ chan[starts] = <<>>
    BY <1>6, NextStep DEF Spawns, IInv, Steps, Unborn
  <2>2. Starting' = Starting
    BY <1>6, <1>17, NextStep DEF Spawns, IInv
  <2>3. /\ last' = starts /\ told' = FALSE /\ source'[starts] = "run"
        /\ crossed' = IF crossed = "now" THEN "now" ELSE "no"
        /\ UNCHANGED <<chan, handed, pc>>
    BY <1>6, <2>1 DEF Spawns, pollVars, IInv, TypeOK
  <2>4. CASE crossed = "now"
    BY <2>2, <2>3, <2>4
  <2>5. CASE crossed # "now"
    BY <2>1, <2>2, <2>3, <2>5 DEF Stream!Open, Stream!busy
  <2> QED
    BY <2>4, <2>5
<1>7. CASE Flags
  <2>1. Starting' = Starting
    BY <1>7, <1>17, NextStep DEF Flags, IInv
  <2>2. told' = TRUE /\ UNCHANGED <<last, source, chan, handed, pc, crossed>>
    BY <1>7 DEF Flags, pollVars
  <2> QED
    BY <2>1, <2>2 DEF Stream!Stop, Stream!busy
<1>8. CASE Drops
  <2>1. Starting' = Starting
    BY <1>8, <1>17, NextStep DEF Drops, IInv
  <2>2. /\ UNCHANGED <<last, told, chan, handed, pc, crossed>>
        /\ \A i \in Inc : source[i] = "gone" <=> source'[i] = "gone"
    BY <1>8 DEF Drops, IInv, TypeOK, pollVars
  <2>3. last \in Inc \cup {None}
    BY DEF IInv, TypeOK
  <2> QED
    BY <2>1, <2>2, <2>3
<1>9. ASSUME NEW i \in Inc, Sends(i)
      PROVE  [Stream!Next]_(Stream!vars)
  <2>1. sent \in 0 .. MaxEvent /\ sent < MaxEvent
    BY <1>9 DEF Sends, IInv, TypeOK
  <2>2. /\ sent + 1 \in Event
        /\ chan' = [chan EXCEPT ![i] = Append(@, sent + 1)]
        /\ source[i] \in {"run", "tail"}
        /\ UNCHANGED <<source, last, told, handed, pc, crossed>>
        /\ Starting' = Starting
    BY <1>1, <1>9, <2>1, EventAssumption DEF Sends, Event, sourceVars, pollVars, appVars
  <2>3. CASE i = last /\ crossed = "no"
    <3>1. chan'[last] = Append(chan[last], sent + 1)
      BY <2>2, <2>3 DEF IInv, TypeOK
    <3>2. Stream!Put(sent + 1)
      BY <2>2, <2>3, <3>1 DEF Stream!Put, Stream!busy
    <3> QED
      BY <2>2, <3>2
  <2>4. CASE i # last \/ crossed # "no"
    <3>1. last # None /\ i # last => chan'[last] = chan[last]
      BY <2>2 DEF IInv, TypeOK
    <3> QED
      BY <2>2, <2>4, <3>1
  <2> QED
    BY <2>3, <2>4
<1>10. ASSUME NEW i \in Inc, SourceEnds(i)
       PROVE  [Stream!Next]_(Stream!vars)
  <2>1. /\ source' = [source EXCEPT ![i] = "gone"]
        /\ source[i] # "gone"
        /\ UNCHANGED <<last, told, chan, handed, pc, crossed>>
        /\ Starting' = Starting
    BY <1>1, <1>10 DEF SourceEnds, pollVars, appVars
  <2>2. CASE i = last
    BY <2>1, <2>2 DEF Stream!Ends, Stream!busy, IInv, TypeOK
  <2>3. CASE i # last
    <3>1. last # None => source'[last] = source[last]
      BY <2>1, <2>3 DEF IInv, TypeOK
    <3> QED
      BY <2>1, <3>1
  <2> QED
    BY <2>2, <2>3
<1>11. CASE Receives
  <2>1. /\ pc # "out" /\ held \in Inc /\ chan[held] # <<>>
        /\ handed' = Append(handed, Head(chan[held]))
        /\ chan'[held] = Tail(chan[held])
        /\ Head(chan[held]) \in Event
        /\ UNCHANGED <<source, last, told, crossed>>
        /\ pc' # "out" /\ Starting' = Starting
    BY <1>1, <1>11, Received DEF Receives, Gives, OnlyPoll, sourceVars, appVars, IInv, TypeOK
  <2>2. CASE crossed = "no"
    <3>1. ~Starting
      BY <2>1, <2>2 DEF IInv, Overlap
    <3>2. ~(held = starts /\ todo = <<"spawn", "return">>)
      BY <2>1 DEF IInv, Unborn
    <3>3. held = last
      BY <1>2, <2>1, <2>2, <3>1, <3>2 DEF IInv, Newest, Rec
    <3> QED
      BY <2>1, <2>2, <3>3 DEF Stream!Hand, Stream!busy
  <2>3. CASE crossed # "no"
    <3>1. \A n \in 1 .. Len(handed) : handed[n] # Head(chan[held])
      <4>1. chan[held] \in Seq(Event) /\ Head(chan[held]) = chan[held][1]
            /\ 1 \in 1 .. Len(chan[held])
        BY <2>1 DEF IInv, TypeOK
      <4> QED
        BY <2>1, <4>1 DEF IInv, Fresh
    <3>2. Stream!Stray(Head(chan[held]))
      BY <2>1, <2>3, <3>1 DEF Stream!Stray, Stream!busy
    <3> QED
      BY <2>1, <3>2
  <2> QED
    BY <2>2, <2>3
<1>12. CASE SeesStop \/ FindsClosed
  <2>1. /\ handed' = Append(handed, None) /\ UNCHANGED <<source, last, told, chan, crossed>>
        /\ pc # "out" /\ pc' # "out" /\ Starting' = Starting
    BY <1>1, <1>12 DEF SeesStop, FindsClosed, Gives, OnlyPoll, sourceVars, appVars
  <2>2. CASE crossed = "no"
    <3>1. ~Starting
      BY <2>1, <2>2 DEF IInv, Overlap
    <3>2. CASE SeesStop
      <4>1. told
        BY <1>2, <3>1, <3>2 DEF SeesStop, IInv, Flagged
      <4> QED
        BY <2>1, <2>2, <4>1 DEF Stream!Empty, Stream!busy
    <3>3. CASE FindsClosed
      <4>1. ~(held = starts /\ todo = <<"spawn", "return">>)
        BY <3>3 DEF FindsClosed, IInv, Unborn, Steps
      <4>2. held = last /\ chan[last] = <<>> /\ source[last] = "gone"
        BY <1>2, <2>1, <2>2, <3>1, <3>3, <4>1 DEF FindsClosed, IInv, Newest, Rec
      <4> QED
        BY <2>1, <2>2, <4>2 DEF Stream!Empty, Stream!busy
    <3> QED
      BY <1>12, <3>2, <3>3
  <2>3. CASE crossed # "no"
    <3>1. Stream!Empty
      BY <2>1, <2>3 DEF Stream!Empty, Stream!busy
    <3> QED
      BY <3>1
  <2> QED
    BY <2>2, <2>3
<1>13. CASE FindsNone
  <2>1. /\ handed' = Append(handed, None) /\ UNCHANGED <<source, last, told, chan, pc>>
        /\ pc = "out" /\ parked = None /\ Starting' = Starting
        /\ crossed' = IF Starting THEN "now" ELSE crossed
    BY <1>1, <1>13 DEF FindsNone, Gives, Begins, sourceVars, appVars
  <2>2. CASE Starting
    BY <2>1, <2>2 DEF Stream!Cross
  <2>3. CASE ~Starting /\ crossed = "no"
    <3>1. last = None
      <4>1. ~(parked = starts /\ todo = <<"spawn", "return">>)
        BY <2>1 DEF IInv, Steps
      <4> QED
        BY <1>2, <2>1, <2>3, <4>1 DEF IInv, Newest, Rec
    <3> QED
      BY <2>1, <2>3, <3>1 DEF Stream!Empty, Stream!busy
  <2>4. CASE ~Starting /\ crossed # "no"
    <3>1. Stream!Empty
      BY <2>1, <2>4 DEF Stream!Empty, Stream!busy
    <3> QED
      BY <3>1
  <2> QED
    BY <2>2, <2>3, <2>4
<1>14. CASE Takes
  <2>1. /\ UNCHANGED <<source, last, told, chan, handed>>
        /\ pc = "out" /\ pc' # "out" /\ Starting' = Starting
        /\ crossed' = IF Starting THEN "now" ELSE crossed
    BY <1>1, <1>14 DEF Takes, Begins, sourceVars, appVars
  <2>2. CASE Starting
    BY <2>1, <2>2 DEF Stream!Cross
  <2>3. CASE ~Starting
    BY <2>1, <2>3 DEF Stream!ComesOrGoes, Stream!told
  <2> QED
    BY <2>2, <2>3
<1>15. CASE Parks \/ BindFails \/ PutsBack
  <2>1. UNCHANGED <<source, last, told, chan, handed, crossed>>
    BY <1>15 DEF Parks, BindFails, PutsBack, OnlyPoll, sourceVars, pollVars
  <2>2. CASE Parks \/ BindFails
    <3>1. ~Starting'
      BY <1>4, <2>2, NextStep DEF Parks, BindFails, IInv
    <3>2. pc' = pc
      BY <2>2 DEF Parks, BindFails, pollVars
    <3> QED
      BY <2>1, <3>1, <3>2 DEF Stream!ComesOrGoes, Stream!told
  <2>3. CASE PutsBack
    BY <1>1, <2>1, <2>3 DEF PutsBack, OnlyPoll, appVars, Stream!ComesOrGoes, Stream!told
  <2> QED
    BY <1>15, <2>2, <2>3
<1>16. CASE Stops \/ Clears \/ StartReturns \/ PollsEarly \/ Waits \/ SliceEnds \/ UNCHANGED vars
  <2>1. UNCHANGED <<source, last, told, chan, handed, crossed>>
    BY <1>16 DEF Stops, Clears, StartReturns, PollsEarly, Waits, SliceEnds, OnlyPoll, sourceVars,
                 pollVars, vars
  <2>2. pc' = "out" <=> pc = "out"
    BY <1>16 DEF Stops, Clears, StartReturns, PollsEarly, Waits, SliceEnds, pollVars, vars
  <2>3. Starting' = Starting
    <3>1. CASE Stops
      <4>1. todo = <<>> /\ todo' \in Stopping
        BY <3>1, Plans DEF Stops, IInv, TypeOK
      <4> QED
        BY <1>17, <4>1
    <3>2. CASE Clears
      BY <1>17, <3>2, NextStep DEF Clears, IInv
    <3>3. CASE StartReturns
      BY <1>17, <3>3, NextStep DEF StartReturns, IInv
    <3>4. CASE PollsEarly \/ Waits \/ SliceEnds \/ UNCHANGED vars
      BY <1>1, <3>4 DEF PollsEarly, Waits, SliceEnds, OnlyPoll, appVars, vars
    <3> QED
      BY <1>16, <3>1, <3>2, <3>3, <3>4
  <2> QED
    BY <2>1, <2>2, <2>3
<1> QED
  BY <1>5, <1>6, <1>7, <1>8, <1>9, <1>10, <1>11, <1>12, <1>13, <1>14, <1>15, <1>16
     DEF Next, Call, Poll

\* For any number of starts, events and calls, and however a start and a call
\* overlap, what the calls return is a behaviour of the stream: from a start that
\* no call meets, no event of its source is lost, repeated or out of order and ""
\* is said only when it is true, whatever happened at earlier starts; from one
\* that a call meets, nothing is handed out twice.
THEOREM Implements == Spec => Stream!Init /\ [][Stream!Next]_(Stream!vars)
<1>1. Init => Stream!Init
  BY DEF Init, Stream!Init, Starting
<1> QED
  BY <1>1, InitKept, Kept, StepSimulation, PTL DEF Spec
=============================================================================
