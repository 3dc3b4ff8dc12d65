--------------------------- MODULE PresenceProofs ---------------------------
(***************************************************************************)
(* What Presence promises for any number of asks and upgrades: its types,  *)
(* that a session on the held connection can be told to be over, and that  *)
(* the phone is told of an ask how the session of that ask came up.        *)
(***************************************************************************)
EXTENDS Presence, TLAPS

\* The answer "ok" parks the sender of that ask before presence can read it.
OkHasEnd == \A a \in Ask : answer[a] = "ok" => endSlot = a \/ ended[a] = "gone"

\* Nothing has been made of this ask yet, nor of a later one.
Fresh(a) ==
  /\ answerSlot < a
  /\ parked < a
  /\ mine \in Ask => mine < a
  /\ \A b \in Ask : answer[b] # "none" => b < a

\* Asks are numbered in the order in which they come, and read in that order.
AskOrder ==
  /\ \A a \in Ask : a > asks => Fresh(a)
  /\ push # None => push <= asks /\ Fresh(push)
  /\ hold = "asked" => ride <= asks /\ Fresh(ride)

\* Presence waits for the answer to this ask, and its sender is parked.
Open(a) ==
  /\ hold = "asking"
  /\ ride = a
  /\ answer[a] = "none"
  /\ answerSlot = a

Working == app \in {"connecting", "reporting"} /\ mine \in Ask

\* The app takes and answers asks that presence waits for, unless it was misled.
OneAtATime ==
  /\ parked # None => Misled(parked) \/ Open(parked)
  /\ parked # None /\ answerSlot # None => parked = answerSlot
  /\ Working => Misled(mine) \/ Open(mine)
  /\ Working /\ parked # None => mine < parked
  /\ Working /\ answerSlot # None => mine <= answerSlot
  /\ answerSlot # None => answer[answerSlot] = "none"

\* An answer is the outcome of its own ask, and what was told is the answer.
AnswersMatch ==
  \A a \in Ask :
    /\ answer[a] # "none" => answer[a] = outcome[a] \/ Misled(a)
    /\ told[a] # "none" => told[a] = answer[a] \/ Misled(a)

-----------------------------------------------------------------------------
(* Types *)

\* Neither kind of ride is mistaken for the other, or for none.
LEMMA Rides ==
  /\ Ask \subseteq Nat \ {0} /\ Upgrade \subseteq Nat \ {0}
  /\ Ask \cap Upgrade = {} /\ Ride = Ask \union Upgrade
  /\ None \notin Ride
BY AskAssumption, UpgradeAssumption DEF Ask, Upgrade, Ride, None

LEMMA InitTyped ==
  ASSUME Init
  PROVE  TypeOK
<1>1. 0 \in 0 .. MaxAsk /\ 0 \in 0 .. MaxUpgrade
  BY AskAssumption, UpgradeAssumption
<1>2. None \notin Ask /\ None \notin Ride
  BY Rides
<1> QED
  BY <1>1, <1>2 DEF Init, TypeOK, Connected

\* The ask that is given up, if any, is one.
LEMMA GivenUpTyped ==
  ASSUME TypeOK
  PROVE  GivesUpAsk \subseteq Ask
BY DEF TypeOK, GivesUpAsk

LEMMA LeavesTyped ==
  ASSUME TypeOK, NEW next \in {"backoff", "stopped"}, Leaves(next),
         queued' \in {queued, None}, reply' \in {reply, "failed"},
         UNCHANGED <<slotVars, stop, appVars, asks>>
  PROVE  TypeOK'
<1>1. hold' \in {"backoff", "stopped"} /\ abandoned' = GivesUpAsk
  BY DEF Leaves
<1>2. abandoned' \subseteq Ask
  BY <1>1, GivenUpTyped
<1>3. eof' \in BOOLEAN
  BY DEF Leaves
<1>4. ride' = None /\ registered' = None /\ push' = None /\ told' = told
  BY DEF Leaves
<1> QED
  BY <1>1, <1>2, <1>3, <1>4 DEF TypeOK, Connected, slotVars, appVars

\* Each step of the hold.
LEMMA HoldTyped ==
  ASSUME TypeOK, Hold
  PROVE  TypeOK'
<1> USE Rides, GivenUpTyped DEF TypeOK, Connected, OnlyHold, holdVars, wireVars, slotVars, appVars
<1>1. CASE Dials
  <2>1. CASE Leaves("backoff")
    BY <1>1, <2>1, LeavesTyped DEF Dials
  <2>2. CASE hold' = "greeting" /\ UNCHANGED <<ride, told, abandoned, wireVars>>
    BY <1>1, <2>2 DEF Dials
  <2> QED
    BY <1>1, <2>1, <2>2 DEF Dials
<1>2. CASE Greets
  BY <1>2 DEF Greets
<1>3. CASE TakesUpgrade
  BY <1>3 DEF TakesUpgrade
<1>4. CASE Upgrades
  BY <1>4 DEF Upgrades, Awaited
<1>5. CASE UpgradeFails
  BY <1>5 DEF UpgradeFails, KeepsHolding, Awaited
<1>6. CASE ReadsAsk
  BY <1>6 DEF ReadsAsk
<1>7. CASE ParksToken
  BY <1>7 DEF ParksToken
<1>8. CASE AnswerArrives
  BY <1>8 DEF AnswerArrives
<1>9. CASE AnswerExpires
  BY <1>9 DEF AnswerExpires, KeepsHolding
<1>10. CASE Reports27
  BY <1>10 DEF Reports27, KeepsHolding
<1>11. CASE IgnoresPush
  BY <1>11 DEF IgnoresPush
<1>12. CASE RideEnds
  BY <1>12, LeavesTyped DEF RideEnds
<1>13. CASE HangsUp
  BY <1>13, LeavesTyped DEF HangsUp
<1>14. CASE Redials
  BY <1>14 DEF Redials
<1>15. CASE SeesStop \/ Aborts
  BY <1>15, LeavesTyped DEF SeesStop, Aborts, TaskEnds
<1>16. CASE Resolves
  BY <1>16 DEF Resolves
<1> QED
  BY <1>1, <1>2, <1>3, <1>4, <1>5, <1>6, <1>7, <1>8, <1>9, <1>10, <1>11, <1>12, <1>13, <1>14,
     <1>15, <1>16 DEF Hold

\* Each step of the app.
LEMMA AppTyped ==
  ASSUME TypeOK, App
  PROVE  TypeOK'
<1> USE Rides, AskAssumption, UpgradeAssumption
    DEF TypeOK, OnlyApp, holdVars, wireVars, slotVars, appVars
<1>1. CASE \E result \in {"ok", "failed"} : ConnectReturns(result)
  BY <1>1 DEF ConnectReturns
<1>2. CASE TakesRequest
  BY <1>2 DEF TakesRequest
<1>3. CASE ReportsResult
  BY <1>3 DEF ReportsResult, ParksEnd
<1>4. CASE ReportsEnd
  BY <1>4 DEF ReportsEnd
<1>5. CASE AsksUpgrade
  BY <1>5 DEF AsksUpgrade, Upgrade, Ride
<1>6. CASE SendsRequest
  BY <1>6 DEF SendsRequest
<1>7. CASE GotToken
  BY <1>7 DEF GotToken
<1>8. CASE StoresEnd
  BY <1>8 DEF StoresEnd, ParksEnd
<1>9. CASE FallsBack
  BY <1>9 DEF FallsBack
<1> QED
  BY <1>1, <1>2, <1>3, <1>4, <1>5, <1>6, <1>7, <1>8, <1>9 DEF App

LEMMA NextTyped ==
  ASSUME TypeOK, [Next]_vars
  PROVE  TypeOK'
<1> USE DEF TypeOK, holdVars, wireVars, slotVars, appVars
<1>1. CASE Stops
  BY <1>1 DEF Stops
<1>2. CASE PhoneAsks
  BY <1>2, AskAssumption DEF PhoneAsks, Ask
<1>3. CASE PhoneCloses
  BY <1>3 DEF PhoneCloses
<1>4. CASE UNCHANGED vars
  BY <1>4 DEF vars
<1> QED
  BY <1>1, <1>2, <1>3, <1>4, HoldTyped, AppTyped DEF Next

\* TypeOK for every bound.
THEOREM TypeCorrect == Spec => []TypeOK
<1>1. Init => TypeOK
  BY InitTyped
<1>2. TypeOK /\ [Next]_vars => TypeOK'
  BY NextTyped
<1> QED
  BY <1>1, <1>2, PTL DEF Spec

-----------------------------------------------------------------------------
(* The end of a ride *)

\* A sender that is parked stays, or goes; one that is gone stays gone.
Senders ==
  \A r \in Ride : endSlot = r \/ ended[r] = "gone" => endSlot' = r \/ ended'[r] = "gone"

LEMMA ParksEndKeeps ==
  ASSUME TypeOK, NEW x \in Ride, ParksEnd(x)
  PROVE  Senders /\ endSlot' = x
BY Rides DEF TypeOK, ParksEnd, Senders, Ride

\* The hold does not touch the senders.
LEMMA HoldSenders ==
  ASSUME Hold
  PROVE  UNCHANGED <<endSlot, ended, answer, app, mine, outcome>>
BY DEF Hold, Resolves, Dials, Greets, TakesUpgrade, Upgrades, UpgradeFails, ReadsAsk, ParksToken,
   AnswerArrives, AnswerExpires, Reports27, IgnoresPush, RideEnds, HangsUp, Redials, SeesStop, Aborts, TaskEnds,
   Leaves, KeepsHolding, OnlyHold, slotVars, appVars

LEMMA SendersKept ==
  ASSUME TypeOK, [Next]_vars
  PROVE  Senders
<1>1. CASE UNCHANGED <<endSlot, ended>>
  BY <1>1 DEF Senders
<1>2. CASE Hold
  BY <1>2, HoldSenders DEF Senders
<1>3. CASE ReportsResult
  <2>1. answerSlot # None => answerSlot \in Ride
    BY Rides DEF TypeOK
  <2>2. UNCHANGED <<endSlot, ended>> \/ (answerSlot # None /\ ParksEnd(answerSlot))
    BY <1>3 DEF ReportsResult
  <2> QED
    BY <1>1, <2>1, <2>2, ParksEndKeeps
<1>4. CASE ReportsEnd
  BY <1>4 DEF ReportsEnd, Senders, TypeOK
<1>5. CASE StoresEnd
  <2>1. mine \in Ride /\ ParksEnd(mine)
    BY <1>5, Rides DEF StoresEnd, TypeOK
  <2> QED
    BY <2>1, ParksEndKeeps
<1>6. CASE FallsBack
  BY <1>6 DEF FallsBack, Senders, TypeOK
<1>7. CASE TakesRequest \/ (\E result \in {"ok", "failed"} : ConnectReturns(result))
           \/ AsksUpgrade \/ SendsRequest \/ GotToken \/ Stops \/ PhoneAsks \/ PhoneCloses
           \/ UNCHANGED vars
  <2>1. UNCHANGED <<endSlot, ended>>
    BY <1>7 DEF TakesRequest, ConnectReturns, AsksUpgrade, SendsRequest, GotToken, Stops,
                PhoneAsks, PhoneCloses, vars, slotVars
  <2> QED
    BY <1>1, <2>1
<1> QED
  BY <1>2, <1>3, <1>4, <1>5, <1>6, <1>7 DEF Next, App

LEMMA OkHasEndKept ==
  ASSUME TypeOK, OkHasEnd, [Next]_vars
  PROVE  OkHasEnd'
<1>1. Senders
  BY SendersKept
<1>2. CASE answer' = answer
  BY <1>1, <1>2, Rides DEF OkHasEnd, Senders
<1>3. CASE ReportsResult /\ answerSlot # None
  <2>1. answerSlot \in Ask /\ answerSlot \in Ride
    BY <1>3, Rides DEF TypeOK
  <2>2. answer' = [answer EXCEPT ![answerSlot] = outcome[mine]]
    BY <1>3 DEF ReportsResult
  <2>3. outcome[mine] = "ok" => endSlot' = answerSlot
    BY <1>3 DEF ReportsResult, ParksEnd
  <2>4. SUFFICES ASSUME NEW a \in Ask, answer'[a] = "ok"
                 PROVE  endSlot' = a \/ ended'[a] = "gone"
    BY DEF OkHasEnd
  <2>5. CASE a = answerSlot
    BY <2>1, <2>2, <2>3, <2>4, <2>5 DEF TypeOK
  <2>6. CASE a # answerSlot
    <3>1. answer[a] = "ok"
      BY <2>2, <2>4, <2>6 DEF TypeOK
    <3> QED
      BY <3>1, <1>1, Rides DEF OkHasEnd, Senders
  <2> QED
    BY <2>5, <2>6
<1>4. answer' = answer \/ (ReportsResult /\ answerSlot # None)
  BY HoldSenders DEF Next, App, TakesRequest, ConnectReturns, ReportsResult, ReportsEnd,
     AsksUpgrade, SendsRequest, GotToken, StoresEnd, FallsBack, Stops, PhoneAsks, PhoneCloses,
     vars, slotVars
<1> QED
  BY <1>2, <1>3, <1>4

LEMMA RideHasEndKept ==
  ASSUME TypeOK, OkHasEnd, RideHasEnd, [Next]_vars
  PROVE  RideHasEnd'
<1>1. Senders
  BY SendersKept
<1>2. SUFFICES ASSUME hold' = "riding"
               PROVE  \/ endSlot' = ride'
                      \/ ended'[ride'] = "gone"
                      \/ app' \in {"waiting", "got"} /\ mine' = ride'
  BY DEF RideHasEnd
<1>3. CASE Upgrades
  BY <1>2, <1>3 DEF Upgrades, Awaited, OnlyHold, appVars
<1>4. CASE Reports27
  <2>1. answer[ride] = "ok" /\ ride' = ride /\ ride \in Ask
    BY <1>2, <1>4 DEF Reports27, KeepsHolding, TypeOK
  <2> QED
    BY <2>1, <1>1, Rides DEF OkHasEnd, Senders
<1>5. CASE hold = "riding" /\ ride' = ride /\ UNCHANGED <<app, mine>>
  BY <1>1, <1>5, Rides DEF RideHasEnd, Senders, TypeOK
<1>6. CASE Hold /\ ~Upgrades /\ ~Reports27
  <2>1. hold = "riding" /\ ride' = ride
    BY <1>2, <1>6 DEF Hold, Resolves, Dials, Greets, TakesUpgrade, UpgradeFails, ReadsAsk,
       ParksToken,
       AnswerArrives, AnswerExpires, IgnoresPush, RideEnds, HangsUp, Redials, SeesStop, Aborts, TaskEnds, Leaves,
       KeepsHolding
  <2> QED
    BY <2>1, <1>5, <1>6, HoldSenders
<1>7. CASE App
  <2>1. hold = "riding" /\ ride' = ride /\ ride \in Ride
    BY <1>2, <1>7, Rides DEF App, TakesRequest, ConnectReturns, ReportsResult, ReportsEnd,
       AsksUpgrade, SendsRequest, GotToken, StoresEnd, FallsBack, OnlyApp, holdVars, TypeOK
  <2>2. CASE endSlot = ride \/ ended[ride] = "gone"
    BY <2>1, <2>2, <1>1 DEF Senders
  <2>3. CASE app \in {"waiting", "got"} /\ mine = ride
    <3>1. CASE GotToken
      BY <2>1, <2>3, <3>1 DEF GotToken
    <3>2. CASE StoresEnd
      BY <2>1, <2>3, <3>2 DEF StoresEnd, ParksEnd
    <3>3. CASE FallsBack
      BY <2>1, <2>3, <3>3 DEF FallsBack, TypeOK
    <3> QED
      BY <1>7, <2>3, <3>1, <3>2, <3>3 DEF App, TakesRequest, ConnectReturns, ReportsResult,
         ReportsEnd, AsksUpgrade, SendsRequest
  <2> QED
    BY <2>1, <2>2, <2>3 DEF RideHasEnd
<1>8. CASE Stops \/ PhoneAsks \/ PhoneCloses \/ UNCHANGED vars
  BY <1>2, <1>5, <1>8 DEF Stops, PhoneAsks, PhoneCloses, vars, holdVars, appVars
<1> QED
  BY <1>3, <1>4, <1>6, <1>7, <1>8 DEF Next

\* RideHasEnd for every bound: the sender of an ask is parked with its answer,
\* that of an upgrade when its call comes back.
THEOREM RideCanEnd == Spec => []RideHasEnd
<1> DEFINE Inv == TypeOK /\ OkHasEnd /\ RideHasEnd
<1>1. Init => Inv
  BY InitTyped DEF Init, OkHasEnd, RideHasEnd
<1>2. Inv /\ [Next]_vars => Inv'
  BY NextTyped, OkHasEndKept, RideHasEndKept
<1>3. Inv => RideHasEnd
  OBVIOUS
<1> QED
  BY <1>1, <1>2, <1>3, PTL DEF Spec

-----------------------------------------------------------------------------
(* What the phone is told *)

\* Once misled, always misled.
LEMMA MisledStays ==
  ASSUME [Next]_vars
  PROVE  /\ abandoned \subseteq abandoned'
         /\ \A a \in Ask : Misled(a) => Misled(a)'
<1>1. abandoned \subseteq abandoned'
  <2>1. CASE Hold
    BY <2>1 DEF Hold, Resolves, Dials, Greets, TakesUpgrade, Upgrades, UpgradeFails, ReadsAsk,
       ParksToken,
       AnswerArrives, AnswerExpires, Reports27, IgnoresPush, RideEnds, HangsUp, Redials, SeesStop, Aborts, TaskEnds,
       Leaves, KeepsHolding, GivesUpAsk
  <2> QED
    BY <2>1 DEF Next, App, TakesRequest, ConnectReturns, ReportsResult, ReportsEnd, AsksUpgrade,
       SendsRequest, GotToken, StoresEnd, FallsBack, OnlyApp, Stops, PhoneAsks, PhoneCloses, vars,
       holdVars
<1> QED
  BY <1>1 DEF Misled

\* What the hold does, the parking of a token aside.
LEMMA HoldQuiet ==
  ASSUME Hold, ~ParksToken
  PROVE  /\ UNCHANGED <<answerSlot, answer, parked, app, mine, outcome, asks>>
         /\ push' \in {push, None}
         /\ hold' = "asked" => \/ hold = "asked" /\ ride' = ride
                               \/ push # None /\ ride' = push
         /\ hold = "asking" => \/ hold' = "asking" /\ ride' = ride
                               \/ ride \in abandoned'
                               \/ answer[ride] # "none"
<1>1. UNCHANGED <<answerSlot, answer, parked, app, mine, outcome, asks>>
  BY DEF Hold, Resolves, Dials, Greets, TakesUpgrade, Upgrades, UpgradeFails, ReadsAsk,
     AnswerArrives,
     AnswerExpires, Reports27, IgnoresPush, RideEnds, HangsUp, Redials, SeesStop, Aborts, TaskEnds, Leaves,
     KeepsHolding, OnlyHold, slotVars, appVars
<1>2. push' \in {push, None}
  BY DEF Hold, Resolves, Dials, Greets, TakesUpgrade, Upgrades, UpgradeFails, ReadsAsk,
     AnswerArrives,
     AnswerExpires, Reports27, IgnoresPush, RideEnds, HangsUp, Redials, SeesStop, Aborts, TaskEnds, Leaves,
     KeepsHolding, wireVars
<1>3. hold' = "asked" => \/ hold = "asked" /\ ride' = ride
                         \/ push # None /\ ride' = push
  BY DEF Hold, Resolves, Dials, Greets, TakesUpgrade, Upgrades, UpgradeFails, ReadsAsk,
     AnswerArrives,
     AnswerExpires, Reports27, IgnoresPush, RideEnds, HangsUp, Redials, SeesStop, Aborts, TaskEnds, Leaves,
     KeepsHolding
<1>4. hold = "asking" => \/ hold' = "asking" /\ ride' = ride
                         \/ ride \in abandoned'
                         \/ answer[ride] # "none"
  BY DEF Hold, Resolves, Dials, Greets, TakesUpgrade, Upgrades, UpgradeFails, ReadsAsk,
     AnswerArrives,
     AnswerExpires, Reports27, IgnoresPush, RideEnds, HangsUp, Redials, SeesStop, Aborts, TaskEnds, Leaves,
     KeepsHolding, GivesUpAsk
<1> QED
  BY <1>1, <1>2, <1>3, <1>4

\* What is made of asks is made of those that came before a fresh one.
LEMMA FreshKept ==
  ASSUME TypeOK, [Next]_vars, ~ParksToken, NEW a \in Nat, Fresh(a)
  PROVE  Fresh(a)'
<1> USE DEF Fresh
<1>1. CASE UNCHANGED <<answerSlot, parked, answer>> /\ mine' \in {mine, None}
  BY <1>1, Rides
<1>2. CASE TakesRequest
  BY <1>2, Rides DEF TakesRequest, TypeOK, None
<1>3. CASE ReportsResult
  <2>1. answerSlot' = None /\ parked' = parked /\ mine' \in {mine, None}
    BY <1>3 DEF ReportsResult
  <2>2. CASE answerSlot = None
    BY <1>1, <1>3, <2>1, <2>2 DEF ReportsResult
  <2>3. CASE answerSlot # None
    <3>1. answer' = [answer EXCEPT ![answerSlot] = outcome[mine]] /\ answerSlot \in Ask
      BY <1>3, <2>3 DEF ReportsResult, TypeOK
    <3>2. \A b \in Ask : answer'[b] # "none" => b = answerSlot \/ answer[b] # "none"
      BY <3>1 DEF TypeOK
    <3>3. None < a
      BY <2>3, <3>1, Rides DEF None
    <3> QED
      BY <2>1, <3>2, <3>3, Rides
  <2> QED
    BY <2>2, <2>3
<1>4. CASE AsksUpgrade
  <2>1. mine' = MaxAsk + ups + 1 /\ mine' \notin Ask
    BY <1>4, AskAssumption, UpgradeAssumption DEF AsksUpgrade, Ask, TypeOK
  <2> QED
    BY <1>4, <2>1 DEF AsksUpgrade, slotVars
<1>5. CASE Hold
  BY <1>1, <1>5, HoldQuiet
<1>6. CASE App /\ ~TakesRequest /\ ~ReportsResult /\ ~AsksUpgrade
  BY <1>1, <1>6 DEF App, TakesRequest, ConnectReturns, ReportsResult, ReportsEnd, AsksUpgrade,
     SendsRequest, GotToken, StoresEnd, FallsBack, ParksEnd, slotVars
<1>7. CASE Stops \/ PhoneAsks \/ PhoneCloses \/ UNCHANGED vars
  BY <1>1, <1>7 DEF Stops, PhoneAsks, PhoneCloses, vars, slotVars, appVars
<1> QED
  BY <1>2, <1>3, <1>4, <1>5, <1>6, <1>7 DEF Next

LEMMA AskOrderKept ==
  ASSUME TypeOK, AskOrder, [Next]_vars
  PROVE  AskOrder'
<1> USE Rides, AskAssumption
<1>1. asks \in Nat /\ (\A a \in Ask : a \in Nat)
  BY DEF TypeOK
<1>2. CASE ParksToken
  <2>1. ride \in Ask /\ ride <= asks /\ Fresh(ride)
    BY <1>2 DEF ParksToken, AskOrder, TypeOK
  <2>2. /\ answerSlot' = ride /\ parked' = ride /\ push' = None /\ hold' = "asking"
        /\ UNCHANGED <<asks, mine, answer>>
    BY <1>2 DEF ParksToken, OnlyHold, appVars
  <2> QED
    BY <1>1, <2>1, <2>2 DEF AskOrder, Fresh
<1>3. CASE ~ParksToken
  <2>1. \A a \in Ask : Fresh(a) => Fresh(a)'
    BY <1>1, <1>3, FreshKept
  <2>2. CASE PhoneAsks
    <3>1. /\ asks' = asks + 1 /\ push' = asks + 1 /\ push' \in Ask
          /\ UNCHANGED <<hold, ride, answerSlot, parked, mine, answer>>
      BY <1>1, <2>2 DEF PhoneAsks, Ask, holdVars, slotVars, appVars
    <3>2. Fresh(push)'
      BY <1>1, <3>1 DEF AskOrder, Fresh
    <3> QED
      BY <1>1, <3>1, <3>2 DEF AskOrder, Fresh, TypeOK
  <2>3. CASE ~PhoneAsks
    <3>1. asks' = asks /\ push' \in {push, None}
      BY <1>3, <2>3, HoldQuiet DEF Next, App, TakesRequest, ConnectReturns, ReportsResult,
         ReportsEnd, AsksUpgrade, SendsRequest, GotToken, StoresEnd, FallsBack, OnlyApp, Stops,
         PhoneCloses, vars, wireVars
    <3>2. hold' = "asked" => \/ hold = "asked" /\ ride' = ride
                             \/ push # None /\ ride' = push
      BY <1>3, <2>3, HoldQuiet DEF Next, App, TakesRequest, ConnectReturns, ReportsResult,
         ReportsEnd, AsksUpgrade, SendsRequest, GotToken, StoresEnd, FallsBack, OnlyApp, Stops,
         PhoneCloses, vars, holdVars
    <3>3. \A a \in Ask : a > asks' => Fresh(a)'
      BY <2>1, <3>1 DEF AskOrder
    <3>4. push # None => push \in Ask /\ push <= asks /\ Fresh(push)
      BY DEF AskOrder, TypeOK
    <3>5. hold = "asked" => ride \in Ask /\ ride <= asks /\ Fresh(ride)
      BY DEF AskOrder, TypeOK
    <3>6. push' # None => push' <= asks' /\ Fresh(push)'
      BY <2>1, <3>1, <3>4 DEF Fresh
    <3>7. hold' = "asked" => ride' <= asks' /\ Fresh(ride)'
      BY <2>1, <3>1, <3>2, <3>4, <3>5 DEF Fresh
    <3> QED
      BY <3>3, <3>6, <3>7 DEF AskOrder, Fresh
  <2> QED
    BY <2>2, <2>3
<1> QED
  BY <1>2, <1>3

\* The hold leaves an ask it waits for only by giving it up.
LEMMA HoldAttends ==
  ASSUME TypeOK, Hold, ~ParksToken, NEW a \in Ask, Misled(a) \/ Open(a)
  PROVE  Misled(a)' \/ Open(a)'
<1>1. CASE Misled(a)
  BY <1>1, MisledStays DEF Next
<1>2. CASE Open(a)
  <2>1. CASE ride \in abandoned'
    BY <1>2, <2>1, Rides DEF Open, Misled
  <2>2. CASE ride \notin abandoned'
    BY <1>2, <2>2, HoldQuiet DEF Open
  <2> QED
    BY <2>1, <2>2
<1> QED
  BY <1>1, <1>2

LEMMA OneAtATimeKept ==
  ASSUME TypeOK, AskOrder, OneAtATime, [Next]_vars
  PROVE  OneAtATime'
<1> USE Rides
<1>1. \A a \in Ask : Misled(a) => Misled(a)'
  BY MisledStays
<1>2. CASE UNCHANGED <<hold, ride, abandoned, answer, answerSlot, parked, mine>>
           /\ (Working' => Working)
  BY <1>2 DEF OneAtATime, Open, Misled, Working
<1>3. CASE Hold /\ ~ParksToken
  <2>1. UNCHANGED <<answerSlot, answer, parked, app, mine>>
    BY <1>3, HoldQuiet
  <2>2. parked # None => Misled(parked)' \/ Open(parked)'
    BY <1>3, <2>1, HoldAttends DEF OneAtATime, TypeOK, Open, Misled
  <2>3. Working => Misled(mine)' \/ Open(mine)'
    BY <1>3, <2>1, HoldAttends DEF OneAtATime, Working, Open, Misled
  <2> QED
    BY <2>1, <2>2, <2>3 DEF OneAtATime, Working
<1>4. CASE ParksToken
  <2>1. /\ ride \in Ask /\ Fresh(ride) /\ answer[ride] = "none"
    BY <1>4 DEF ParksToken, AskOrder, Fresh, TypeOK
  <2>2. /\ hold' = "asking" /\ ride' = ride /\ answerSlot' = ride /\ parked' = ride
        /\ UNCHANGED <<answer, mine, app, abandoned>>
    BY <1>4 DEF ParksToken, OnlyHold, appVars
  <2>3. Open(parked)'
    BY <2>1, <2>2 DEF Open
  <2>4. Working => Misled(mine)
    BY <1>4 DEF ParksToken, OneAtATime, Open
  <2>5. Working' => Misled(mine)' /\ mine' < ride
    BY <2>1, <2>2, <2>4 DEF Working, Misled, Fresh
  <2>6. Working' => mine' <= ride
    <3>1. mine' \in Ask => mine' \in Nat /\ ride \in Nat
      BY <2>1
    <3> QED
      BY <2>5, <3>1 DEF Working
  <2>7. answer'[answerSlot'] = "none"
    BY <2>1, <2>2
  <2> QED
    BY <2>2, <2>3, <2>5, <2>6, <2>7 DEF OneAtATime
<1>5. CASE TakesRequest
  <2>1. /\ parked # None /\ mine' = parked /\ parked' = None
        /\ UNCHANGED <<hold, ride, abandoned, answer, answerSlot>>
    BY <1>5 DEF TakesRequest, OnlyApp, holdVars
  <2>2. Misled(mine)' \/ Open(mine)'
    BY <2>1 DEF OneAtATime, Open, Misled
  <2> QED
    BY <2>1, <2>2 DEF OneAtATime, TypeOK
<1>6. CASE ReportsResult
  <2>1. /\ Working \/ mine \notin Ask
        /\ ~Working'
        /\ answerSlot' = None
        /\ UNCHANGED <<hold, ride, abandoned, parked>>
    BY <1>6 DEF ReportsResult, Working, OnlyApp, holdVars
  <2>2. Working
    BY <1>6 DEF ReportsResult, Working, TypeOK
  <2>3. parked # None => Misled(parked)
    <3>1. SUFFICES ASSUME parked # None, ~Misled(parked)
                   PROVE  FALSE
      OBVIOUS
    <3>2. Open(parked) /\ mine < parked
      BY <2>2, <3>1 DEF OneAtATime
    <3>3. ~Open(mine)
      BY <3>2, <2>2 DEF Open, TypeOK, Working
    <3>4. Misled(mine) /\ mine \in Ask /\ parked \in Ask
      BY <2>2, <3>1, <3>3 DEF OneAtATime, Working, TypeOK
    <3> QED
      BY <3>1, <3>2, <3>4 DEF Misled, TypeOK
  <2> QED
    BY <2>1, <2>3 DEF OneAtATime, Misled
<1>7. CASE AsksUpgrade
  BY <1>7 DEF AsksUpgrade, OneAtATime, Working, Open, Misled, OnlyApp, holdVars, slotVars
<1>8. CASE StoresEnd
  BY <1>8 DEF StoresEnd, OneAtATime, Working, Open, Misled, OnlyApp, holdVars, TypeOK
<1>9. CASE ReportsEnd
  BY <1>9 DEF ReportsEnd, OneAtATime, Working, Open, Misled, OnlyApp, holdVars
<1>10. CASE FallsBack
  BY <1>10 DEF FallsBack, OneAtATime, Working, Open, Misled, holdVars
<1>11. CASE (\E result \in {"ok", "failed"} : ConnectReturns(result)) \/ SendsRequest \/ GotToken
            \/ Stops \/ PhoneAsks \/ PhoneCloses \/ UNCHANGED vars
  <2>1. UNCHANGED <<hold, ride, abandoned, answer, answerSlot, parked>>
    BY <1>11 DEF ConnectReturns, SendsRequest, GotToken, Stops, PhoneAsks, PhoneCloses, vars,
                 OnlyApp, holdVars, slotVars
  <2>2. mine' = mine /\ (Working' => Working)
    BY <1>11 DEF ConnectReturns, SendsRequest, GotToken, Stops, PhoneAsks, PhoneCloses, vars,
                 Working, appVars
  <2> QED
    BY <2>1, <2>2, <1>2
<1> QED
  BY <1>3, <1>4, <1>5, <1>6, <1>7, <1>8, <1>9, <1>10, <1>11 DEF Next, App

LEMMA AnswersMatchKept ==
  ASSUME TypeOK, OneAtATime, AnswersMatch, [Next]_vars
  PROVE  AnswersMatch'
<1> USE Rides
<1>1. \A a \in Ask : Misled(a) => Misled(a)'
  BY MisledStays
<1>2. CASE UNCHANGED <<answer, outcome, told>>
  BY <1>1, <1>2 DEF AnswersMatch
<1>3. CASE Reports27
  <2>1. /\ told' = [told EXCEPT ![ride] = answer[ride]] /\ ride \in Ask
        /\ UNCHANGED <<answer, outcome>>
    BY <1>3 DEF Reports27, OnlyHold, slotVars, appVars, TypeOK
  <2> QED
    BY <1>1, <2>1 DEF AnswersMatch, TypeOK
<1>4. CASE Hold /\ ~Reports27
  <2>1. told' = told
    BY <1>4 DEF Hold, Resolves, Dials, Greets, TakesUpgrade, Upgrades, UpgradeFails, ReadsAsk,
       ParksToken,
       AnswerArrives, AnswerExpires, IgnoresPush, RideEnds, HangsUp, Redials, SeesStop, Aborts, TaskEnds, Leaves,
       KeepsHolding
  <2>2. UNCHANGED <<answer, outcome>>
    BY <1>4, HoldSenders
  <2> QED
    BY <1>2, <2>1, <2>2
<1>5. ASSUME NEW result \in {"ok", "failed"}, ConnectReturns(result)
      PROVE  AnswersMatch'
  <2>1. UNCHANGED <<answer, told, abandoned>>
    BY <1>5 DEF ConnectReturns, OnlyApp, holdVars, slotVars
  <2>2. CASE mine \in Ask
    <3>1. outcome' = [outcome EXCEPT ![mine] = result]
      BY <1>5, <2>2 DEF ConnectReturns
    <3>2. Working
      BY <1>5, <2>2 DEF ConnectReturns, Working
    <3>3. Misled(mine) \/ answer[mine] = "none"
      BY <3>2 DEF OneAtATime, Open
    <3> QED
      BY <1>1, <2>1, <2>2, <3>1, <3>3 DEF AnswersMatch, TypeOK, Misled
  <2>3. CASE mine \notin Ask
    BY <1>2, <1>5, <2>1, <2>3 DEF ConnectReturns
  <2> QED
    BY <2>2, <2>3
<1>6. CASE ReportsResult
  <2>1. UNCHANGED <<told, outcome, abandoned>>
    BY <1>6 DEF ReportsResult, OnlyApp, holdVars
  <2>2. CASE answerSlot = None
    BY <1>2, <1>6, <2>1, <2>2 DEF ReportsResult
  <2>3. CASE answerSlot # None
    <3>1. answer' = [answer EXCEPT ![answerSlot] = outcome[mine]] /\ answerSlot \in Ask
      BY <1>6, <2>3 DEF ReportsResult, TypeOK
    <3>2. Working
      BY <1>6 DEF ReportsResult, Working, TypeOK
    <3>3. mine = answerSlot \/ Misled(answerSlot)
      <4>1. CASE Open(mine)
        BY <4>1 DEF Open
      <4>2. CASE Misled(mine)
        BY <2>3, <3>1, <3>2, <4>2 DEF OneAtATime, Misled, Working, TypeOK
      <4> QED
        BY <3>2, <4>1, <4>2 DEF OneAtATime
    <3>4. answer[answerSlot] = "none"
      BY <2>3 DEF OneAtATime
    <3>5. SUFFICES ASSUME NEW a \in Ask
                   PROVE  /\ answer'[a] # "none" => answer'[a] = outcome[a] \/ Misled(a)
                          /\ told[a] # "none" => told[a] = answer'[a] \/ Misled(a)
      BY <1>1, <2>1 DEF AnswersMatch, Misled
    <3>6. CASE a = answerSlot
      BY <3>1, <3>3, <3>4, <3>6 DEF AnswersMatch, TypeOK
    <3>7. CASE a # answerSlot
      BY <3>1, <3>7 DEF AnswersMatch, TypeOK
    <3> QED
      BY <3>6, <3>7
  <2> QED
    BY <2>2, <2>3
<1>7. CASE TakesRequest \/ ReportsEnd \/ AsksUpgrade \/ SendsRequest \/ GotToken \/ StoresEnd
           \/ FallsBack \/ Stops \/ PhoneAsks \/ PhoneCloses \/ UNCHANGED vars
  <2>1. UNCHANGED <<answer, outcome, told>>
    BY <1>7 DEF TakesRequest, ReportsEnd, AsksUpgrade, SendsRequest, GotToken, StoresEnd,
                FallsBack, Stops, PhoneAsks, PhoneCloses, vars, OnlyApp, holdVars, slotVars,
                appVars
  <2> QED
    BY <1>2, <2>1
<1> QED
  BY <1>3, <1>4, <1>5, <1>6, <1>7 DEF Next, App

\* AnswersOwn for every bound: an ask that presence never stopped waiting for is
\* answered by its own session, however late and in whatever order.
THEOREM AskToldItsOutcome == Spec => []AnswersOwn
<1> DEFINE Inv == TypeOK /\ AskOrder /\ OneAtATime /\ AnswersMatch
<1>1. Init => Inv
  <2>1. ASSUME Init
        PROVE  AskOrder /\ OneAtATime /\ AnswersMatch
    BY <2>1, Rides, AskAssumption
       DEF Init, AskOrder, Fresh, OneAtATime, Working, AnswersMatch, None, Ask
  <2> QED
    BY <2>1, InitTyped
<1>2. Inv /\ [Next]_vars => Inv'
  BY NextTyped, AskOrderKept, OneAtATimeKept, AnswersMatchKept
<1>3. Inv => AnswersOwn
  BY DEF AnswersMatch, AnswersOwn
<1> QED
  BY <1>1, <1>2, <1>3, PTL DEF Spec
=============================================================================
