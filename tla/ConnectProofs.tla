--------------------------- MODULE ConnectProofs ---------------------------
(***************************************************************************)
(* What Connect promises for any number of connects, cancels and pairings: *)
(* its types, that announcements are bounded by the connect or session     *)
(* they belong to, that a cancel ends no later connect, and that a wired   *)
(* session keeps its forwards.                                             *)
(***************************************************************************)
EXTENDS Connect, TLAPS

\* What is left of a wired connect, and of it once each forward is there.
With10381 ==
  { <<"launch", "version", "probe", "ws">>, <<"version", "probe", "ws">>, <<"probe", "ws">>,
    <<"ws">> }
With10380 == With10381 \cup { <<"10381", "launch", "version", "probe", "ws">> }
UsbRest ==
  With10380 \cup
  { <<"devices", "10380", "10381", "launch", "version", "probe", "ws">>,
    <<"10380", "10381", "launch", "version", "probe", "ws">> }

\* What is left of the others.
OtherRest ==
  { <<"seed", "announce", "greet", "confirm", "ws">>, <<"announce", "greet", "confirm", "ws">>,
    <<"greet", "confirm", "ws">>, <<"confirm", "ws">>, <<"probe", "ws">>, <<"ws">> }

\* A connect that is in flight has phases left.
Rests ==
  \A n \in Attempt :
    /\ Busy(n) /\ kind[n] = "usb" => todo[n] \in UsbRest
    /\ Busy(n) /\ kind[n] # "usb" => todo[n] \in OtherRest

\* One connect after the other, each after the session of the last was let go.
Orderly ==
  \A m, n \in Attempt :
    m < n /\ result[n] # "none" =>
      /\ result[m] \notin {"none", "busy"}
      /\ drained => sess[m] \in {"none", "gone"}

\* A session is that of a connect that succeeded, and removes as it is dropped.
Sessions ==
  \A n \in Attempt :
    /\ sess[n] # "none" => result[n] = "ok"
    /\ remove[n] # <<>> => sess[n] = "dropping"
    /\ clip[n] => sess[n] # "none"

\* The forwards of a wired connect in flight are there as far as it got.
Stands ==
  drained =>
    \A n \in Attempt :
      Busy(n) /\ kind[n] = "usb" =>
        /\ todo[n] \in With10380 => "10380" \in forwards
        /\ todo[n] \in With10381 => "10381" \in forwards

IInv == TypeOK /\ Rests /\ Orderly /\ Sessions /\ Stands /\ ForwardsStand

\* Connects and sessions.
Own(n) ==
  \/ Connects(n) \/ Proceeds(n) \/ Fails(n) \/ Cancelled(n)
  \/ EnablesClipboard(n) \/ Releases(n) \/ Drops(n) \/ Removes(n) \/ Dropped(n)

connectVars == <<drained, connVars, beacon, sessVars, adbVars>>

-----------------------------------------------------------------------------
(* Phases *)

LEMMA Attempts == Attempt \subseteq Nat \ {0} /\ Pair \subseteq Nat \ {0}
BY AttemptAssumption, PairAssumption DEF Attempt, Pair

\* The shorter of them, taken apart.
LEMMA Parts ==
  /\ Head(<<"seed", "announce", "greet", "confirm", "ws">>) = "seed"
  /\ Tail(<<"seed", "announce", "greet", "confirm", "ws">>) =
       <<"announce", "greet", "confirm", "ws">>
  /\ Head(<<"announce", "greet", "confirm", "ws">>) = "announce"
  /\ Tail(<<"announce", "greet", "confirm", "ws">>) = <<"greet", "confirm", "ws">>
  /\ Head(<<"greet", "confirm", "ws">>) = "greet"
  /\ Tail(<<"greet", "confirm", "ws">>) = <<"confirm", "ws">>
  /\ Head(<<"confirm", "ws">>) = "confirm"
  /\ Tail(<<"confirm", "ws">>) = <<"ws">>
  /\ Head(<<"launch", "version", "probe", "ws">>) = "launch"
  /\ Tail(<<"launch", "version", "probe", "ws">>) = <<"version", "probe", "ws">>
  /\ Head(<<"version", "probe", "ws">>) = "version"
  /\ Tail(<<"version", "probe", "ws">>) = <<"probe", "ws">>
  /\ Head(<<"probe", "ws">>) = "probe"
  /\ Tail(<<"probe", "ws">>) = <<"ws">>
  /\ Head(<<"ws">>) = "ws"
  /\ Tail(<<"ws">>) = <<>>
OBVIOUS

LEMMA UsbStep ==
  ASSUME NEW t \in UsbRest
  PROVE  /\ Tail(t) \in UsbRest \cup {<<>>}
         /\ Head(t) = "ws" <=> Tail(t) = <<>>
         /\ Tail(t) \in With10380 => t \in With10380 \/ Head(t) = "10380"
         /\ Tail(t) \in With10381 => t \in With10381 \/ Head(t) = "10381"
         /\ Head(t) = "ws" => t \in With10381
         /\ Head(t) \in BestEffort \cup Fatal
<1>1. CASE t = <<"devices", "10380", "10381", "launch", "version", "probe", "ws">>
  <2>1. /\ Tail(t) = <<"10380", "10381", "launch", "version", "probe", "ws">>
        /\ Head(t) = "devices"
    BY <1>1
  <2> QED
    BY <2>1 DEF UsbRest, With10380, With10381, Fatal
<1>2. CASE t = <<"10380", "10381", "launch", "version", "probe", "ws">>
  <2>1. Tail(t) = <<"10381", "launch", "version", "probe", "ws">> /\ Head(t) = "10380"
    BY <1>2
  <2> QED
    BY <2>1 DEF UsbRest, With10380, With10381, Fatal, Port
<1>3. CASE t = <<"10381", "launch", "version", "probe", "ws">>
  <2>1. Tail(t) = <<"launch", "version", "probe", "ws">> /\ Head(t) = "10381"
    BY <1>3
  <2> QED
    BY <1>3, <2>1 DEF UsbRest, With10380, With10381, Fatal, Port
<1>4. CASE t \in With10381
  <2>1. /\ Tail(t) \in With10381 \cup {<<>>}
        /\ Head(t) \in {"launch", "version", "probe", "ws"}
        /\ Head(t) = "ws" <=> Tail(t) = <<>>
    <3>1. CASE t = <<"launch", "version", "probe", "ws">>
      BY <3>1, Parts DEF With10381
    <3>2. CASE t = <<"version", "probe", "ws">>
      BY <3>2, Parts DEF With10381
    <3>3. CASE t = <<"probe", "ws">>
      BY <3>3, Parts DEF With10381
    <3>4. CASE t = <<"ws">>
      BY <3>4, Parts DEF With10381
    <3> QED
      BY <1>4, <3>1, <3>2, <3>3, <3>4 DEF With10381
  <2> QED
    BY <1>4, <2>1 DEF UsbRest, With10380, Fatal, BestEffort, With10381
<1> QED
  BY <1>1, <1>2, <1>3, <1>4 DEF UsbRest, With10380

LEMMA OtherStep ==
  ASSUME NEW t \in OtherRest
  PROVE  /\ Tail(t) \in OtherRest \cup {<<>>}
         /\ Head(t) = "ws" <=> Tail(t) = <<>>
         /\ Head(t) \in BestEffort \cup Fatal
<1>1. /\ Tail(t) \in OtherRest \cup {<<>>}
      /\ Head(t) \in {"seed", "announce", "greet", "confirm", "probe", "ws"}
      /\ Head(t) = "ws" <=> Tail(t) = <<>>
  <2>1. CASE t = <<"seed", "announce", "greet", "confirm", "ws">>
    BY <2>1, Parts DEF OtherRest
  <2>2. CASE t = <<"announce", "greet", "confirm", "ws">>
    BY <2>2, Parts DEF OtherRest
  <2>3. CASE t = <<"greet", "confirm", "ws">>
    BY <2>3, Parts DEF OtherRest
  <2>4. CASE t = <<"confirm", "ws">>
    BY <2>4, Parts DEF OtherRest
  <2>5. CASE t = <<"probe", "ws">>
    BY <2>5, Parts DEF OtherRest
  <2>6. CASE t = <<"ws">>
    BY <2>6, Parts DEF OtherRest
  <2> QED
    BY <2>1, <2>2, <2>3, <2>4, <2>5, <2>6 DEF OtherRest
<1> QED
  BY <1>1 DEF BestEffort, Fatal, Exchanges

LEMMA Starts ==
  /\ Phases["usb"] \in UsbRest \ With10380
  /\ With10381 \subseteq With10380
  /\ \A k \in {"lan", "token", "paired"} : Phases[k] \in OtherRest
  /\ \A k \in Kind : Phases[k] \in Seq(BestEffort \cup Fatal)
<1>1. Phases["usb"] = <<"devices", "10380", "10381", "launch", "version", "probe", "ws">>
  BY DEF Phases
<1>2. Phases["lan"] = <<"seed", "announce", "greet", "confirm", "ws">>
  BY DEF Phases
<1>3. Phases["token"] = <<"probe", "ws">> /\ Phases["paired"] = <<"ws">>
  BY DEF Phases
<1>4. Phases["usb"] \in UsbRest \ With10380
  BY <1>1 DEF UsbRest, With10380, With10381
<1>5. \A k \in {"lan", "token", "paired"} : Phases[k] \in OtherRest
  BY <1>2, <1>3 DEF OtherRest
<1>6. {"seed", "announce", "greet", "confirm", "ws", "probe", "devices", "10380", "10381",
        "launch", "version"} \subseteq BestEffort \cup Fatal
  BY DEF BestEffort, Fatal, Exchanges, Port
<1>7. \A k \in Kind : Phases[k] \in Seq(BestEffort \cup Fatal)
  <2> DEFINE S == BestEffort \cup Fatal
  <2> HIDE DEF S
  <2>1. Phases["usb"] \in Seq(S)
    BY <1>1, <1>6 DEF S
  <2>2. Phases["lan"] \in Seq(S)
    BY <1>2, <1>6 DEF S
  <2>3. Phases["token"] \in Seq(S) /\ Phases["paired"] \in Seq(S)
    BY <1>3, <1>6 DEF S
  <2> QED
    BY <2>1, <2>2, <2>3 DEF S, Kind
<1> QED
  BY <1>4, <1>5, <1>7 DEF With10380

-----------------------------------------------------------------------------
(* Types *)

LEMMA NotDone ==
  ASSUME TypeOK, Rests, NEW n \in Attempt, Busy(n)
  PROVE  /\ todo[n] \in UsbRest \cup OtherRest
         /\ todo[n] # <<>>
         /\ Head(todo[n]) \in BestEffort \cup Fatal
         /\ Tail(todo[n]) \in Seq(BestEffort \cup Fatal)
<1>1. todo[n] \in UsbRest \cup OtherRest
  BY DEF Rests
<1>2. todo[n] # <<>>
  <2>1. <<>> \notin UsbRest
    BY DEF UsbRest, With10380, With10381
  <2>2. <<>> \notin OtherRest
    BY DEF OtherRest
  <2> QED
    BY <1>1, <2>1, <2>2
<1>3. todo[n] \in Seq(BestEffort \cup Fatal)
  BY DEF TypeOK
<1> QED
  BY <1>1, <1>2, <1>3, UsbStep, OtherStep

\* The steps of a connect and of its session.
LEMMA OwnTyped ==
  ASSUME TypeOK, Rests, NEW n \in Attempt, Own(n)
  PROVE  TypeOK'
<1> USE Attempts
<1>1. CASE Connects(n)
  <2>1. PICK k \in Kind : Begins(n, k)
    BY <1>1 DEF Connects
  <2>2. todo' \in [Attempt -> Seq(BestEffort \cup Fatal)]
    BY <2>1, Starts DEF Begins, TypeOK
  <2> QED
    BY <2>1, <2>2 DEF Begins, TypeOK, sessVars, adbVars, mcastVars, pairVars
<1>2. CASE Proceeds(n)
  <2>1. Busy(n)
    BY <1>2 DEF Proceeds
  <2>2. todo' \in [Attempt -> Seq(BestEffort \cup Fatal)]
    BY <1>2, <2>1, NotDone DEF Proceeds, TypeOK
  <2>3. /\ result' \in [Attempt -> {"none", "busy", "ok", "failed", "cancelled"}]
        /\ sess' \in [Attempt -> {"none", "live", "released", "dropping", "gone"}]
    BY <1>2 DEF Proceeds, ComesUp, TypeOK
  <2>4. beacon' \in [Attempt -> BOOLEAN] /\ forwards' \subseteq Port
    BY <1>2 DEF Proceeds, Announces, TypeOK
  <2> QED
    BY <1>2, <2>2, <2>3, <2>4 DEF Proceeds, TypeOK, mcastVars, pairVars
<1>3. CASE Fails(n) \/ Cancelled(n)
  <2>1. [todo EXCEPT ![n] = <<>>] \in [Attempt -> Seq(BestEffort \cup Fatal)]
    BY DEF TypeOK
  <2>2. CASE Fails(n)
    BY <2>1, <2>2 DEF Fails, LetsGo, TypeOK, sessVars, adbVars, mcastVars, pairVars
  <2>3. CASE Cancelled(n)
    BY <2>1, <2>3 DEF Cancelled, LetsGo, TypeOK, sessVars, mcastVars, pairVars
  <2> QED
    BY <1>3, <2>2, <2>3
<1>4. CASE EnablesClipboard(n)
  BY <1>4 DEF EnablesClipboard, TypeOK, connVars, mcastVars, pairVars, Port
<1>5. CASE Releases(n)
  BY <1>5 DEF Releases, TypeOK, connVars, adbVars, mcastVars, pairVars
<1>6. CASE Drops(n)
  <2>1. <<"clip", "10380", "10381">> \in Seq(Port) /\ <<>> \in Seq(Port)
    BY DEF Port
  <2>2. remove' \in [Attempt -> Seq(Port)]
    BY <1>6, <2>1 DEF Drops, TypeOK
  <2> QED
    BY <1>6, <2>2 DEF Drops, TypeOK, connVars, adbVars, mcastVars, pairVars
<1>7. CASE Removes(n)
  <2>1. remove' \in [Attempt -> Seq(Port)]
    BY <1>7 DEF Removes, TypeOK
  <2> QED
    BY <1>7, <2>1 DEF Removes, TypeOK, connVars, mcastVars, pairVars
<1>8. CASE Dropped(n)
  BY <1>8 DEF Dropped, LetsGo, TypeOK, connVars, adbVars, mcastVars, pairVars
<1> QED
  BY <1>1, <1>2, <1>3, <1>4, <1>5, <1>6, <1>7, <1>8 DEF Own

\* The multicast beacon and the pairings leave the connects alone.
Apart == McastStarts \/ McastStops \/ Pairing \/ (\E b \in mcast : McastFails(b))

LEMMA ApartTyped ==
  ASSUME TypeOK, Apart
  PROVE  TypeOK' /\ UNCHANGED connectVars
<1>1. CASE McastStarts \/ McastStops \/ (\E b \in mcast : McastFails(b))
  <2>1. UNCHANGED <<scene, pairVars>> /\ UNCHANGED connectVars
    BY <1>1 DEF McastStarts, McastStops, McastFails, OnlyMcast, connectVars, connVars, sessVars,
       adbVars
  <2>2. /\ mcast \subseteq 1 .. MaxPair /\ mslot \in 0 .. MaxPair /\ mstarts \in 0 .. MaxPair
    BY DEF TypeOK
  <2>3. CASE McastStarts
    <3>1. mstarts' \in 0 .. MaxPair /\ mstarts + 1 \in 1 .. MaxPair
      BY <2>2, <2>3, PairAssumption DEF McastStarts
    <3>2. mcast' \subseteq 1 .. MaxPair /\ mslot' \in 0 .. MaxPair
      BY <2>2, <2>3, <3>1 DEF McastStarts, TakesSlot
    <3> QED
      BY <2>1, <3>1, <3>2 DEF TypeOK, pairVars, connectVars, connVars, sessVars, adbVars
  <2>4. CASE McastStops \/ (\E b \in mcast : McastFails(b))
    <3>1. mcast' \subseteq 1 .. MaxPair /\ mslot' \in 0 .. MaxPair /\ mstarts' = mstarts
      <4>1. CASE McastStops
        BY <2>2, <4>1, PairAssumption DEF McastStops, None
      <4>2. ASSUME NEW b \in mcast, McastFails(b)
            PROVE  mcast' \subseteq mcast /\ UNCHANGED <<mslot, mstarts>>
        BY <4>2 DEF McastFails
      <4> QED
        BY <2>2, <2>4, <4>1, <4>2
    <3> QED
      BY <2>1, <3>1 DEF TypeOK, pairVars, connectVars, connVars, sessVars, adbVars
  <2> QED
    BY <1>1, <2>3, <2>4
<1>2. CASE Pairing
  <2>1. UNCHANGED <<scene, mcastVars>> /\ UNCHANGED connectVars
    BY <1>2 DEF Pairing, Shows, ScanLost, PairCancels, Binds, Gives, Ticks, StrayComes, StrayGoes,
       Notified, Scans, OnlyPair, connectVars, connVars, sessVars, adbVars
  <2>2. pairs' \in 0 .. MaxPair
    BY <1>2, PairAssumption DEF Pairing, Shows, ScanLost, PairCancels, Binds, Gives, Ticks,
       StrayComes, StrayGoes, Notified, Scans, TypeOK
  <2>3. /\ wait' \in [Pair -> {"idle", "top", "accept", "read", "paired", "failed"}]
        /\ pstop' \in [Pair -> BOOLEAN]
    BY <1>2 DEF Pairing, Shows, ScanLost, PairCancels, Binds, Gives, Ticks,
       StrayComes, StrayGoes, Notified, Scans, TypeOK
  <2>4. {port', scan', trusts'} \subseteq Pair \cup {None}
    BY <1>2 DEF Pairing, Shows, ScanLost, PairCancels, Binds, Gives, Ticks,
       StrayComes, StrayGoes, Notified, Scans, TypeOK
  <2> QED
    BY <2>1, <2>2, <2>3, <2>4 DEF TypeOK, mcastVars, connectVars, connVars, sessVars, adbVars
<1> QED
  BY <1>1, <1>2 DEF Apart

LEMMA RestTyped ==
  ASSUME TypeOK, Cancels \/ (\E f \in Port : OrphanAdds(f)) \/ UNCHANGED vars
  PROVE  TypeOK'
<1>1. CASE Cancels
  BY <1>1, CancelAssumption DEF Cancels, TypeOK, sessVars, adbVars, mcastVars, pairVars
<1>2. CASE \E f \in Port : OrphanAdds(f)
  BY <1>2 DEF OrphanAdds, TypeOK, connVars, sessVars, mcastVars, pairVars
<1>3. CASE UNCHANGED vars
  BY <1>3 DEF vars, TypeOK, connVars, sessVars, adbVars, mcastVars, pairVars
<1> QED
  BY <1>1, <1>2, <1>3

-----------------------------------------------------------------------------
(* The order of connects, and the forwards of a session *)

LEMMA NextCases ==
  ASSUME TypeOK, [Next]_vars
  PROVE  \/ \E n \in Attempt : Own(n)
         \/ /\ UNCHANGED <<drained, kind, todo, result, seen, beacon, sessVars>>
            /\ forwards \subseteq forwards'
            /\ gen <= gen'
            /\ TypeOK'
<1>0. gen \in Nat
  BY DEF TypeOK
<1>1. CASE Apart
  <2>1. TypeOK' /\ UNCHANGED connectVars
    BY <1>1, ApartTyped
  <2> QED
    BY <1>0, <2>1 DEF connectVars, connVars, adbVars
<1>2. CASE Cancels \/ (\E f \in Port : OrphanAdds(f)) \/ UNCHANGED vars
  <2>1. TypeOK'
    BY <1>2, RestTyped
  <2>2. CASE Cancels
    BY <1>0, <2>1, <2>2 DEF Cancels, adbVars
  <2>3. ASSUME NEW f \in Port, OrphanAdds(f)
        PROVE  /\ UNCHANGED <<drained, kind, todo, result, seen, gen, beacon, sessVars>>
               /\ forwards \subseteq forwards'
    BY <2>3 DEF OrphanAdds, connVars
  <2>4. CASE UNCHANGED vars
    BY <1>0, <2>1, <2>4 DEF vars, connVars, adbVars
  <2> QED
    BY <1>0, <1>2, <2>1, <2>2, <2>3, <2>4
<1> QED
  BY <1>1, <1>2 DEF Next, Own, Apart

\* An attempt steps by itself; only forwards are shared.
LEMMA OthersStay ==
  ASSUME TypeOK, NEW n \in Attempt, Own(n), NEW m \in Attempt, m # n
  PROVE  /\ kind'[m] = kind[m] /\ todo'[m] = todo[m] /\ result'[m] = result[m]
         /\ seen'[m] = seen[m] /\ beacon'[m] = beacon[m]
         /\ sess'[m] = sess[m] /\ remove'[m] = remove[m] /\ clip'[m] = clip[m]
BY DEF Own, Connects, Begins, Proceeds, ComesUp, Announces, Fails, Cancelled, LetsGo,
       EnablesClipboard, Releases, Drops, Removes, Dropped, connVars, sessVars, TypeOK

LEMMA RestsKept ==
  ASSUME TypeOK, Rests, NEW n \in Attempt, Own(n)
  PROVE  Rests'
<1>1. SUFFICES /\ Busy(n)' /\ kind'[n] = "usb" => todo'[n] \in UsbRest
               /\ Busy(n)' /\ kind'[n] # "usb" => todo'[n] \in OtherRest
  BY OthersStay DEF Rests, Busy
<1>2. CASE Connects(n)
  <2>1. PICK k \in Kind : Begins(n, k)
    BY <1>2 DEF Connects
  <2>2. kind'[n] = k /\ todo'[n] = Phases[k]
    BY <2>1 DEF Begins, TypeOK
  <2> QED
    BY <2>2, Starts DEF Kind
<1>3. CASE Proceeds(n)
  <2>1. /\ Busy(n) /\ kind'[n] = kind[n] /\ todo'[n] = Tail(todo[n])
        /\ result'[n] = IF Head(todo[n]) = "ws" THEN "ok" ELSE result[n]
    BY <1>3 DEF Proceeds, ComesUp, TypeOK
  <2> QED
    BY <2>1, UsbStep, OtherStep DEF Rests, Busy
<1>4. CASE Fails(n) \/ Cancelled(n)
  BY <1>4 DEF Fails, Cancelled, Busy, TypeOK
<1>5. CASE EnablesClipboard(n) \/ Releases(n) \/ Drops(n) \/ Removes(n) \/ Dropped(n)
  BY <1>5 DEF EnablesClipboard, Releases, Drops, Removes, Dropped, connVars, Rests, Busy
<1> QED
  BY <1>2, <1>3, <1>4, <1>5 DEF Own

LEMMA OrderlyKept ==
  ASSUME TypeOK, Orderly, Sessions, NEW n \in Attempt, Own(n)
  PROVE  Orderly'
<1> USE Attempts
<1>1. drained' = drained
  BY DEF Own, Connects, Begins, Proceeds, Fails, Cancelled, EnablesClipboard, Releases, Drops,
         Removes, Dropped
<1>2. SUFFICES ASSUME NEW l \in Attempt, NEW m \in Attempt, l < m, result'[m] # "none"
               PROVE  /\ result'[l] \notin {"none", "busy"}
                      /\ drained => sess'[l] \in {"none", "gone"}
  BY <1>1 DEF Orderly
<1>3. CASE Connects(n) /\ m = n
  <2>1. MayBegin(n) /\ l # n
    BY <1>2, <1>3 DEF Connects, Begins
  <2> QED
    BY <1>2, <1>3, <2>1, OthersStay DEF MayBegin
<1>4. CASE ~Connects(n) \/ m # n
  <2>1. result[m] # "none"
    BY <1>2, <1>4, OthersStay DEF Own, Proceeds, Fails, Cancelled, EnablesClipboard, Releases,
       Drops, Removes, Dropped, connVars, Busy, Sessions
  <2>2. result[l] \notin {"none", "busy"} /\ (drained => sess[l] \in {"none", "gone"})
    BY <1>2, <2>1 DEF Orderly
  <2>3. CASE l = n
    BY <2>2, <2>3 DEF Own, Connects, Begins, MayBegin, Proceeds, Fails, Cancelled, Busy,
       EnablesClipboard, Releases, Drops, Removes, Dropped, connVars, TypeOK
  <2>4. CASE l # n
    BY <2>2, <2>4, OthersStay
  <2> QED
    BY <2>3, <2>4
<1> QED
  BY <1>3, <1>4

LEMMA SessionsKept ==
  ASSUME TypeOK, Orderly, Sessions, NEW n \in Attempt, Own(n)
  PROVE  Sessions'
<1>1. SUFFICES /\ sess'[n] # "none" => result'[n] = "ok"
               /\ remove'[n] # <<>> => sess'[n] = "dropping"
               /\ clip'[n] => sess'[n] # "none"
  BY OthersStay DEF Sessions
<1>2. /\ sess[n] # "none" => result[n] = "ok"
      /\ remove[n] # <<>> => sess[n] = "dropping"
      /\ clip[n] => sess[n] # "none"
  BY DEF Sessions
<1>3. CASE Connects(n)
  BY <1>2, <1>3 DEF Connects, Begins, MayBegin, sessVars
<1>4. CASE Proceeds(n) \/ Fails(n) \/ Cancelled(n)
  BY <1>2, <1>4 DEF Proceeds, ComesUp, Fails, Cancelled, Busy, sessVars, TypeOK
<1>5. CASE EnablesClipboard(n) \/ Releases(n) \/ Drops(n)
  BY <1>2, <1>5 DEF EnablesClipboard, Releases, Drops, connVars, TypeOK
<1>6. CASE Removes(n) \/ Dropped(n)
  BY <1>2, <1>6 DEF Removes, Dropped, connVars, TypeOK
<1> QED
  BY <1>3, <1>4, <1>5, <1>6 DEF Own

\* A forward goes only with a session that is dropped, and while one is, an app
\* that waits has no other.
LEMMA ForwardsGo ==
  ASSUME TypeOK, Orderly, Sessions, drained, NEW n \in Attempt, Own(n),
         NEW f \in forwards, f \notin forwards'
  PROVE  \A m \in Attempt : ~Busy(m) /\ sess[m] # "live" /\ ~Busy(m)' /\ sess'[m] # "live"
<1> USE Attempts
<1>1. Removes(n)
  BY DEF Own, Connects, Begins, Proceeds, Fails, Cancelled, EnablesClipboard, Releases, Drops,
         Dropped, adbVars
<1>2. sess[n] = "dropping" /\ result[n] = "ok" /\ UNCHANGED <<result, sess>>
  BY <1>1 DEF Removes, Sessions, connVars
<1>3. SUFFICES ASSUME NEW m \in Attempt
               PROVE  ~Busy(m) /\ sess[m] # "live"
  BY <1>2 DEF Busy
<1>4. CASE m = n
  BY <1>2, <1>4 DEF Busy
<1>5. CASE m < n
  BY <1>2, <1>5 DEF Orderly, Busy
<1>6. CASE n < m
  <2>1. result[m] = "none"
    BY <1>2, <1>6 DEF Orderly
  <2> QED
    BY <2>1 DEF Sessions, Busy
<1> QED
  BY <1>4, <1>5, <1>6

LEMMA StandsKept ==
  ASSUME TypeOK, Rests, Orderly, Sessions, Stands, ForwardsStand, NEW n \in Attempt, Own(n)
  PROVE  Stands' /\ ForwardsStand'
<1> USE Attempts
<1>1. drained' = drained
  BY DEF Own, Connects, Begins, Proceeds, Fails, Cancelled, EnablesClipboard, Releases, Drops,
         Removes, Dropped
<1>2. SUFFICES ASSUME drained, NEW m \in Attempt, kind'[m] = "usb"
               PROVE  /\ Busy(m)' => /\ todo'[m] \in With10380 => "10380" \in forwards'
                                     /\ todo'[m] \in With10381 => "10381" \in forwards'
                      /\ sess'[m] = "live" => /\ {"10380", "10381"} \subseteq forwards'
                                              /\ clip'[m] => "clip" \in forwards'
  BY <1>1 DEF Stands, ForwardsStand
<1>3. CASE \E f \in forwards : f \notin forwards'
  BY <1>2, <1>3, ForwardsGo
<1>4. CASE forwards \subseteq forwards' /\ m # n
  <2>1. /\ kind[m] = "usb" /\ todo'[m] = todo[m] /\ sess'[m] = sess[m] /\ clip'[m] = clip[m]
        /\ Busy(m)' => Busy(m)
    BY <1>2, <1>4, OthersStay DEF Busy
  <2> QED
    BY <1>2, <1>4, <2>1 DEF Stands, ForwardsStand
<1>5. CASE forwards \subseteq forwards' /\ m = n
  <2>1. CASE Connects(n)
    <3>1. PICK k \in Kind : Begins(n, k)
      BY <2>1 DEF Connects
    <3>2. todo'[n] = Phases["usb"] /\ sess'[n] = sess[n]
      BY <1>2, <1>5, <3>1 DEF Begins, TypeOK, sessVars
    <3>3. sess[n] = "none"
      BY <3>1 DEF Begins, MayBegin, Sessions
    <3> QED
      BY <1>5, <3>2, <3>3, Starts
  <2>2. CASE Proceeds(n)
    <3>1. /\ Busy(n) /\ kind[n] = "usb" /\ todo'[n] = Tail(todo[n])
          /\ forwards' = forwards \cup ({Head(todo[n])} \cap Port)
          /\ sess'[n] = "live" => sess[n] = "live" \/ Head(todo[n]) = "ws"
          /\ clip' = clip
      BY <1>2, <1>5, <2>2 DEF Proceeds, ComesUp, TypeOK
    <3>2. todo[n] \in UsbRest /\ sess[n] = "none"
      BY <3>1 DEF Rests, Sessions, Busy
    <3>3. /\ todo[n] \in With10380 => "10380" \in forwards
          /\ todo[n] \in With10381 => "10381" \in forwards
      BY <1>2, <3>1 DEF Stands
    <3>4. {"10380", "10381"} \subseteq Port /\ ~clip[n]
      BY <3>2 DEF Port, Sessions
    <3> QED
      BY <1>5, <3>1, <3>2, <3>3, <3>4, UsbStep, Starts
  <2>3. CASE Fails(n) \/ Cancelled(n)
    <3>1. Busy(n) /\ result'[n] \in {"failed", "cancelled"} /\ sess' = sess
      BY <2>3 DEF Fails, Cancelled, sessVars, TypeOK
    <3> QED
      BY <1>5, <3>1 DEF Busy, Sessions
  <2>4. CASE EnablesClipboard(n)
    BY <1>2, <1>5, <2>4 DEF EnablesClipboard, connVars, Stands, ForwardsStand, Busy, TypeOK
  <2>5. CASE Releases(n) \/ Drops(n) \/ Dropped(n) \/ Removes(n)
    <3>1. UNCHANGED <<kind, todo, result, clip>> /\ (sess'[n] = "live" => sess[n] = "live")
      BY <2>5 DEF Releases, Drops, Dropped, Removes, connVars, TypeOK
    <3> QED
      BY <1>2, <1>5, <3>1 DEF Stands, ForwardsStand, Busy
  <2> QED
    BY <2>1, <2>2, <2>3, <2>4, <2>5 DEF Own
<1> QED
  BY <1>3, <1>4, <1>5

LEMMA Kept ==
  ASSUME IInv, [Next]_vars
  PROVE  IInv'
<1>1. CASE \E n \in Attempt : Own(n)
  BY <1>1, OwnTyped, RestsKept, OrderlyKept, SessionsKept, StandsKept DEF IInv
<1>2. CASE /\ UNCHANGED <<drained, kind, todo, result, sessVars>>
           /\ forwards \subseteq forwards'
           /\ TypeOK'
  BY <1>2 DEF IInv, Rests, Orderly, Sessions, Stands, ForwardsStand, Busy, sessVars
<1> QED
  BY <1>1, <1>2, NextCases DEF IInv

LEMMA InitKept ==
  ASSUME Init
  PROVE  IInv
<1>1. TypeOK
  <2>1. /\ todo \in [Attempt -> Seq(BestEffort \cup Fatal)]
        /\ remove \in [Attempt -> Seq(Port)]
    BY DEF Init
  <2>2. 0 \in 0 .. MaxCancel /\ 0 \in 0 .. MaxPair
    BY CancelAssumption, PairAssumption
  <2> QED
    BY <2>1, <2>2 DEF Init, TypeOK, Kind, None
<1>2. Rests /\ Orderly /\ Sessions /\ Stands /\ ForwardsStand
  BY DEF Init, Rests, Orderly, Sessions, Stands, ForwardsStand, Busy
<1> QED
  BY <1>1, <1>2 DEF IInv

\* TypeOK for every bound.
THEOREM TypeCorrect == Spec => []TypeOK
<1>1. IInv => TypeOK
  BY DEF IInv
<1> QED
  BY InitKept, Kept, <1>1, PTL DEF Spec

\* ForwardsStand for every bound: what a wired session added is there as long as
\* it lives, because the app that waits begins its connect, and adds forwards,
\* only when no session is left to remove any.
THEOREM WiredForwardsStand == Spec => []ForwardsStand
<1>1. IInv => ForwardsStand
  BY DEF IInv
<1> QED
  BY InitKept, Kept, <1>1, PTL DEF Spec

-----------------------------------------------------------------------------
(* Announcements *)

LEMMA BeaconKept ==
  ASSUME TypeOK, TypeOK', BeaconBounded, [Next]_vars
  PROVE  BeaconBounded'
<1>1. mcast' \subseteq {mslot'}
  BY DEF BeaconBounded, Next, McastStarts, McastStops, McastFails, TakesSlot, OnlyPair, Pairing,
     Shows, ScanLost, PairCancels, Binds, Gives, Ticks, StrayComes, StrayGoes, Notified, Scans,
     Cancels, OrphanAdds, Connects, Begins, Proceeds, Fails, Cancelled, EnablesClipboard, Releases,
     Drops, Removes, Dropped, mcastVars, vars
<1>2. CASE \E n \in Attempt : Own(n)
  <2>1. PICK n \in Attempt : Own(n)
    BY <1>2
  <2>2. SUFFICES ASSUME beacon'[n]
                 PROVE  Busy(n)' \/ sess'[n] \in {"live", "released", "dropping"}
    BY <1>1, <2>1, OthersStay DEF BeaconBounded, Busy
  <2>3. CASE Connects(n)
    BY <2>3 DEF Connects, Begins, Busy, TypeOK
  <2>4. CASE Proceeds(n)
    BY <2>4 DEF Proceeds, ComesUp, Busy, TypeOK
  <2>5. CASE Fails(n) \/ Cancelled(n) \/ Dropped(n)
    BY <2>2, <2>5 DEF Fails, Cancelled, Dropped, LetsGo, TypeOK
  <2>6. CASE EnablesClipboard(n) \/ Releases(n) \/ Drops(n) \/ Removes(n)
    BY <2>2, <2>6 DEF EnablesClipboard, Releases, Drops, Removes, BeaconBounded, Busy, connVars,
       TypeOK
  <2> QED
    BY <2>1, <2>3, <2>4, <2>5, <2>6 DEF Own
<1>3. CASE UNCHANGED <<result, beacon, sessVars>>
  BY <1>1, <1>3 DEF BeaconBounded, Busy, sessVars
<1> QED
  BY <1>2, <1>3, NextCases

\* BeaconBounded for every bound: each way out of a connect, and the drop of its
\* session, ends the announcements that it began.
THEOREM AnnouncementsBounded == Spec => []BeaconBounded
<1> DEFINE Inv == IInv /\ BeaconBounded
<1>1. Init => Inv
  BY InitKept DEF Init, BeaconBounded
<1>2. Inv /\ [Next]_vars => Inv'
  BY Kept, BeaconKept DEF IInv
<1> QED
  BY <1>1, <1>2, PTL DEF Spec

=============================================================================
