------------------------- MODULE ControlPortProofs -------------------------
(***************************************************************************)
(* Proofs about the two protocols of the phone's CONTROL_PORT (mdfs.rs).   *)
(*                                                                         *)
(* ControlSession: what it promises the app, for every bound on the frames *)
(* and texts, with and without frames that arrive in parts.                *)
(*                                                                         *)
(* Gateway: what a download does to the folder, beside another transfer    *)
(* and whatever the user has in it, for every set of names and every bound *)
(* on the entries, their sizes and the items of an upload.  GatewayInv is  *)
(* inductive.                                                              *)
(***************************************************************************)
EXTENDS ControlSession, Gateway, SequenceTheorems, TLAPS

Ending == {"close", "close frame"}

\* A word of farewell that is on its way, or was read, is the phone's.
Farewells ==
  /\ \A i \in 1 .. Len(inbox) : inbox[i] \in Ending => phoneEnded
  /\ saidClose => phoneEnded
  /\ dead = "closed" => phoneEnded \/ torn

\* control_task speaks once, at its end, and wait_disconnect repeats it.
Verdict ==
  /\ dead # "none" => ctl = "over"
  /\ result = "closed" => dead = "closed"
  /\ result = "lost" => ctl \notin Alive

SessionInv == TypeOK /\ Farewells /\ Verdict

-----------------------------------------------------------------------------
(* What a step does to the frames that wait to be read *)

\* Reading the first frame leaves frames that were there before.
LEMMA TailTyped ==
  ASSUME TypeOK, inbox # <<>>, inbox' = Tail(inbox)
  PROVE  /\ Head(inbox) \in Frame
         /\ Head(inbox) = inbox[1]
         /\ 1 \in 1 .. Len(inbox)
         /\ inbox' \in Seq(Frame)
         /\ Len(inbox') <= MaxInbox
         /\ Len(inbox') = Len(inbox) - 1
         /\ \A i \in 1 .. Len(inbox') : inbox'[i] = inbox[i + 1]
<1>1. inbox \in Seq(Frame) /\ Len(inbox) <= MaxInbox
  BY DEF TypeOK
<1>2. Len(inbox) \in Nat \ {0}
  BY <1>1, EmptySeq
<1>3. Head(inbox) = inbox[1]
  BY <1>1, <1>2
<1> QED
  BY <1>1, <1>2, <1>3, InboxAssumption, HeadTailProperties

\* So a farewell among them is still the phone's.
LEMMA TailFarewells ==
  ASSUME TypeOK, Farewells, inbox # <<>>, inbox' = Tail(inbox), phoneEnded' = phoneEnded
  PROVE  \A i \in 1 .. Len(inbox') : inbox'[i] \in Ending => phoneEnded'
<1>1. Len(inbox) \in Nat
  BY LenProperties DEF TypeOK
<1>2. SUFFICES ASSUME NEW i \in 1 .. Len(inbox'), inbox'[i] \in Ending
               PROVE  phoneEnded'
  OBVIOUS
<1>3. i + 1 \in 1 .. Len(inbox) /\ inbox'[i] = inbox[i + 1]
  BY <1>1, TailTyped
<1> QED
  BY <1>2, <1>3 DEF Farewells

-----------------------------------------------------------------------------
(* Every step keeps the types *)

\* The part of the types that reading a frame can disturb, the inbox aside.
LoopTypes ==
  /\ ctl \in Alive \union {"over", "panicked", "aborted"}
  /\ saidClose \in BOOLEAN
  /\ half \in BOOLEAN
  /\ torn \in BOOLEAN
  /\ dead \in {"none", "closed", "lost"}

LEMMA ReadingTyped ==
  ASSUME TypeOK,
         HeaderRead \/ TakesText \/ TakesWide \/ TakesPing \/ TakesCloseFrame
           \/ TakesGarbage \/ ReadFails \/ RecvTimesOut
  PROVE  TypeOK'
<1>1. LoopTypes
  BY DEF TypeOK, LoopTypes
<1>2. LoopTypes'
  <2>1. CASE HeaderRead
    BY <1>1, <2>1 DEF LoopTypes, Alive, HeaderRead
  <2>2. CASE TakesText
    BY <1>1, <2>2 DEF LoopTypes, Alive, TakesText, Takes
  <2>3. CASE TakesWide
    BY <1>1, <2>3 DEF LoopTypes, Alive, TakesWide, Takes
  <2>4. CASE TakesPing
    BY <1>1, <2>4 DEF LoopTypes, Alive, TakesPing, Takes, Over
  <2>5. CASE TakesCloseFrame
    BY <1>1, <2>5 DEF LoopTypes, Alive, TakesCloseFrame, Takes, Over
  <2>6. CASE TakesGarbage
    BY <1>1, <2>6 DEF LoopTypes, Alive, TakesGarbage, Over
  <2>7. CASE ReadFails
    BY <1>1, <2>7 DEF LoopTypes, Alive, ReadFails, Over
  <2>8. CASE RecvTimesOut
    <3>1. torn' \in BOOLEAN
      BY <1>1, <2>8 DEF LoopTypes, RecvTimesOut
    <3> QED
      BY <1>1, <2>8, <3>1 DEF LoopTypes, Alive, RecvTimesOut
  <2> QED
    BY <2>1, <2>2, <2>3, <2>4, <2>5, <2>6, <2>7, <2>8
<1>3. inbox' = inbox \/ (inbox # <<>> /\ inbox' = Tail(inbox))
  BY DEF HeaderRead, TakesText, TakesWide, TakesPing, TakesCloseFrame, TakesGarbage,
         ReadFails, RecvTimesOut, Takes
<1>4. inbox' \in Seq(Frame) /\ Len(inbox') <= MaxInbox
  BY <1>3, TailTyped DEF TypeOK
<1>5. UNCHANGED <<kaDue, link, phoneEnded, outq, appVars, watchVars>>
  BY DEF HeaderRead, TakesText, TakesWide, TakesPing, TakesCloseFrame, TakesGarbage,
         ReadFails, RecvTimesOut, OnlyReading
<1> QED
  BY <1>2, <1>4, <1>5 DEF TypeOK, LoopTypes, appVars, watchVars

LEMMA SendingTyped ==
  ASSUME TypeOK, Flushes \/ SendFails \/ Drained \/ Keepalive
  PROVE  TypeOK'
<1> USE DEF TypeOK, Alive
<1>1. CASE Flushes
  <2>1. outq' \in Seq({"msg", "close"})
    BY <1>1, HeadTailProperties DEF Flushes
  <2>2. UNCHANGED <<ctl, kaDue, dead, saidClose, half, torn, wireVars,
                    appVars, watchVars>>
    BY <1>1 DEF Flushes, OnlySending
  <2> QED
    BY <2>1, <2>2 DEF wireVars, appVars, watchVars
<1>2. CASE SendFails
  BY <1>2 DEF SendFails, Over, OnlySending, wireVars, appVars, watchVars
<1>3. CASE Drained
  BY <1>3 DEF Drained, OnlySending, wireVars, appVars, watchVars
<1>4. CASE Keepalive
  <2>1. kaDue' \in BOOLEAN
    BY <1>4 DEF Keepalive
  <2>2. ctl' = "recv"
    BY <1>4 DEF Keepalive
  <2>3. UNCHANGED <<dead, saidClose, half, torn, outq, wireVars, appVars, watchVars>>
    BY <1>4 DEF Keepalive, OnlySending
  <2> QED
    BY <2>1, <2>2, <2>3 DEF wireVars, appVars, watchVars
<1> QED
  BY <1>1, <1>2, <1>3, <1>4

LEMMA AppTyped ==
  ASSUME TypeOK, App
  PROVE  TypeOK'
<1> USE DEF TypeOK
<1>1. CASE Queues
  BY <1>1, MsgAssumption DEF Queues, OnlyAppMoves, loopVars, wireVars, watchVars
<1>2. CASE SaysClose
  BY <1>2 DEF SaysClose, OnlyAppMoves, loopVars, wireVars, watchVars
<1>3. CASE PauseOver
  BY <1>3 DEF PauseOver, OnlyAppMoves, loopVars, wireVars, watchVars
<1>4. CASE DropsSession
  BY <1>4 DEF DropsSession, wireVars, watchVars
<1> QED
  BY <1>1, <1>2, <1>3, <1>4 DEF App

LEMMA WatchTyped ==
  ASSUME TypeOK, WatchStarts \/ Watching \/ StopsWatch
  PROVE  TypeOK'
<1> USE DEF TypeOK, OnlyWatchMoves, loopVars, wireVars, appVars, watchVars
<1>1. CASE WatchStarts
  BY <1>1 DEF WatchStarts
<1>2. CASE WatchChecks
  BY <1>2 DEF WatchChecks, Returns
<1>3. CASE WatchWakes
  BY <1>3 DEF WatchWakes, Returns
<1>4. CASE WatchOrphaned
  BY <1>4 DEF WatchOrphaned, Returns
<1>5. CASE WatchTimesOut
  BY <1>5 DEF WatchTimesOut
<1>6. CASE StopsWatch
  BY <1>6 DEF StopsWatch
<1> QED
  BY <1>1, <1>2, <1>3, <1>4, <1>5, <1>6 DEF Watching

\* What membership yields is a Boolean.
LEMMA Membership ==
  ASSUME NEW e, NEW S, NEW b, b = (e \in S)
  PROVE  b \in BOOLEAN
OBVIOUS

LEMMA OutsideTyped ==
  ASSUME TypeOK, (\E f \in Frame : PhoneSends(f)) \/ LinkGoes \/ KeepaliveDue
  PROVE  TypeOK'
<1> USE DEF TypeOK, OnlyWireMoves, loopVars, wireVars, appVars, watchVars
<1>1. ASSUME NEW f \in Frame, PhoneSends(f)
      PROVE  TypeOK'
  <2>1. inbox' \in Seq(Frame) /\ Len(inbox') <= MaxInbox
    <3>1. inbox \in Seq(Frame) /\ Len(inbox) \in Nat /\ Len(inbox) < MaxInbox
      BY <1>1, LenProperties DEF PhoneSends
    <3>2. inbox' = Append(inbox, f)
      BY <1>1 DEF PhoneSends
    <3>3. inbox' \in Seq(Frame) /\ Len(inbox') = Len(inbox) + 1
      BY <1>1, <3>1, <3>2, AppendProperties
    <3> QED
      BY <3>1, <3>3, InboxAssumption
  <2>2. phoneEnded' \in BOOLEAN
    <3>1. phoneEnded' = (f \in {"close", "close frame"})
      BY <1>1 DEF PhoneSends
    <3> QED
      BY <3>1, Membership
  <2>3. UNCHANGED <<link, loopVars, outq, appVars, watchVars>>
    BY <1>1 DEF PhoneSends
  <2> QED
    BY <2>1, <2>2, <2>3
<1>2. CASE LinkGoes
  <2>1. PICK n \in 0 .. Len(inbox) : inbox' = SubSeq(inbox, 1, n)
    BY <1>2 DEF LinkGoes
  <2>2. Len(inbox) \in Nat /\ \A i \in 1 .. n : inbox[i] \in Frame
    BY LenProperties
  <2>3. inbox' \in Seq(Frame) /\ Len(inbox') <= MaxInbox
    BY <2>1, <2>2, InboxAssumption, SubSeqProperties
  <2> QED
    BY <1>2, <2>3 DEF LinkGoes
<1>3. CASE KeepaliveDue
  BY <1>3 DEF KeepaliveDue
<1> QED
  BY <1>1, <1>2, <1>3

LEMMA StepTyped ==
  ASSUME TypeOK, [Next]_vars
  PROVE  TypeOK'
<1>1. CASE UNCHANGED vars
  BY <1>1 DEF TypeOK, vars, loopVars, wireVars, appVars, watchVars
<1>2. CASE Next
  BY <1>2, ReadingTyped, SendingTyped, AppTyped, WatchTyped, OutsideTyped
  DEF Next, ControlTask
<1> QED
  BY <1>1, <1>2

-----------------------------------------------------------------------------
(* Every step keeps the farewells the phone's own *)

LEMMA StepFarewells ==
  ASSUME TypeOK, Farewells, [Next]_vars
  PROVE  Farewells'
<1> USE DEF Ending
<1>1. ASSUME UNCHANGED <<inbox, phoneEnded, saidClose, dead, torn>>
      PROVE  Farewells'
  BY <1>1 DEF Farewells
<1>2. CASE HeaderRead
  BY <1>1, <1>2 DEF HeaderRead, OnlyReading
<1>3. CASE TakesText
  <2>1. Head(inbox) = inbox[1] /\ 1 \in 1 .. Len(inbox)
    BY <1>3, TailTyped DEF TakesText, Takes
  <2>2. saidClose' => phoneEnded'
    BY <1>3, <2>1 DEF TakesText, OnlyReading, Farewells
  <2> QED
    BY <1>3, <2>2, TailFarewells DEF TakesText, Takes, OnlyReading, Farewells
<1>4. CASE TakesWide
  BY <1>4, TailFarewells DEF TakesWide, Takes, OnlyReading, Farewells
<1>5. CASE TakesPing
  BY <1>5, TailFarewells DEF TakesPing, Takes, Over, OnlyReading, Farewells
<1>6. CASE TakesCloseFrame
  <2>1. Head(inbox) = inbox[1] /\ 1 \in 1 .. Len(inbox)
    BY <1>6, TailTyped DEF TakesCloseFrame, Takes
  <2>2. phoneEnded'
    BY <1>6, <2>1 DEF TakesCloseFrame, Takes, OnlyReading, Farewells
  <2> QED
    BY <1>6, <2>2 DEF Farewells
<1>7. CASE TakesGarbage
  BY <1>7, TailFarewells DEF TakesGarbage, Over, OnlyReading, Farewells
<1>8. CASE ReadFails
  BY <1>8 DEF ReadFails, Over, OnlyReading, Farewells
<1>9. CASE RecvTimesOut
  BY <1>9 DEF RecvTimesOut, OnlyReading, Farewells, TypeOK
<1>10. CASE Flushes \/ Drained \/ Keepalive
  BY <1>1, <1>10 DEF Flushes, Drained, Keepalive, OnlySending, wireVars
<1>11. CASE SendFails
  BY <1>11 DEF SendFails, Over, OnlySending, wireVars, Farewells
<1>12. CASE App
  BY <1>1, <1>12 DEF App, Queues, SaysClose, PauseOver, DropsSession, OnlyAppMoves,
                     loopVars, wireVars
<1>13. CASE WatchStarts \/ Watching \/ StopsWatch
  BY <1>1, <1>13 DEF WatchStarts, Watching, WatchChecks, WatchWakes, WatchOrphaned,
                     WatchTimesOut, StopsWatch, OnlyWatchMoves, loopVars, wireVars
<1>14. ASSUME NEW f \in Frame, PhoneSends(f)
       PROVE  Farewells'
  <2>1. inbox \in Seq(Frame) /\ ~phoneEnded /\ phoneEnded' = (f \in Ending)
    BY <1>14 DEF PhoneSends, TypeOK
  <2>4. /\ \A i \in 1 .. Len(inbox) : inbox'[i] = inbox[i]
        /\ inbox'[Len(inbox) + 1] = f
    <3>1. inbox' = Append(inbox, f) /\ f \in Frame
      BY <1>14 DEF PhoneSends
    <3> QED
      BY <2>1, <3>1, AppendProperties, ZenonT(60)
  <2>2. ASSUME NEW i \in 1 .. Len(inbox'), inbox'[i] \in Ending
        PROVE  phoneEnded'
    <3>1. i \in 1 .. Len(inbox) \/ i = Len(inbox) + 1
      <4>1. Len(inbox') = Len(inbox) + 1 /\ Len(inbox) \in Nat
        BY <1>14, <2>1, AppendProperties, LenProperties DEF PhoneSends
      <4>2. i \in 1 .. Len(inbox) + 1
        BY <2>2, <4>1
      <4> QED
        BY <4>1, <4>2
    <3>2. CASE i \in 1 .. Len(inbox)
      <4>1. inbox'[i] = inbox[i]
        BY <2>4, <3>2
      <4> QED
        BY <2>1, <2>2, <3>2, <4>1 DEF Farewells
    <3>3. CASE i = Len(inbox) + 1
      BY <2>1, <2>2, <2>4, <3>3
    <3> QED
      BY <3>1, <3>2, <3>3
  <2>3. (saidClose' => phoneEnded') /\ (dead' = "closed" => phoneEnded' \/ torn')
    BY <1>14, <2>1 DEF PhoneSends, OnlyWireMoves, loopVars, Farewells
  <2> QED
    BY <2>2, <2>3 DEF Farewells
<1>15. CASE LinkGoes
  <2>1. PICK n \in 0 .. Len(inbox) : inbox' = SubSeq(inbox, 1, n)
    BY <1>15 DEF LinkGoes
  <2>2. Len(inbox) \in Nat /\ \A i \in 1 .. n : inbox[i] \in Frame
    BY LenProperties DEF TypeOK
  <2>3. Len(inbox') = n /\ \A i \in 1 .. n : inbox'[i] = inbox[i]
    BY <2>1, <2>2, SubSeqProperties
  <2>4. UNCHANGED <<phoneEnded, saidClose, dead, torn>>
    BY <1>15 DEF LinkGoes, OnlyWireMoves, loopVars
  <2>5. 1 .. Len(inbox') \subseteq 1 .. Len(inbox)
    BY <2>2, <2>3
  <2>6. \A i \in 1 .. Len(inbox') : inbox'[i] \in Ending => phoneEnded'
    BY <2>3, <2>4, <2>5 DEF Farewells
  <2> QED
    BY <2>4, <2>6 DEF Farewells
<1>16. CASE KeepaliveDue
  BY <1>1, <1>16 DEF KeepaliveDue, wireVars
<1>17. CASE UNCHANGED vars
  BY <1>1, <1>17 DEF vars, loopVars, wireVars
<1> QED
  BY <1>2, <1>3, <1>4, <1>5, <1>6, <1>7, <1>8, <1>9, <1>10, <1>11, <1>12, <1>13,
     <1>14, <1>15, <1>16, <1>17 DEF Next, ControlTask

-----------------------------------------------------------------------------
(* Every step keeps the verdict *)

LEMMA StepVerdict ==
  ASSUME TypeOK, Verdict, [Next]_vars
  PROVE  Verdict'
<1> USE DEF Verdict, Alive
<1>1. CASE HeaderRead \/ TakesText \/ TakesWide \/ RecvTimesOut
  BY <1>1 DEF HeaderRead, TakesText, TakesWide, RecvTimesOut, Takes, OnlyReading, watchVars
<1>2. CASE TakesPing \/ TakesCloseFrame \/ TakesGarbage \/ ReadFails
  BY <1>2 DEF TakesPing, TakesCloseFrame, TakesGarbage, ReadFails, Takes, Over,
              OnlyReading, watchVars
<1>3. CASE Flushes \/ SendFails \/ Drained \/ Keepalive
  BY <1>3 DEF Flushes, SendFails, Drained, Keepalive, Over, OnlySending, watchVars
<1>4. CASE App
  BY <1>4 DEF App, Queues, SaysClose, PauseOver, DropsSession, OnlyAppMoves,
              loopVars, watchVars
<1>5. CASE WatchStarts \/ WatchTimesOut \/ StopsWatch
  BY <1>5 DEF WatchStarts, WatchTimesOut, StopsWatch, OnlyWatchMoves, loopVars
<1>6. CASE WatchChecks \/ WatchWakes \/ WatchOrphaned
  BY <1>6 DEF WatchChecks, WatchWakes, WatchOrphaned, Returns, OnlyWatchMoves,
              loopVars, TypeOK
<1>7. CASE (\E f \in Frame : PhoneSends(f)) \/ LinkGoes
  BY <1>7 DEF PhoneSends, LinkGoes, OnlyWireMoves, loopVars, watchVars
<1>8. CASE KeepaliveDue
  BY <1>8 DEF KeepaliveDue, watchVars
<1>9. CASE UNCHANGED vars
  BY <1>9 DEF vars, loopVars, watchVars
<1> QED
  BY <1>1, <1>2, <1>3, <1>4, <1>5, <1>6, <1>7, <1>8, <1>9
  DEF Next, ControlTask, Watching

-----------------------------------------------------------------------------
(* The theorems *)

\* The invariant behind the promises holds in every reachable state of
\* control_task, the app's disconnect and wait_disconnect.
THEOREM SessionInvariance == Spec => []SessionInv
<1>1. Init => SessionInv
  <2> SUFFICES ASSUME Init
               PROVE  SessionInv
    OBVIOUS
  <2>1. /\ <<>> \in Seq(Frame) /\ <<>> \in Seq({"msg", "close"})
        /\ Len(<<>>) <= MaxInbox
        /\ 1 .. Len(<<>>) = {}
    BY InboxAssumption, EmptySeq
  <2>2. msgs \in 0 .. MaxMsg
    BY MsgAssumption DEF Init
  <2>3. TypeOK
    BY <2>1, <2>2 DEF Init, TypeOK, Alive
  <2>4. Farewells
    BY <2>1 DEF Init, Farewells
  <2>5. Verdict
    BY DEF Init, Verdict
  <2> QED
    BY <2>3, <2>4, <2>5 DEF SessionInv
<1>2. SessionInv /\ [Next]_vars => SessionInv'
  BY StepTyped, StepFarewells, StepVerdict DEF SessionInv
<1> QED
  BY <1>1, <1>2, PTL DEF Spec

\* Every variable of the session keeps its type.
THEOREM TypeCorrect == Spec => []TypeOK
<1>1. SessionInv => TypeOK
  BY DEF SessionInv
<1> QED
  BY <1>1, SessionInvariance, PTL

\* "closed by phone" is the phone's doing, unless the reader lost its place.
THEOREM ClosedIsByPhone == Spec => []ClosedByPhone
<1>1. SessionInv => ClosedByPhone
  BY DEF SessionInv, Farewells, Verdict, ClosedByPhone
<1> QED
  BY <1>1, SessionInvariance, PTL

\* What wait_disconnect reports as ended is ended.
THEOREM EndStands == Spec => []EndIsFinal
<1>1. SessionInv => EndIsFinal
  BY DEF SessionInv, Verdict, EndIsFinal, Alive
<1> QED
  BY <1>1, SessionInvariance, PTL

-----------------------------------------------------------------------------
(***************************************************************************)
(* Gateway                                                                 *)
(***************************************************************************)

\* The names given out in the folder are not the user's, and top-level name m has
\* one that is made from m.
Named(l) == l # NoLocal => l \in Local \ kept
Names ==
  /\ kept \subseteq Name \X {0}
  /\ \A m \in Name : Named(top[m]) /\ (top[m] # NoLocal => top[m][1] = m)
  /\ Named(rival)
  /\ rstep = "none" <=> rival = NoLocal

\* Whatever is in the folder is the user's, the rival's or this download's.
Ours(p) == p[1] = top[p[1][1]]
Taken == \A p \in Path : disk[p].kind # "free" => p[1] \in kept \/ p[1] = rival \/ Ours(p)

\* What is being unpacked has a name of the download, and what of it is on disk
\* is what was copied.
Unpacking ==
  /\ state \in {"create", "data"} => cur.path \in Path /\ Ours(cur.path)
  /\ state = "create" => got = 0
  /\ state = "data" /\ disk[cur.path].by = "us" => disk[cur.path] = File("us", got, cur.size)
  /\ state = "over" <=> outcome # "none"

\* Where no rival took the same name, what the download wrote is whole, but for
\* the file being written, and what it finished is still there.
NoClash == \A m \in Name : top[m] # NoLocal => top[m] # rival
Whole(p) == disk[p].n = disk[p].of \/ (state = "data" /\ p = cur.path)
Finished(p) == disk[p].kind = "file" /\ disk[p].by = "us" /\ Ours(p)
Unbroken ==
  /\ outcome = "ok" => phone # "gone" \/ framing # "chunked"
  /\ NoClash => \A p \in Path :
       /\ disk[p].by = "us" => Whole(p)
       /\ outcome # "err" /\ (p \in made \/ (state = "data" /\ p = cur.path)) => Finished(p)

Uploading ==
  /\ ended => left = 0
  /\ ack = "ok" => ended
  /\ pushed = "ok" => ended

GatewayInv ==
  /\ GatewayTypeOK /\ Names /\ Taken /\ Unpacking /\ NothingOverwritten /\ StaysTogether
  /\ Unbroken /\ Uploading

-----------------------------------------------------------------------------
(* Names and paths *)

\* How a path is made of a local name and what is below it.
LEMMA Paths ==
  /\ NoLocal \notin Local
  /\ \A m \in Name, n \in 0 .. 2 : <<m, n>> \in Local
  /\ \A p \in Path : p[1] \in Local /\ p[1][1] \in Name /\ p[2] \in Below /\ p = <<p[1], p[2]>>
  /\ \A l \in Local, b \in Below : <<l, b>> \in Path /\ <<l, b>>[1] = l
  /\ {"self", "inside"} = Below
BY NameAssumption DEF NoLocal, Local, Path, Below

\* A top-level name has a free local one left while the download or the rival
\* has none yet, and unique_path finds one, which is not the user's.
LEMMA UniquePathIsFree ==
  ASSUME Names, Taken, NothingOverwritten, NEW m \in Name, top[m] = NoLocal \/ rival = NoLocal
  PROVE  /\ UniquePath(m) \in Local \ kept
         /\ UniquePath(m)[1] = m
         /\ ~Exists(UniquePath(m))
<1> DEFINE Fits(l) == /\ l[1] = m /\ ~Exists(l)
                      /\ \A k \in 0 .. l[2] : k < l[2] => Exists(<<m, k>>)
<1>1. \A k \in {1, 2} : Exists(<<m, k>>) => <<m, k>> = rival \/ <<m, k>> = top[m]
  <2> SUFFICES ASSUME NEW k \in {1, 2}, Exists(<<m, k>>)
               PROVE  <<m, k>> = rival \/ <<m, k>> = top[m]
    OBVIOUS
  <2>1. PICK b \in Below : disk[<<<<m, k>>, b>>].kind # "free"
    BY DEF Exists
  <2>2. PICK p \in Path : p[1] = <<m, k>> /\ p[1][1] = m /\ disk[p].kind # "free"
    BY <2>1 DEF Local, Path
  <2>3. <<m, k>> \notin kept
    BY DEF Names
  <2> QED
    BY <2>1, <2>2, <2>3 DEF Taken, Ours
<1>2. ~Exists(<<m, 1>>) \/ ~Exists(<<m, 2>>)
  <2>1. <<m, 1>> # NoLocal /\ <<m, 2>> # NoLocal /\ <<m, 1>> # <<m, 2>>
    BY NameAssumption DEF NoLocal
  <2> QED
    BY <1>1, <2>1
<1>3. \E l \in Local : Fits(l)
  <2> USE DEF Local
  <2>1. CASE ~Exists(<<m, 0>>)
    BY <2>1
  <2>2. CASE Exists(<<m, 0>>) /\ ~Exists(<<m, 1>>)
    <3>1. \A k \in 0 .. 1 : k < 1 => k = 0
      OBVIOUS
    <3>2. Fits(<<m, 1>>)
      BY <2>2, <3>1
    <3> QED
      BY <3>2
  <2>3. CASE Exists(<<m, 0>>) /\ Exists(<<m, 1>>)
    <3>1. \A k \in 0 .. 2 : k < 2 => k = 0 \/ k = 1
      OBVIOUS
    <3>2. Fits(<<m, 2>>)
      BY <1>2, <2>3, <3>1
    <3> QED
      BY <3>2
  <2> QED
    BY <2>1, <2>2, <2>3
<1>4. UniquePath(m) = CHOOSE l \in Local : Fits(l)
  BY DEF UniquePath
<1>5. UniquePath(m) \in Local /\ Fits(UniquePath(m))
  <2> HIDE DEF Fits
  <2> QED
    BY <1>3, <1>4
<1>6. \A l \in kept : l \in Local => Exists(l)
  BY Paths DEF NothingOverwritten, Exists, Users
<1> QED
  BY <1>5, <1>6

\* The name an entry goes under: the one its top-level name has, or a free one.
LEMMA RootIsOwn ==
  ASSUME Names, Taken, NothingOverwritten, NEW m \in Name
  PROVE  Root(m) \in Local \ kept /\ Root(m)[1] = m /\ (top[m] # NoLocal => Root(m) = top[m])
BY UniquePathIsFree DEF Root, Names, Named

-----------------------------------------------------------------------------
(* Types and names *)

\* Creating an entry's parent, or the entry as a folder.
LEMMA WithFolderIs ==
  ASSUME GatewayTypeOK, NEW p \in Path
  PROVE  /\ WithFolder(p) \in [Path -> Cell]
         /\ \A q \in Path :
              WithFolder(p)[q] = IF q = p /\ disk[p].kind = "free" THEN Folder ELSE disk[q]
<1>1. Folder \in Cell /\ disk \in [Path -> Cell]
  BY SizeAssumption DEF Folder, Cell, GatewayTypeOK
<1> QED
  BY <1>1 DEF WithFolder

\* The path of an entry's folder.
LEMMA HolderIs == ASSUME NEW p \in Path PROVE Holder(p) \in Path /\ Holder(p)[1] = p[1]
BY DEF Holder, Path, Below

\* What there may be at a path.
LEMMA CellsTyped ==
  /\ Free \in Cell /\ Free.n = Free.of /\ Free.kind = "free" /\ Free.by # "us"
  /\ Folder \in Cell /\ Folder.n = Folder.of /\ Folder.kind = "dir"
  /\ Free.n <= Free.of /\ Folder.n <= Folder.of
  /\ \A by \in {"us", "rival"}, of \in 0 .. MaxSize : \A n \in 0 .. of :
       /\ File(by, n, of) \in Cell
       /\ File(by, n, of).n = n /\ File(by, n, of).of = of
       /\ File(by, n, of).kind = "file" /\ File(by, n, of).by = by
       /\ File(by, n, of).n <= File(by, n, of).of
BY SizeAssumption DEF Free, Folder, File, Cell, NoName

Sound(d) == d \in [Path -> Cell] /\ \A p \in Path : d[p].n <= d[p].of

\* Writing one cell keeps the folder's types.
LEMMA WritesSound ==
  ASSUME Sound(disk), NEW p \in Path, NEW c \in Cell, c.n <= c.of
  PROVE  Sound([disk EXCEPT ![p] = c])
BY DEF Sound

\* What creating a file does to the folder.
LEMMA CreatesIs ==
  ASSUME GatewayTypeOK, Unpacking, Creates, state' = "data"
  PROVE  /\ cur.path \in Path
         /\ disk' \in [Path -> Cell]
         /\ disk'[cur.path] = File("us", 0, cur.size)
         /\ disk[cur.path].kind # "dir"
         /\ \A q \in Path : disk'[q] # disk[q] /\ q # cur.path =>
              /\ q = Holder(cur.path) /\ cur.path[2] = "inside"
              /\ disk[q].kind = "free" /\ disk'[q] = Folder
<1> DEFINE p == cur.path
           under == IF p[2] = "inside" THEN WithFolder(Holder(p)) ELSE disk
<1>1. p \in Path /\ cur.size \in 0 .. MaxSize /\ disk \in [Path -> Cell]
  BY DEF GatewayTypeOK, Unpacking, Creates, Entry
<1>2. /\ disk[p].kind # "dir"
      /\ disk' = [under EXCEPT ![p] = File("us", 0, cur.size)]
  BY DEF Creates, Finishes
<1>3. /\ under \in [Path -> Cell]
      /\ \A q \in Path : under[q] # disk[q] =>
           /\ q = Holder(p) /\ p[2] = "inside"
           /\ disk[q].kind = "free" /\ under[q] = Folder
  BY <1>1, HolderIs, WithFolderIs
<1>4. File("us", 0, cur.size) \in Cell
  BY <1>1, CellsTyped
<1> HIDE DEF under
<1> QED
  BY <1>1, <1>2, <1>3, <1>4

\* Finishing, or going on, in the thread.
LEMMA MovesTyped ==
  ASSUME GatewayTypeOK
  PROVE  /\ \A verdict \in {"ok", "err"} : Finishes(verdict) =>
              /\ state' \in Reading \cup {"idle", "info", "create", "over"}
              /\ outcome' \in {"none", "ok", "err"}
              /\ cur' \in Entry /\ got' \in 0 .. cur'.size
              /\ long' \in Name \cup {NoName}
         /\ \A s \in Reading : Goes(s) =>
              /\ state' \in Reading \cup {"idle", "info", "create", "over"}
              /\ outcome' \in {"none", "ok", "err"}
              /\ cur' \in Entry /\ got' \in 0 .. cur'.size
              /\ long' \in Name \cup {NoName}
<1>1. NoEntry \in Entry /\ NoEntry.size = 0
  BY SizeAssumption DEF NoEntry, Entry
<1> QED
  BY <1>1 DEF Finishes, Goes, localVars, GatewayTypeOK

\* A step of the download's thread keeps the types.
LEMMA ThreadTyped ==
  ASSUME GatewayInv, Thread
  PROVE  GatewayTypeOK'
<1> USE DEF GatewayInv
<1>0. Sound(disk)
  BY DEF Sound, GatewayTypeOK
<1>1. CASE Registers
  <2>1. Goes("head") \/ Finishes("err")
    BY <1>1 DEF Registers
  <2> QED
    BY <1>1, <2>1, MovesTyped
       DEF Registers, GatewayTypeOK, folderVars, rivalVars, upVars, Reading, Framing
<1>2. CASE Ends
  <2>1. Finishes("ok") \/ Finishes("err")
    BY <1>2 DEF Ends
  <2> QED
    BY <1>2, <2>1, MovesTyped DEF Ends, GatewayTypeOK, folderVars, rivalVars, replyVars, upVars
<1>3. CASE OpensAny
  <2>1. PICK kind \in {"file", "dir"}, m \in Name, b \in Below, size \in 1 .. MaxSize :
          Opens(kind, m, b, size)
    BY <1>3 DEF OpensAny, Below
  <2> DEFINE name == IF long # NoName THEN long ELSE m
  <2>2. name \in Name
    BY DEF GatewayTypeOK
  <2>3. Root(name) \in Local /\ <<Root(name), b>> \in Path
    BY <2>2, RootIsOwn DEF Path
  <2>4. /\ top' = [top EXCEPT ![name] = Root(name)]
        /\ cur' = [path |-> <<Root(name), b>>, kind |-> kind, size |-> size]
        /\ got' = 0 /\ long' = NoName /\ state' = "create"
        /\ entries < MaxEntry /\ entries' = entries + 1
    BY <2>1 DEF Opens
  <2> HIDE DEF name
  <2>5. top' \in [Name -> Local \cup {NoLocal}]
    BY <2>2, <2>3, <2>4 DEF GatewayTypeOK
  <2>6. cur' \in Entry /\ cur'.size \in Nat
    BY <2>3, <2>4, SizeAssumption DEF Entry
  <2>7. entries' \in 0 .. MaxEntry
    BY <2>4, EntryAssumption DEF GatewayTypeOK
  <2> QED
    BY <2>1, <2>4, <2>5, <2>6, <2>7 DEF Opens, GatewayTypeOK, folderVars, rivalVars, upVars
<1>4. CASE Creates
  <2>1. \/ Goes("data") /\ state' = "data"
        \/ Finishes("err") /\ disk' = disk
    BY <1>4 DEF Creates, Goes
  <2>2. Sound(disk')
    <3>1. CASE state' = "data"
      <4>1. cur.size \in 0 .. MaxSize /\ 0 \in 0 .. cur.size
        BY DEF GatewayTypeOK, Entry
      <4>2. File("us", 0, cur.size).n <= File("us", 0, cur.size).of
        BY <4>1, CellsTyped
      <4> QED
        BY <1>0, <1>4, <3>1, <4>2, CreatesIs, CellsTyped DEF Sound
    <3> QED
      BY <1>0, <2>1, <3>1
  <2> QED
    BY <1>4, <2>1, <2>2, MovesTyped
       DEF Creates, Sound, GatewayTypeOK, rivalVars, replyVars, upVars, Reading
<1>5. CASE CreatesFolder
  <2>1. \/ Goes("head") /\ disk' = WithFolder(cur.path)
        \/ Finishes("err") /\ disk' = disk
    BY <1>5 DEF CreatesFolder
  <2>2. Sound(disk')
    <3>1. cur.path \in Path
      BY <1>5 DEF CreatesFolder, Unpacking
    <3> QED
      BY <1>0, <2>1, <3>1, WithFolderIs, CellsTyped DEF Sound
  <2> QED
    BY <1>5, <2>1, <2>2, MovesTyped
       DEF CreatesFolder, Sound, GatewayTypeOK, rivalVars, replyVars, upVars, Reading
<1>6. CASE Copies
  <2>1. cur.path \in Path /\ cur.size \in 0 .. MaxSize /\ got \in 0 .. cur.size
    BY <1>6 DEF Copies, Unpacking, GatewayTypeOK, Entry
  <2>2. got' = got + 1 /\ got < cur.size /\ cur' = cur /\ got' \in 0 .. cur.size
    BY <1>6, <2>1, SizeAssumption DEF Copies
  <2> DEFINE c == IF disk[cur.path].by = "us" THEN [disk[cur.path] EXCEPT !.n = got + 1]
                                              ELSE disk[cur.path]
  <2>3. disk' = [disk EXCEPT ![cur.path] = c]
    BY <1>6 DEF Copies
  <2>4. ASSUME disk[cur.path].by = "us" PROVE Sound(disk')
    <3>1. c = File("us", got', cur.size)
      <4>1. disk[cur.path] = File("us", got, cur.size)
        BY <1>6, <2>4 DEF Copies, Unpacking
      <4> QED
        BY <2>2, <2>4, <4>1 DEF File
    <3> HIDE DEF c
    <3>2. c \in Cell /\ c.n <= c.of
      BY <2>1, <2>2, <3>1, CellsTyped
    <3> QED
      BY <1>0, <2>1, <2>3, <3>2, WritesSound
  <2>5. ASSUME disk[cur.path].by # "us" PROVE Sound(disk')
    <3>1. c \in Cell /\ c.n <= c.of
      BY <1>0, <2>1, <2>5 DEF Sound
    <3> HIDE DEF c
    <3> QED
      BY <1>0, <2>1, <2>3, <3>1, WritesSound
  <2>6. Sound(disk')
    BY <2>4, <2>5
  <2> QED
    BY <1>6, <2>2, <2>6 DEF Copies, Sound, GatewayTypeOK, rivalVars, replyVars, upVars
<1>7. CASE Loses
  <2>1. cur.path \in Path /\ disk' = [disk EXCEPT ![cur.path] = Free] /\ Finishes("err")
    BY <1>7 DEF Loses, Unpacking
  <2>2. Sound(disk')
    BY <1>0, <2>1, CellsTyped, WritesSound
  <2> QED
    BY <1>7, <2>1, <2>2, MovesTyped DEF Loses, Sound, GatewayTypeOK, rivalVars, replyVars, upVars
<1>8. CASE Completes
  <2>1. cur.path \in Path /\ made' = made \cup {cur.path}
    BY <1>8 DEF Completes, Unpacking
  <2>2. Goes("pad") \/ Goes("head")
    BY <1>8 DEF Completes
  <2> QED
    BY <1>8, <2>1, <2>2, MovesTyped
       DEF Completes, GatewayTypeOK, folderVars, rivalVars, upVars, Reading
<1>9. CASE OpensMeta
  <2>1. entries' \in 0 .. MaxEntry
    BY <1>9, EntryAssumption DEF OpensMeta, GatewayTypeOK
  <2> QED
    BY <1>9, <2>1 DEF OpensMeta, GatewayTypeOK, folderVars, rivalVars, upVars, Reading
<1>10. CASE Skips
  <2>1. Goes("head") \/ Finishes("err")
    BY <1>10 DEF Skips
  <2> QED
    BY <1>10, <2>1, MovesTyped
       DEF Skips, GatewayTypeOK, folderVars, rivalVars, replyVars, upVars, Reading
<1>11. CASE Breaks
  <2>1. Finishes("err")
    BY <1>11 DEF Breaks
  <2> QED
    BY <1>11, <2>1, MovesTyped DEF Breaks, GatewayTypeOK, folderVars, rivalVars, replyVars, upVars
<1> QED
  BY <1>1, <1>2, <1>3, <1>4, <1>5, <1>6, <1>7, <1>8, <1>9, <1>10, <1>11 DEF Thread

\* The app, the rival, the network and the upload.
LEMMA OthersTyped ==
  ASSUME GatewayInv, GatewayNext, ~Thread
  PROVE  GatewayTypeOK'
<1> USE DEF GatewayInv
<1>1. CASE Starts \/ Cancels \/ Drops
  <2>1. CASE Starts
    BY <2>1 DEF Starts, GatewayTypeOK, folderVars, rivalVars, replyVars, localVars, upVars
  <2>2. CASE Cancels
    BY <2>2 DEF Cancels, GatewayTypeOK, folderVars, rivalVars, replyVars, localVars, upVars
  <2>3. CASE Drops
    BY <2>3 DEF Drops, GatewayTypeOK, folderVars, rivalVars, localVars, upVars
  <2> QED
    BY <1>1, <2>1, <2>2, <2>3
<1>2. CASE Picks
  <2>1. PICK m \in Name : rival' = UniquePath(m)
    BY <1>2 DEF Picks
  <2>2. rival = NoLocal
    BY <1>2 DEF Picks, Names
  <2>3. rival' \in Local
    BY <2>1, <2>2, UniquePathIsFree
  <2> QED
    BY <1>2, <2>3 DEF Picks, GatewayTypeOK, downVars, replyVars, localVars, upVars
<1>3. CASE PlacesOrLoses
  <2>1. Sound(disk)
    BY DEF Sound, GatewayTypeOK
  <2>2. <<rival, "self">> \in Path
    BY <1>3 DEF PlacesOrLoses, Names, Named, Path, Below
  <2>3. /\ File("rival", 0, 1) \in Cell
        /\ File("rival", 0, 1).n <= File("rival", 0, 1).of
        /\ Free \in Cell /\ Free.n <= Free.of
    BY SizeAssumption, CellsTyped
  <2>4. \/ disk' = [disk EXCEPT ![<<rival, "self">>] = File("rival", 0, 1)]
        \/ disk' = [disk EXCEPT ![<<rival, "self">>] = Free]
        \/ disk' = disk
    BY <1>3 DEF PlacesOrLoses
  <2>5. Sound(disk')
    BY <2>1, <2>2, <2>3, <2>4, WritesSound
  <2> QED
    BY <1>3, <2>5 DEF PlacesOrLoses, Sound, GatewayTypeOK, downVars, replyVars, localVars, upVars
<1>4. CASE Upload
  <2> USE DEF Lists, RegistersDrop, Stalls, Appends, Terminates, Answers, Judges, GivesUp
  <2>1. UNCHANGED <<scene, folderVars, downVars>>
    BY <1>4 DEF Upload
  <2>2. left' \in 0 .. MaxItem
    <3>1. left' = left \/ (left > 0 /\ left' = left - 1)
      BY <1>4 DEF Upload
    <3> QED
      BY <3>1, ItemAssumption DEF GatewayTypeOK
  <2>3. /\ step' \in {"idle", "register", "stream", "ack", "over"}
        /\ pushed' \in {"none", "ok", "err"}
    BY <1>4 DEF Upload, GatewayTypeOK
  <2>4. {ended', stalled'} \subseteq BOOLEAN /\ ack' \in {"none", "ok", "bad"}
    BY <1>4 DEF Upload, GatewayTypeOK
  <2> QED
    BY <2>1, <2>2, <2>3, <2>4
       DEF GatewayTypeOK, folderVars, rivalVars, downVars, replyVars, localVars
<1> QED
  BY <1>1, <1>2, <1>3, <1>4 DEF GatewayNext

-----------------------------------------------------------------------------
(* Who writes where *)

\* Names are given for good, and never one that the user has.
LEMMA StepNames ==
  ASSUME GatewayInv, GatewayNext
  PROVE  /\ Names' /\ kept' = kept
         /\ rival # NoLocal => rival' = rival
         /\ \A m \in Name : top[m] # NoLocal => top'[m] = top[m]
<1> USE DEF GatewayInv
<1>1. CASE OpensAny
  <2>1. PICK name \in Name : top' = [top EXCEPT ![name] = Root(name)]
    BY <1>1 DEF OpensAny, Opens, GatewayTypeOK
  <2>2. Root(name) \in Local \ kept /\ Root(name)[1] = name
        /\ (top[name] # NoLocal => Root(name) = top[name])
    BY RootIsOwn
  <2>3. UNCHANGED <<kept, rivalVars>>
    BY <1>1 DEF OpensAny, Opens, folderVars
  <2>4. \A m \in Name : top'[m] = IF m = name THEN Root(name) ELSE top[m]
    BY <2>1 DEF GatewayTypeOK
  <2> QED
    BY <2>2, <2>3, <2>4 DEF Names, Named, rivalVars
<1>2. CASE Picks
  <2>1. PICK m \in Name : rival' = UniquePath(m)
    BY <1>2 DEF Picks
  <2>2. rival = NoLocal /\ UNCHANGED <<kept, top>> /\ rstep' = "picked"
    BY <1>2 DEF Picks, Names, downVars, replyVars
  <2>3. rival' \in Local \ kept
    BY <2>1, <2>2, UniquePathIsFree
  <2> QED
    BY <2>2, <2>3, Paths DEF Names, Named
<1>3. CASE PlacesOrLoses
  <2>1. UNCHANGED <<kept, top, rival>> /\ rstep # "none" /\ rstep' # "none"
    BY <1>3 DEF PlacesOrLoses, downVars, replyVars
  <2> QED
    BY <2>1 DEF Names, Named
<1>4. CASE ~(OpensAny \/ Picks \/ PlacesOrLoses)
  <2>1. UNCHANGED <<kept, rivalVars, top>>
    <3>1. CASE Starts \/ Cancels \/ Drops
      BY <3>1 DEF Starts, Cancels, Drops, folderVars, replyVars
    <3>2. CASE Thread
      BY <1>4, <3>2
         DEF Thread, Registers, Ends, Creates, CreatesFolder, Copies, Loses, Completes,
             OpensMeta, Skips, Breaks, folderVars, replyVars
    <3>3. CASE Upload
      BY <3>3
         DEF Upload, Lists, RegistersDrop, Stalls, Appends, Terminates, Answers, Judges,
             folderVars, downVars, replyVars
    <3> QED
      BY <1>4, <3>1, <3>2, <3>3 DEF GatewayNext
  <2> QED
    BY <2>1 DEF Names, Named, rivalVars
<1> QED
  BY <1>1, <1>2, <1>3, <1>4

\* The steps that write into the folder.
LEMMA OnlyTheseWrite ==
  ASSUME GatewayNext, disk' # disk
  PROVE  Creates \/ CreatesFolder \/ Copies \/ Loses \/ PlacesOrLoses
<1>1. ASSUME Starts \/ Cancels \/ Drops \/ Picks
      PROVE  FALSE
  BY <1>1 DEF Starts, Cancels, Drops, Picks, folderVars
<1>2. ASSUME Thread, ~(Creates \/ CreatesFolder \/ Copies \/ Loses)
      PROVE  FALSE
  BY <1>2
     DEF Thread, Registers, Ends, OpensAny, Opens, Completes, OpensMeta, Skips, Breaks,
         folderVars
<1>3. ASSUME Upload
      PROVE  FALSE
  BY <1>3
     DEF Upload, Lists, RegistersDrop, Stalls, Appends, Terminates, Answers, Judges,
         folderVars
<1> QED
  BY <1>1, <1>2, <1>3 DEF GatewayNext

\* A step writes at the rival's name, or below the name of the entry that the
\* download is unpacking, which is its own.
LEMMA StepWrites ==
  ASSUME GatewayInv, GatewayNext, NEW q \in Path, disk'[q] # disk[q]
  PROVE  Ours(q) \/ (q[1] = rival /\ disk'[q].by # "us")
<1> USE DEF GatewayInv
<1>1. state \in {"create", "data"} /\ q[1] = cur.path[1] => Ours(q)
  BY DEF Unpacking, Ours
<1>2. CASE Creates
  <2>1. state = "create" /\ cur.path \in Path
    BY <1>2 DEF Creates, Unpacking
  <2>2. state' = "data" \/ disk' = disk
    BY <1>2 DEF Creates, Goes
  <2>3. q = cur.path \/ q = Holder(cur.path)
    BY <1>2, <2>2, CreatesIs
  <2> QED
    BY <1>1, <2>1, <2>3, HolderIs
<1>3. CASE CreatesFolder
  <2>1. state = "create" /\ cur.path \in Path
    BY <1>3 DEF CreatesFolder, Unpacking
  <2>2. q = cur.path
    BY <1>3, <2>1, WithFolderIs DEF CreatesFolder
  <2> QED
    BY <1>1, <2>1, <2>2
<1>4. CASE Copies \/ Loses
  <2>1. state = "data" /\ q = cur.path
    BY <1>4 DEF Copies, Loses, GatewayTypeOK
  <2> QED
    BY <1>1, <2>1
<1>5. CASE PlacesOrLoses
  <2>1. q = <<rival, "self">>
    BY <1>5 DEF PlacesOrLoses, GatewayTypeOK
  <2>2. disk'[q] = File("rival", 0, 1) \/ disk'[q] = Free
    BY <1>5, <2>1 DEF PlacesOrLoses, GatewayTypeOK
  <2>3. File("rival", 0, 1).by # "us" /\ Free.by # "us"
    BY DEF File, Free, NoName
  <2> QED
    BY <2>1, <2>2, <2>3
<1> QED
  BY <1>2, <1>3, <1>4, <1>5, OnlyTheseWrite

\* No step leaves something under a name that nobody has.
LEMMA StepTaken ==
  ASSUME GatewayInv, GatewayNext
  PROVE  Taken' /\ NothingOverwritten' /\ StaysTogether'
<1> USE DEF GatewayInv
<1>1. ASSUME NEW q \in Path, q[1] = rival \/ Ours(q)
      PROVE  /\ q[1] = rival' \/ (Ours(q))'
             /\ q[1] \notin kept
  BY <1>1, StepNames, Paths DEF Ours, Names, Named
<1>2. Taken'
  BY <1>1, StepNames, StepWrites DEF Taken
<1>3. NothingOverwritten'
  <2> SUFFICES ASSUME NEW l \in kept, NEW b \in Below
               PROVE  disk'[<<l, b>>] = disk[<<l, b>>]
    BY StepNames DEF NothingOverwritten, Below
  <2>1. l \in Local
    BY DEF Names, Local
  <2>2. <<l, b>> \in Path /\ <<l, b>>[1] = l
    BY <2>1 DEF Path
  <2> QED
    BY <1>1, <2>2, StepWrites
<1>4. StaysTogether'
  <2> SUFFICES ASSUME NEW q \in Path, disk'[q].by = "us"
               PROVE  (Ours(q))'
    BY DEF StaysTogether, Ours
  <2>1. CASE disk'[q] = disk[q]
    <3>1. Ours(q)
      BY <2>1 DEF StaysTogether, Ours
    <3> QED
      BY <3>1, StepNames, Paths DEF Ours, Names, Named
  <2>2. CASE disk'[q] # disk[q]
    <3>1. Ours(q)
      BY <2>2, StepWrites
    <3> QED
      BY <3>1, StepNames, Paths DEF Ours, Names, Named
  <2> QED
    BY <2>1, <2>2
<1> QED
  BY <1>2, <1>3, <1>4

-----------------------------------------------------------------------------
(* What is written *)

\* What is copied and what is on disk stay equal.
LEMMA StepUnpacking ==
  ASSUME GatewayInv, GatewayNext, GatewayTypeOK'
  PROVE  Unpacking'
<1> USE DEF GatewayInv
<1>1. CASE OpensAny
  <2>1. PICK name \in Name, b \in Below :
          cur'.path = <<Root(name), b>> /\ top' = [top EXCEPT ![name] = Root(name)]
    BY <1>1 DEF OpensAny, Opens, GatewayTypeOK, Below
  <2>2. Root(name) \in Local /\ Root(name)[1] = name /\ top'[name] = Root(name)
    BY <2>1, RootIsOwn DEF GatewayTypeOK
  <2>3. cur'.path \in Path /\ cur'.path[1] = Root(name)
    BY <2>1, <2>2 DEF Path
  <2>4. state' = "create" /\ got' = 0 /\ state # "over" /\ outcome' = outcome
    BY <1>1 DEF OpensAny, Opens
  <2> QED
    BY <2>2, <2>3, <2>4 DEF Unpacking, Ours
<1>2. ASSUME \E verdict \in {"ok", "err"} : Finishes(verdict)
      PROVE  Unpacking'
  BY <1>2 DEF Unpacking, Finishes
<1>3. ASSUME state # "over", state' \notin {"create", "data", "over"}, outcome' = outcome
      PROVE  Unpacking'
  BY <1>3 DEF Unpacking
<1>4. CASE Registers \/ Ends \/ CreatesFolder \/ Loses \/ Completes \/ Skips \/ Breaks
  <2>1. \/ \E verdict \in {"ok", "err"} : Finishes(verdict)
        \/ state # "over" /\ \E s \in Reading \ {"data"} : Goes(s)
    BY <1>4 DEF Registers, Ends, CreatesFolder, Loses, Completes, Skips, Breaks, Reading
  <2>2. ASSUME state # "over", NEW s \in Reading \ {"data"}, Goes(s)
        PROVE  Unpacking'
    BY <1>3, <2>2 DEF Goes, Reading
  <2> QED
    BY <1>2, <2>1, <2>2
<1>5. CASE Starts \/ OpensMeta
  BY <1>3, <1>5 DEF Starts, OpensMeta
<1>6. CASE Creates
  <2>1. CASE Goes("data")
    <3>1. UNCHANGED <<cur, top, outcome, got>> /\ state = "create" /\ state' = "data"
      BY <1>6, <2>1 DEF Creates, Goes, localVars, replyVars
    <3>2. disk'[cur.path] = File("us", 0, cur.size)
      BY <1>6, <3>1, CreatesIs
    <3> QED
      BY <3>1, <3>2 DEF Unpacking, Ours
  <2> QED
    BY <1>2, <1>6, <2>1 DEF Creates
<1>7. CASE Copies
  <2>1. /\ UNCHANGED <<cur, top, outcome, state>> /\ state = "data" /\ got' = got + 1
        /\ disk' = [disk EXCEPT ![cur.path] =
                      IF disk[cur.path].by = "us" THEN [disk[cur.path] EXCEPT !.n = got + 1]
                                                  ELSE disk[cur.path]]
    BY <1>7 DEF Copies, replyVars
  <2>2. cur.path \in Path /\ disk \in [Path -> Cell]
    BY <2>1 DEF Unpacking, GatewayTypeOK
  <2>3. CASE disk[cur.path].by = "us"
    <3>1. disk[cur.path] = File("us", got, cur.size)
      BY <2>1, <2>3 DEF Unpacking
    <3>2. disk'[cur.path] = [File("us", got, cur.size) EXCEPT !.n = got + 1]
      BY <2>1, <2>2, <2>3, <3>1
    <3>3. disk'[cur.path] = File("us", got', cur.size)
      BY <2>1, <3>2 DEF File
    <3> QED
      BY <2>1, <3>3 DEF Unpacking, Ours
  <2>4. CASE disk[cur.path].by # "us"
    <3>1. disk'[cur.path].by # "us"
      BY <2>1, <2>2, <2>4
    <3> QED
      BY <2>1, <3>1 DEF Unpacking, Ours
  <2> QED
    BY <2>3, <2>4
<1>8. CASE PlacesOrLoses
  <2>1. UNCHANGED <<state, cur, got, top, outcome>>
    BY <1>8 DEF PlacesOrLoses, downVars, localVars, replyVars
  <2>2. CASE state = "data" /\ disk'[cur.path].by = "us"
    <3>1. <<rival, "self">> \in Path /\ cur.path \in Path
      BY <1>8, <2>2 DEF PlacesOrLoses, Names, Named, Path, Below, Unpacking
    <3>2. File("rival", 0, 1).by # "us" /\ Free.by # "us"
      BY DEF File, Free, NoName
    <3>3. disk'[cur.path] = disk[cur.path]
      BY <1>8, <2>2, <3>1, <3>2 DEF PlacesOrLoses, GatewayTypeOK
    <3> QED
      BY <2>1, <2>2, <3>3 DEF Unpacking, Ours
  <2> QED
    BY <2>1, <2>2 DEF Unpacking, Ours
<1>9. CASE Cancels \/ Drops \/ Picks \/ Upload
  <2>1. UNCHANGED <<state, cur, got, top, outcome, disk>>
    <3>1. CASE Cancels \/ Drops \/ Picks
      BY <3>1 DEF Cancels, Drops, Picks, folderVars, downVars, localVars, replyVars
    <3>2. CASE Upload
      BY <3>2
         DEF Upload, Lists, RegistersDrop, Stalls, Appends, Terminates, Answers, Judges,
             folderVars, downVars, localVars, replyVars
    <3> QED
      BY <1>9, <3>1, <3>2
  <2> QED
    BY <2>1 DEF Unpacking, Ours
<1> QED
  BY <1>1, <1>4, <1>5, <1>6, <1>7, <1>8, <1>9 DEF GatewayNext, Thread

-----------------------------------------------------------------------------
(* Nothing comes undone *)

\* Two transfers that took the same name have it for good.
LEMMA ClashStays ==
  ASSUME GatewayInv, GatewayNext, NoClash'
  PROVE  NoClash
<1> USE DEF GatewayInv
<1> SUFFICES ASSUME NEW m \in Name, top[m] # NoLocal, top[m] = rival
             PROVE  FALSE
  BY DEF NoClash
<1>1. top'[m] = top[m] /\ rival' = rival
  BY StepNames
<1> QED
  BY <1>1 DEF NoClash

\* The result, once there, stays, and so does the way the reply ended.
LEMMA StepOutcome ==
  ASSUME GatewayInv, GatewayNext, outcome # "none"
  PROVE  UNCHANGED <<outcome, state, phone, framing, made, disk>> \/ PlacesOrLoses
<1> USE DEF GatewayInv
<1>1. state = "over"
  BY DEF Unpacking
<1>2. ~(Starts \/ Drops \/ Thread)
  BY <1>1
     DEF Starts, Drops, Thread, Registers, Ends, OpensAny, Opens, Creates, CreatesFolder,
         Copies, Loses, Completes, OpensMeta, Skips, Breaks, Reading
<1>3. CASE Cancels \/ Picks
  BY <1>1, <1>3 DEF Cancels, Picks, folderVars, downVars, replyVars
<1>4. CASE Upload
  BY <1>4
     DEF Upload, Lists, RegistersDrop, Stalls, Appends, Terminates, Answers, Judges,
         folderVars, downVars, replyVars
<1> QED
  BY <1>2, <1>3, <1>4 DEF GatewayNext

\* A file that is there, whole or not, stays while the download does not fail.
LEMMA StepFinished ==
  ASSUME GatewayInv, GatewayNext, NoClash, NEW p \in Path, Finished(p), outcome' # "err"
  PROVE  Finished(p)'
<1> USE DEF GatewayInv
<1>1. (Ours(p))' /\ p[1] # rival
  BY StepNames, Paths DEF Finished, Ours, Names, Named, NoClash
<1>2. CASE disk'[p] = disk[p]
  BY <1>1, <1>2 DEF Finished
<1>3. CASE Creates
  <2>1. state' = "data" \/ disk' = disk
    BY <1>3 DEF Creates, Goes
  <2>2. CASE state' = "data" /\ p = cur.path
    <3>1. disk'[p] = File("us", 0, cur.size)
      BY <1>3, <2>2, CreatesIs
    <3> QED
      BY <1>1, <3>1 DEF Finished, File
  <2>3. CASE state' = "data" /\ p # cur.path
    <3>1. disk'[p] # disk[p] => disk[p].kind = "free"
      BY <1>3, <2>3, CreatesIs
    <3> QED
      BY <1>2, <3>1 DEF Finished
  <2> QED
    BY <1>2, <2>1, <2>2, <2>3
<1>4. CASE CreatesFolder
  <2>1. disk'[p] # disk[p] => disk[p].kind = "free"
    BY <1>4, WithFolderIs DEF CreatesFolder, Unpacking
  <2> QED
    BY <1>2, <2>1 DEF Finished
<1>5. CASE Copies
  <2>1. /\ disk'[p].kind = disk[p].kind
        /\ disk'[p].by = disk[p].by
    BY <1>5 DEF Copies, GatewayTypeOK, Cell
  <2> QED
    BY <1>1, <2>1 DEF Finished
<1>6. CASE Loses
  BY <1>6 DEF Loses, Finishes
<1>7. CASE PlacesOrLoses
  <2>1. p # <<rival, "self">>
    BY <1>1
  <2> QED
    BY <1>2, <1>7, <2>1 DEF PlacesOrLoses, GatewayTypeOK
<1> QED
  BY <1>2, <1>3, <1>4, <1>5, <1>6, <1>7, OnlyTheseWrite

\* What the download wrote is whole, or being written.
LEMMA StepWhole ==
  ASSUME GatewayInv, GatewayNext, NoClash, NEW p \in Path, disk'[p].by = "us"
  PROVE  Whole(p)'
<1> USE DEF GatewayInv
<1>1. disk[p].by = "us" => Whole(p)
  BY DEF Unbroken
<1>2. CASE disk'[p].n = disk'[p].of
  BY <1>2 DEF Whole
<1>3. ASSUME disk'[p] = disk[p], ~Completes, ~Loses
      PROVE  Whole(p)'
  <2>1. CASE state = "data" /\ p = cur.path
    <3>1. Thread => Copies
      BY <1>3, <2>1
         DEF Thread, Registers, Ends, OpensAny, Opens, Creates, CreatesFolder, OpensMeta,
             Skips, Breaks
    <3>2. CASE Upload
      BY <2>1, <3>2
         DEF Upload, Lists, RegistersDrop, Stalls, Appends, Terminates, Answers, Judges,
             downVars, localVars, Whole
    <3> QED
      BY <2>1, <3>1, <3>2
         DEF GatewayNext, Starts, Cancels, Drops, Copies, Picks, PlacesOrLoses, downVars,
             localVars, Whole
  <2>2. CASE disk[p].n = disk[p].of
    BY <1>3, <2>2 DEF Whole
  <2> QED
    BY <1>1, <1>3, <2>1, <2>2 DEF Whole
<1>4. CASE Completes
  <2>1. disk' = disk /\ state = "data" /\ got = cur.size
    BY <1>4 DEF Completes, folderVars
  <2>2. CASE p = cur.path
    BY <2>1, <2>2 DEF Unpacking, File, Whole
  <2> QED
    BY <1>1, <2>1, <2>2 DEF Whole
<1>5. CASE Creates
  <2>1. CASE state' = "data"
    <3>1. cur' = cur /\ (disk'[p] # disk[p] /\ p # cur.path => disk'[p] = Folder)
      BY <1>5, <2>1, CreatesIs DEF Creates, Goes, Finishes, localVars
    <3> QED
      BY <1>3, <1>5, <2>1, <3>1, CellsTyped DEF Whole, Creates, Completes, Loses
  <2>2. CASE state' # "data"
    <3>1. disk' = disk
      BY <1>5, <2>2 DEF Creates, Goes
    <3> QED
      BY <1>3, <1>5, <3>1 DEF Creates, Completes, Loses
  <2> QED
    BY <2>1, <2>2
<1>6. CASE CreatesFolder
  <2>1. disk'[p] # disk[p] => disk'[p] = Folder
    BY <1>6, WithFolderIs DEF CreatesFolder, Unpacking
  <2> QED
    BY <1>3, <1>6, <2>1, CellsTyped DEF Whole, CreatesFolder, Completes, Loses
<1>7. CASE Copies
  <2>1. disk'[p] = disk[p] \/ p = cur.path
    BY <1>7 DEF Copies, GatewayTypeOK
  <2> QED
    <3>1. state = "data" /\ state' = "data" /\ cur' = cur
      BY <1>7 DEF Copies
    <3> QED
      BY <1>1, <2>1, <3>1 DEF Whole
<1>8. CASE Loses
  <2>1. p # cur.path /\ disk'[p] = disk[p]
    BY <1>8, CellsTyped DEF Loses, Unpacking, GatewayTypeOK
  <2> QED
    BY <1>1, <2>1 DEF Whole
<1>9. CASE PlacesOrLoses
  <2>1. disk'[p] = disk[p] \/ disk'[p] = File("rival", 0, 1) \/ disk'[p] = Free
    BY <1>9 DEF PlacesOrLoses, GatewayTypeOK
  <2>2. disk'[p] = disk[p] /\ UNCHANGED <<state, cur>>
    BY <1>9, <2>1, CellsTyped DEF PlacesOrLoses, File, downVars, localVars
  <2> QED
    BY <1>1, <2>2 DEF Whole
<1> QED
  BY <1>3, <1>4, <1>5, <1>6, <1>7, <1>8, <1>9, OnlyTheseWrite

\* The download's result is "ok" only of a reply that was not cut in a chunk.
LEMMA StepUncut ==
  ASSUME GatewayInv, GatewayNext, outcome' = "ok"
  PROVE  phone' # "gone" \/ framing' # "chunked"
<1> USE DEF GatewayInv
<1>1. CASE outcome # "none"
  <2>1. UNCHANGED <<outcome, phone, framing>>
    BY <1>1, StepOutcome DEF PlacesOrLoses, downVars, replyVars
  <2> QED
    BY <2>1 DEF Unbroken
<1>2. CASE outcome = "none"
  <2>1. Ends
    <3>1. Thread => Ends
      BY <1>2
         DEF Thread, Registers, OpensAny, Opens, Creates, CreatesFolder, Copies, Loses,
             Completes, OpensMeta, Skips, Breaks, Finishes, Goes
    <3>2. ~Upload
      BY <1>2
         DEF Upload, Lists, RegistersDrop, Stalls, Appends, Terminates, Answers, Judges,
             downVars
    <3> QED
      BY <1>2, <3>1, <3>2 DEF GatewayNext, Starts, Cancels, Drops, Picks, PlacesOrLoses, downVars
  <2> QED
    BY <2>1 DEF Ends, Gets, Dries, replyVars
<1> QED
  BY <1>1, <1>2

\* What is finished now was finished before, or its data was being written.
LEMMA StepMade ==
  ASSUME GatewayInv, GatewayNext, NEW p \in Path, state' # "data" \/ p # cur'.path, p \in made'
  PROVE  p \in made \/ (state = "data" /\ p = cur.path)
<1>1. CASE Completes
  BY <1>1 DEF Completes
<1>2. CASE ~Completes
  <2>1. CASE Thread
    BY <1>2, <2>1
       DEF Thread, Registers, Ends, OpensAny, Opens, Creates, CreatesFolder, Copies, Loses,
           OpensMeta, Skips, Breaks, replyVars
  <2>2. CASE Upload
    BY <2>2
       DEF Upload, Lists, RegistersDrop, Stalls, Appends, Terminates, Answers, Judges,
           downVars, replyVars
  <2> QED
    BY <2>1, <2>2
       DEF GatewayNext, Starts, Cancels, Drops, Picks, PlacesOrLoses, downVars, replyVars
<1> QED
  BY <1>1, <1>2

\* What is being written now was being written, or has been created.
LEMMA StepWriting ==
  ASSUME GatewayInv, GatewayNext, state' = "data"
  PROVE  cur' = cur /\ (state = "data" \/ Creates)
<1>1. CASE Thread
  BY <1>1
     DEF Thread, Registers, Ends, OpensAny, Opens, Creates, CreatesFolder, Copies, Loses,
         Completes, OpensMeta, Skips, Breaks, Finishes, Goes, localVars
<1>2. CASE Upload
  BY <1>2
     DEF Upload, Lists, RegistersDrop, Stalls, Appends, Terminates, Answers, Judges, downVars,
         localVars
<1> QED
  BY <1>1, <1>2
     DEF GatewayNext, Starts, Cancels, Drops, Picks, PlacesOrLoses, downVars, localVars

\* What the download wrote stays whole.
LEMMA StepUnbroken ==
  ASSUME GatewayInv, GatewayNext
  PROVE  Unbroken'
<1> USE DEF GatewayInv
<1>1. outcome' = "ok" => phone' # "gone" \/ framing' # "chunked"
  BY StepUncut
<1>2. SUFFICES ASSUME NoClash', NEW p \in Path
               PROVE  /\ disk'[p].by = "us" => Whole(p)'
                      /\ outcome' # "err" /\ (p \in made' \/ (state' = "data" /\ p = cur'.path))
                           => Finished(p)'
  BY <1>1 DEF Unbroken
<1>3. NoClash
  BY <1>2, ClashStays
<1>4. outcome' # "err" => outcome # "err"
  BY StepOutcome DEF PlacesOrLoses, downVars
<1>5. outcome' # "err" /\ Finished(p) => Finished(p)'
  BY <1>3, StepFinished
<1>6. CASE state' = "data" /\ p = cur'.path
  <2>1. CASE state = "data"
    <3>1. p = cur.path
      BY <1>6, StepWriting
    <3> QED
      BY <1>3, <1>4, <1>5, <2>1, <3>1, StepWhole DEF Unbroken
  <2>2. CASE Creates
    <3>1. disk'[p] = File("us", 0, cur.size) /\ p = cur.path /\ state = "create"
      BY <1>6, <2>2, StepWriting, CreatesIs DEF Creates
    <3>2. (Ours(p))'
      BY <3>1, StepNames, Paths DEF Unpacking, Ours
    <3> QED
      BY <1>3, <3>1, <3>2, StepWhole DEF Finished, File
  <2> QED
    BY <1>6, <2>1, <2>2, StepWriting
<1>7. CASE ~(state' = "data" /\ p = cur'.path)
  BY <1>3, <1>4, <1>5, <1>7, StepMade, StepWhole DEF Unbroken
<1> QED
  BY <1>6, <1>7

\* The phone's answer, and the result of it, follow the terminator.
LEMMA StepUploading ==
  ASSUME GatewayInv, GatewayNext
  PROVE  Uploading'
<1> USE DEF GatewayInv
<1>1. CASE Upload
  BY <1>1
     DEF Upload, Lists, RegistersDrop, Stalls, Appends, Terminates, Answers, Judges, GivesUp,
         Reply, Uploading
<1>2. CASE ~Upload
  <2>1. UNCHANGED upVars
    BY <1>2
       DEF GatewayNext, Thread, Starts, Cancels, Drops, Picks, PlacesOrLoses, Registers, Ends,
           OpensAny, Opens, Creates, CreatesFolder, Copies, Loses, Completes, OpensMeta, Skips,
           Breaks
  <2> QED
    BY <2>1 DEF upVars, Uploading
<1> QED
  BY <1>1, <1>2

-----------------------------------------------------------------------------
\* The inductive invariant: names are given out once and never one of the user's,
\* everything in the folder has an owner, what is being unpacked is on disk as far
\* as it was copied, and what the download finished is there (extract_tar_to_dir).
THEOREM GatewayInvariance == GatewaySpec => []GatewayInv
<1>1. GatewayInit => GatewayInv
  <2> SUFFICES ASSUME GatewayInit PROVE GatewayInv
    OBVIOUS
  <2>1. kept \subseteq Name \X {0} /\ kept \subseteq Local
    BY DEF GatewayInit, Local
  <2>2. Free \in Cell /\ Users \in Cell /\ Free.n <= Free.of /\ Users.n <= Users.of
    BY SizeAssumption DEF Free, Users, Cell
  <2>3. Sound(disk)
    BY <2>2 DEF GatewayInit, Sound
  <2>4. NoEntry \in Entry /\ NoEntry.size = 0
    BY SizeAssumption DEF NoEntry, Entry
  <2>5. GatewayTypeOK
    <3>1. got \in 0 .. cur.size /\ cur \in Entry
      BY <2>4 DEF GatewayInit
    <3>2. top \in [Name -> Local \cup {NoLocal}] /\ made \subseteq Path
      BY DEF GatewayInit
    <3>3. left \in 0 .. MaxItem /\ entries \in 0 .. MaxEntry
      BY ItemAssumption, EntryAssumption DEF GatewayInit
    <3> QED
      BY <2>1, <2>3, <3>1, <3>2, <3>3 DEF GatewayInit, GatewayTypeOK, Sound, Framing
  <2>6. Names
    BY <2>1 DEF GatewayInit, Names, Named
  <2>7. \A p \in Path : disk[p] = IF p[1] \in kept /\ p[2] = "self" THEN Users ELSE Free
    BY DEF GatewayInit
  <2>8. Taken
    BY <2>7 DEF Taken, Free
  <2>9. NothingOverwritten /\ StaysTogether
    <3>1. NothingOverwritten
      BY <2>1, <2>7 DEF NothingOverwritten, Path, Below
    <3>2. Users.by # "us" /\ Free.by # "us"
      BY DEF Users, Free, NoName
    <3> QED
      BY <2>7, <3>1, <3>2 DEF StaysTogether
  <2>10. Unpacking /\ Uploading
    BY DEF GatewayInit, Unpacking, Uploading
  <2>11. Unbroken
    BY <2>7 DEF GatewayInit, Unbroken, NoClash, Users, Free, NoName
  <2> QED
    BY <2>5, <2>6, <2>8, <2>9, <2>10, <2>11 DEF GatewayInv
<1>2. GatewayInv /\ [GatewayNext]_gatewayVars => GatewayInv'
  <2>1. GatewayInv /\ GatewayNext => GatewayInv'
    BY ThreadTyped, OthersTyped, StepNames, StepTaken, StepUnpacking, StepUnbroken, StepUploading
       DEF GatewayInv
  <2>2. GatewayInv /\ UNCHANGED gatewayVars => GatewayInv'
    BY DEF GatewayInv, gatewayVars, folderVars, rivalVars, downVars, replyVars, localVars, upVars,
           GatewayTypeOK, Names, Named, Taken, Ours, Unpacking, NothingOverwritten, StaysTogether,
           Unbroken, NoClash, Whole, Finished, Uploading
  <2> QED
    BY <2>1, <2>2
<1> QED
  BY <1>1, <1>2, PTL DEF GatewaySpec

\* Type correctness; what is on disk of a file is no more than the file.
THEOREM GatewayTypeCorrect == GatewaySpec => []GatewayTypeOK
<1>1. GatewayInv => GatewayTypeOK
  BY DEF GatewayInv
<1> QED
  BY <1>1, GatewayInvariance, PTL

\* unique_path: whatever the archive holds, however often its names repeat and
\* whatever another transfer puts into the folder meanwhile, no file or folder of
\* the user is written to or removed, for any number of names.
THEOREM UsersFilesStay == GatewaySpec => []NothingOverwritten
<1>1. GatewayInv => NothingOverwritten
  BY DEF GatewayInv
<1> QED
  BY <1>1, GatewayInvariance, PTL

\* A download that reports done has unpacked all it was given, every file whole, and
\* none of it was lost again: for archives of any length, entries of any size and
\* any cut of the connection (extract_tar_to_dir, ChunkedReader), as long as the
\* other transfer into the folder did not take one of its names.
THEOREM DoneMeansWhole == GatewaySpec => []DoneIsWhole
<1>1. GatewayInv => DoneIsWhole
  <2> SUFFICES ASSUME GatewayInv PROVE DoneIsWhole
    OBVIOUS
  <2>1. Status = "done" => outcome = "ok" /\ state # "data"
    BY DEF GatewayInv, GatewayTypeOK, Unpacking, Status
  <2>2. outcome = "ok" /\ state # "data" /\ NoClash =>
          \A p \in Path : /\ disk[p].by = "us" => disk[p].n = disk[p].of
                          /\ p \in made => disk[p].kind = "file" /\ disk[p].by = "us"
    BY DEF GatewayInv, Unbroken, Whole, Finished
  <2>3. outcome = "ok" => phone # "gone" \/ framing # "chunked"
    BY DEF GatewayInv, Unbroken
  <2>4. pushed = "ok" => ended /\ left = 0
    BY DEF GatewayInv, Uploading
  <2> QED
    BY <2>1, <2>2, <2>3, <2>4 DEF DoneIsWhole, NoClash
<1> QED
  BY <1>1, GatewayInvariance, PTL

\* All that the download writes of a top-level name is under the one local name it
\* got, however its entries are ordered ("is renamed once").
THEOREM OneNameEach == GatewaySpec => []StaysTogether
<1>1. GatewayInv => StaysTogether
  BY DEF GatewayInv
<1> QED
  BY <1>1, GatewayInvariance, PTL
=============================================================================
