---------------------------- MODULE ScreenProofs ----------------------------
(***************************************************************************)
(* What Screen promises for any number of streams and frames, and queues   *)
(* of any capacity: its types, and that no frame is lost or misplaced      *)
(* between the mirror WS and the app.                                      *)
(***************************************************************************)
EXTENDS Screen, TLAPS

\* What a stream of video is made of.
filmVars == <<start, video, frames, arrived, shown>>

\* The steps that touch it, of each stream.
StartStep(s) == Calls(s) \/ Starting(s)

\* All the others.
Beside ==
  \/ \E s \in Stream : \/ ReadsAudio(s) \/ ReadsLock(s) \/ Hears(s) \/ Pongs(s) \/ Writes(s)
                       \/ Stops(s) \/ PhoneMirrors(s)
                       \/ \E p \in Poller : \/ SeesStop(s, p) \/ FindsEnd(s, p)
                                            \/ p \in Side /\ TakesSide(s, p)
  \/ InputCall \/ InputReturns
  \/ CenterCalls \/ StopsCenter \/ Center \/ PhoneAsks \/ Lags
  \/ UNCHANGED vars

LEMMA Split ==
  ASSUME [Next]_vars
  PROVE  \/ Beside
         \/ \E s \in Stream : \/ StartStep(s) \/ ReadsFrame(s) \/ Queues(s) \/ ReadsOther(s)
                              \/ TakesFrame(s) \/ Drops(s)
BY DEF Next, Beside, StartStep, VideoLoop, Polls

-----------------------------------------------------------------------------
(* Types *)

\* TypeOK, one part for each part of the state.
StartTyped ==
  /\ start \in [Stream -> {"none", "queued", "opened", "live", "failed", "gone"} \cup Opening]
  /\ tries \in 0 .. MaxTry
  /\ slot \in Stream \cup {None}
VideoTyped ==
  /\ video \in [Stream -> {"none", "reading", "sending", "over"}]
  /\ packet \in [Stream -> {"none", "frame", "audio", "lock", "other"}]
FilmTyped ==
  /\ frames \in [Stream -> Seq(Nat)]
  /\ arrived \in [Stream -> Nat]
  /\ shown \in [Stream -> Nat]
PollTyped ==
  /\ side \in [Stream -> SUBSET Side]
  /\ poll \in [Stream -> [Poller -> {"none", "open", "over"}]]
  /\ stop \in [Stream -> BOOLEAN]
InputTyped ==
  /\ reader \in [Stream -> {"none", "reading", "ponging", "over"}]
  /\ writer \in [Stream -> {"none", "open", "over"}]
  /\ cmds \in [Stream -> 0 .. CmdCap]
  /\ hand \in Stream \cup {None}
CenterTyped == center \in {"off", "locking", "polling", "asked", "taken", "replied", "over"}
Typed == StartTyped /\ VideoTyped /\ FilmTyped /\ PollTyped /\ InputTyped /\ CenterTyped

LEMMA TypedIsTypeOK == TypeOK <=> Typed
BY DEF TypeOK, Typed, StartTyped, VideoTyped, FilmTyped, PollTyped, InputTyped, CenterTyped

\* A part of the state that does not change keeps its types.
LEMMA Untouched ==
  ASSUME Typed
  PROVE  /\ UNCHANGED <<start, tries, slot>> => StartTyped'
         /\ UNCHANGED <<video, packet>> => VideoTyped'
         /\ UNCHANGED <<frames, arrived, shown>> => FilmTyped'
         /\ UNCHANGED <<side, poll, stop>> => PollTyped'
         /\ UNCHANGED <<reader, writer, cmds, hand>> => InputTyped'
         /\ UNCHANGED center => CenterTyped'
BY DEF Typed, StartTyped, VideoTyped, FilmTyped, PollTyped, InputTyped, CenterTyped

LEMMA StartStepTyped ==
  ASSUME Typed, NEW s \in Stream, StartStep(s)
  PROVE  Typed'
<1> USE DEF OnlyStarts, videoVars, pollVars
<1>1. CASE Calls(s)
  <2>1. StartTyped'
    BY <1>1 DEF Calls, StartTyped, Typed
  <2>2. UNCHANGED <<video, packet, frames, arrived, shown, side, poll, stop, reader, writer,
     cmds, hand, center>>
    BY <1>1 DEF Calls
  <2> QED
    BY <2>1, <2>2, Untouched DEF Typed
<1>2. CASE Locks(s)
  <2>1. StartTyped'
    BY <1>2, TryAssumption DEF Locks, Opening, StartTyped, Typed
  <2>2. UNCHANGED <<video, packet, frames, arrived, shown, side, poll, stop, reader, writer,
     cmds, hand, center>>
    BY <1>2 DEF Locks, Opening
  <2> QED
    BY <2>1, <2>2, Untouched DEF Typed
<1>3. CASE PortShut(s)
  <2>1. StartTyped'
    BY <1>3, TryAssumption DEF PortShut, Opening, StartTyped, Typed
  <2>2. UNCHANGED <<video, packet, frames, arrived, shown, side, poll, stop, reader, writer,
     cmds, hand, center>>
    BY <1>3 DEF PortShut, Opening
  <2> QED
    BY <2>1, <2>2, Untouched DEF Typed
<1>4. CASE PortOpen(s)
  <2>1. StartTyped'
    BY <1>4, TryAssumption DEF PortOpen, Opening, StartTyped, Typed
  <2>2. UNCHANGED <<video, packet, frames, arrived, shown, side, poll, stop, reader, writer,
     cmds, hand, center>>
    BY <1>4 DEF PortOpen, Opening
  <2> QED
    BY <2>1, <2>2, Untouched DEF Typed
<1>5. CASE Mirrors(s)
  <2>1. StartTyped'
    BY <1>5 DEF Mirrors, Opening, StartTyped, Typed
  <2>2. VideoTyped'
    BY <1>5 DEF Mirrors, Opening, VideoTyped, Typed
  <2>3. UNCHANGED <<frames, arrived, shown, side, poll, stop, reader, writer, cmds, hand, center>>
    BY <1>5 DEF Mirrors, Opening
  <2> QED
    BY <2>1, <2>2, <2>3, Untouched DEF Typed
<1>6. CASE Controls(s)
  <2>1. StartTyped'
    BY <1>6 DEF Controls, Opening, StartTyped, Typed
  <2>2. InputTyped'
    BY <1>6 DEF Controls, Opening, InputTyped, Typed
  <2>3. UNCHANGED <<video, packet, frames, arrived, shown, side, poll, stop, center>>
    BY <1>6 DEF Controls, Opening
  <2> QED
    BY <2>1, <2>2, <2>3, Untouched DEF Typed
<1>7. CASE Stores(s)
  <2>1. StartTyped'
    BY <1>7 DEF Stores, inputVars, StartTyped, Typed
  <2>2. PollTyped'
    BY <1>7 DEF Stores, inputVars, PollTyped, Typed
  <2>3. UNCHANGED <<video, packet, frames, arrived, shown, reader, writer, cmds, hand, center>>
    BY <1>7 DEF Stores, inputVars
  <2> QED
    BY <2>1, <2>2, <2>3, Untouched DEF Typed
<1> QED
  BY <1>1, <1>2, <1>3, <1>4, <1>5, <1>6, <1>7 DEF StartStep, Starting

LEMMA VideoStepTyped ==
  ASSUME Typed, NEW s \in Stream,
         ReadsFrame(s) \/ Queues(s) \/ ReadsOther(s) \/ TakesFrame(s) \/ Drops(s)
  PROVE  Typed'
<1> USE DEF OnlyVideo, OnlyPoll, startVars, pollVars, inputVars
<1>1. CASE ReadsFrame(s)
  <2>1. VideoTyped'
    BY <1>1 DEF ReadsFrame, Reads, VideoTyped, Typed
  <2>2. FilmTyped'
    BY <1>1 DEF ReadsFrame, Reads, FilmTyped, Typed
  <2>3. UNCHANGED <<start, tries, slot, side, poll, stop, reader, writer, cmds, hand, center>>
    BY <1>1 DEF ReadsFrame, Reads
  <2> QED
    BY <2>1, <2>2, <2>3, Untouched DEF Typed
<1>2. CASE ReadsOther(s)
  <2>1. VideoTyped'
    BY <1>2 DEF ReadsOther, Reads, VideoTyped, Typed
  <2>2. UNCHANGED <<start, tries, slot, frames, arrived, shown, side, poll, stop, reader,
     writer, cmds, hand, center>>
    BY <1>2 DEF ReadsOther, Reads
  <2> QED
    BY <2>1, <2>2, Untouched DEF Typed
<1>3. CASE Queues(s)
  <2>1. Append(frames[s], arrived[s]) \in Seq(Nat)
    BY DEF Typed, FilmTyped
  <2>2. FilmTyped'
    BY <1>3, <2>1 DEF Queues, FilmTyped, Typed
  <2>3. VideoTyped'
    BY <1>3 DEF Queues, VideoTyped, Typed
  <2>4. UNCHANGED <<start, tries, slot, side, poll, stop, reader, writer, cmds, hand, center>>
    BY <1>3 DEF Queues
  <2> QED
    BY <2>2, <2>3, <2>4, Untouched DEF Typed
<1>4. CASE TakesFrame(s)
  <2>1. frames[s] \in Seq(Nat) /\ frames[s] # <<>>
    BY <1>4 DEF TakesFrame, Typed, FilmTyped
  <2>2. Head(frames[s]) \in Nat /\ Tail(frames[s]) \in Seq(Nat)
    BY <2>1
  <2>3. FilmTyped'
    BY <1>4, <2>2 DEF TakesFrame, FilmTyped, Typed
  <2>4. PollTyped'
    BY <1>4 DEF TakesFrame, Again, PollTyped, Typed, Poller
  <2>5. UNCHANGED <<start, tries, slot, video, packet, reader, writer, cmds, hand, center>>
    BY <1>4 DEF TakesFrame
  <2> QED
    BY <2>3, <2>4, <2>5, Untouched DEF Typed
<1>5. CASE Drops(s)
  <2>1. StartTyped'
    BY <1>5 DEF Drops, StartTyped, Typed
  <2>2. VideoTyped'
    BY <1>5 DEF Drops, VideoTyped, Typed
  <2>3. <<>> \in Seq(Nat) /\ 0 \in 0 .. CmdCap
    BY CmdAssumption
  <2>4. FilmTyped'
    BY <1>5, <2>3 DEF Drops, FilmTyped, Typed
  <2>5. PollTyped'
    BY <1>5 DEF Drops, PollTyped, Typed
  <2>6. InputTyped'
    BY <1>5, <2>3 DEF Drops, InputTyped, Typed
  <2>7. UNCHANGED center
    BY <1>5 DEF Drops
  <2> QED
    BY <2>1, <2>2, <2>4, <2>5, <2>6, <2>7, Untouched DEF Typed
<1> QED
  BY <1>1, <1>2, <1>3, <1>4, <1>5

\* What is beside the video leaves it alone.
LEMMA BesideTyped ==
  ASSUME Typed, Beside
  PROVE  Typed' /\ UNCHANGED filmVars
<1> USE DEF OnlyVideo, OnlyInput, OnlyPoll, OnlyCenter, Offers, startVars, videoVars, pollVars,
            inputVars, filmVars
<1>1. ASSUME NEW s \in Stream, ReadsAudio(s) \/ ReadsLock(s)
      PROVE  Typed' /\ UNCHANGED filmVars
  <2>1. VideoTyped'
    BY <1>1 DEF ReadsAudio, ReadsLock, Reads, VideoTyped, Typed
  <2>2. PollTyped'
    BY <1>1 DEF ReadsAudio, ReadsLock, Reads, PollTyped, Typed
  <2>3. UNCHANGED <<start, tries, slot, frames, arrived, shown, reader, writer, cmds, hand,
     center, video>>
    BY <1>1 DEF ReadsAudio, ReadsLock, Reads
  <2> QED
    BY <2>1, <2>2, <2>3, Untouched DEF Typed
<1>2. ASSUME NEW s \in Stream, PhoneMirrors(s)
      PROVE  Typed' /\ UNCHANGED filmVars
  <2>1. VideoTyped'
    BY <1>2 DEF PhoneMirrors, VideoTyped, Typed
  <2>2. UNCHANGED <<start, tries, slot, frames, arrived, shown, side, poll, stop, reader,
     writer, cmds, hand, center, video>>
    BY <1>2 DEF PhoneMirrors
  <2> QED
    BY <2>1, <2>2, Untouched DEF Typed
<1>3. ASSUME NEW s \in Stream, Hears(s)
      PROVE  Typed' /\ UNCHANGED filmVars
  <2>1. PollTyped'
    BY <1>3 DEF Hears, TellsPrivacy, TellsCaret, PollTyped, Typed
  <2>2. InputTyped'
    BY <1>3 DEF Hears, TellsPrivacy, TellsCaret, InputTyped, Typed
  <2>3. UNCHANGED <<start, tries, slot, video, packet, frames, arrived, shown, center>>
    BY <1>3 DEF Hears, TellsPrivacy, TellsCaret
  <2> QED
    BY <2>1, <2>2, <2>3, Untouched DEF Typed
<1>4. ASSUME NEW s \in Stream, Pongs(s)
      PROVE  Typed' /\ UNCHANGED filmVars
  <2>1. InputTyped'
    BY <1>4, CmdAssumption DEF Pongs, InputTyped, Typed
  <2>2. UNCHANGED <<start, tries, slot, video, packet, frames, arrived, shown, side, poll, stop,
     center>>
    BY <1>4 DEF Pongs
  <2> QED
    BY <2>1, <2>2, Untouched DEF Typed
<1>5. ASSUME NEW s \in Stream, Writes(s)
      PROVE  Typed' /\ UNCHANGED filmVars
  <2>1. InputTyped'
    BY <1>5, CmdAssumption DEF Writes, InputTyped, Typed
  <2>2. UNCHANGED <<start, tries, slot, video, packet, frames, arrived, shown, side, poll, stop,
     center>>
    BY <1>5 DEF Writes
  <2> QED
    BY <2>1, <2>2, Untouched DEF Typed
<1>6. ASSUME NEW s \in Stream, Stops(s)
      PROVE  Typed' /\ UNCHANGED filmVars
  <2>1. PollTyped'
    BY <1>6 DEF Stops, PollTyped, Typed
  <2>2. UNCHANGED <<start, tries, slot, video, packet, frames, arrived, shown, reader, writer,
     cmds, hand, center>>
    BY <1>6 DEF Stops
  <2> QED
    BY <2>1, <2>2, Untouched DEF Typed
<1>7. ASSUME NEW s \in Stream, NEW p \in Poller, SeesStop(s, p) \/ FindsEnd(s, p)
      PROVE  Typed' /\ UNCHANGED filmVars
  <2>1. PollTyped'
    BY <1>7 DEF SeesStop, FindsEnd, PollTyped, Typed
  <2>2. UNCHANGED <<start, tries, slot, video, packet, frames, arrived, shown, reader, writer,
     cmds, hand, center>>
    BY <1>7 DEF SeesStop, FindsEnd
  <2> QED
    BY <2>1, <2>2, Untouched DEF Typed
<1>8. ASSUME NEW s \in Stream, NEW p \in Side, TakesSide(s, p)
      PROVE  Typed' /\ UNCHANGED filmVars
  <2>1. PollTyped'
    BY <1>8 DEF TakesSide, Again, Poller, PollTyped, Typed
  <2>2. UNCHANGED <<start, tries, slot, video, packet, frames, arrived, shown, reader, writer,
     cmds, hand, center>>
    BY <1>8 DEF TakesSide, Again, Poller
  <2> QED
    BY <2>1, <2>2, Untouched DEF Typed
<1>9. CASE InputCall
  <2>1. InputTyped'
    BY <1>9 DEF InputCall, InputTyped, StartTyped, Typed
  <2>2. UNCHANGED <<start, tries, slot, video, packet, frames, arrived, shown, side, poll, stop,
     center>>
    BY <1>9 DEF InputCall
  <2> QED
    BY <2>1, <2>2, Untouched DEF Typed
<1>10. CASE InputReturns
  <2>1. InputTyped'
    BY <1>10, CmdAssumption DEF InputReturns, InputTyped, Typed
  <2>2. UNCHANGED <<start, tries, slot, video, packet, frames, arrived, shown, side, poll, stop,
     center>>
    BY <1>10 DEF InputReturns
  <2> QED
    BY <2>1, <2>2, Untouched DEF Typed
<1>11. CASE CenterCalls \/ StopsCenter \/ Center \/ PhoneAsks \/ Lags
  <2>1. CenterTyped'
    BY <1>11 DEF CenterCalls, StopsCenter, Center, PhoneAsks, Lags, Subscribes, CenterTakes,
       Replies, Centers, CenterTyped, Typed
  <2>2. UNCHANGED <<start, tries, slot, video, packet, frames, arrived, shown, side, poll, stop,
     reader, writer, cmds, hand>>
    BY <1>11 DEF CenterCalls, StopsCenter, Center, PhoneAsks, Lags, Subscribes, CenterTakes,
       Replies, Centers
  <2> QED
    BY <2>1, <2>2, Untouched DEF Typed
<1>12. CASE UNCHANGED vars
  <2>1. UNCHANGED <<start, tries, slot, video, packet, frames, arrived, shown, side, poll, stop,
     reader, writer, cmds, hand, center>>
    BY <1>12 DEF vars
  <2> QED
    BY <2>1, Untouched DEF Typed
<1> QED
  BY <1>1, <1>2, <1>3, <1>4, <1>5, <1>6, <1>7, <1>8, <1>9, <1>10, <1>11, <1>12 DEF Beside

LEMMA NextTyped ==
  ASSUME Typed, [Next]_vars
  PROVE  Typed'
BY Split, BesideTyped, StartStepTyped, VideoStepTyped

LEMMA InitTyped ==
  ASSUME Init
  PROVE  Typed
<1>1. StartTyped
  BY TryAssumption DEF Init, StartTyped
<1>2. FilmTyped
  BY DEF Init, FilmTyped
<1>3. InputTyped
  BY CmdAssumption DEF Init, InputTyped
<1>4. VideoTyped /\ PollTyped /\ CenterTyped
  BY DEF Init, VideoTyped, PollTyped, CenterTyped
<1> QED
  BY <1>1, <1>2, <1>3, <1>4 DEF Typed

\* TypeOK for every bound: no queue of commands holds more than it has room for.
THEOREM TypeCorrect == Spec => []TypeOK
<1>1. Init => Typed
  BY InitTyped
<1>2. Typed /\ [Next]_vars => Typed'
  BY NextTyped
<1>3. Typed => TypeOK
  BY TypedIsTypeOK
<1> QED
  BY <1>1, <1>2, <1>3, PTL DEF Spec

-----------------------------------------------------------------------------
(* The video *)

\* A stream has no reader before it has a mirror WS.
Unopened(s) == start[s] \in {"none", "queued", "asking", "mirror"} => video[s] = "none"

\* VideoWhole, of one stream.
Whole(s) ==
  start[s] # "gone" =>
    /\ Len(frames[s]) + (IF video[s] = "sending" THEN 1 ELSE 0) = arrived[s] - shown[s]
    /\ \A i \in 1 .. Len(frames[s]) : frames[s][i] = shown[s] + i

\* What a step of a stream's video may do.
Film(s) == ReadsFrame(s) \/ Queues(s) \/ ReadsOther(s) \/ TakesFrame(s) \/ Drops(s)

\* The frames of a stream, and the functions that they are kept in.
LEMMA Frames ==
  ASSUME Typed, NEW s \in Stream
  PROVE  /\ frames[s] \in Seq(Nat) /\ arrived[s] \in Nat /\ shown[s] \in Nat
         /\ s \in DOMAIN frames /\ s \in DOMAIN arrived /\ s \in DOMAIN shown
         /\ s \in DOMAIN start /\ s \in DOMAIN video
BY DEF Typed, StartTyped, VideoTyped, FilmTyped

\* Another stream than the one that steps.
LEMMA OthersStay ==
  ASSUME Typed, NEW s \in Stream, NEW r \in Stream, r # s, StartStep(s) \/ Film(s)
  PROVE  /\ start'[r] = start[r] /\ video'[r] = video[r] /\ frames'[r] = frames[r]
         /\ arrived'[r] = arrived[r] /\ shown'[r] = shown[r]
<1> USE Frames
<1>1. CASE StartStep(s)
  BY <1>1 DEF StartStep, Calls, Starting, Locks, PortShut, PortOpen, Mirrors, Controls, Stores,
     OnlyStarts, videoVars, pollVars
<1>2. CASE ReadsFrame(s) \/ Queues(s) \/ ReadsOther(s)
  BY <1>2 DEF ReadsFrame, Queues, ReadsOther, Reads, OnlyVideo, startVars, pollVars
<1>3. CASE TakesFrame(s) \/ Drops(s)
  BY <1>3 DEF TakesFrame, Drops, OnlyPoll, startVars
<1> QED
  BY <1>1, <1>2, <1>3 DEF Film

\* What a start does to the stream it starts.
LEMMA StartFilm ==
  ASSUME Typed, NEW s \in Stream, StartStep(s), Unopened(s)
  PROVE  /\ Unopened(s)'
         /\ UNCHANGED <<frames, arrived, shown>>
         /\ start[s] # "gone"
         /\ video'[s] = video[s] \/ (video[s] = "none" /\ video'[s] = "reading")
<1> USE Frames DEF OnlyStarts, videoVars, pollVars, Opening, Unopened
<1>1. CASE Calls(s) \/ Locks(s) \/ PortShut(s) \/ PortOpen(s)
  BY <1>1 DEF Calls, Locks, PortShut, PortOpen
<1>2. CASE Mirrors(s)
  BY <1>2 DEF Mirrors
<1>3. CASE Controls(s)
  BY <1>3 DEF Controls
<1>4. CASE Stores(s)
  BY <1>4 DEF Stores
<1> QED
  BY <1>1, <1>2, <1>3, <1>4 DEF StartStep, Starting

LEMMA UnopenedKept ==
  ASSUME Typed, NEW s \in Stream, Unopened(s), Film(s)
  PROVE  Unopened(s)'
<1> USE Frames DEF Unopened
<1>1. CASE ReadsFrame(s) \/ Queues(s) \/ ReadsOther(s)
  BY <1>1 DEF ReadsFrame, Queues, ReadsOther, Reads, OnlyVideo, startVars
<1>2. CASE TakesFrame(s) \/ Drops(s)
  BY <1>2 DEF TakesFrame, Drops, OnlyPoll, startVars
<1> QED
  BY <1>1, <1>2 DEF Film

LEMMA WholeKept ==
  ASSUME Typed, NEW s \in Stream, Unopened(s), Whole(s), StartStep(s) \/ Film(s)
  PROVE  Whole(s)'
<1> USE Frames
<1>1. CASE StartStep(s)
  BY <1>1, StartFilm DEF Whole
<1>2. CASE ReadsFrame(s)
  <2>1. /\ video[s] = "reading" /\ video'[s] = "sending" /\ arrived'[s] = arrived[s] + 1
        /\ UNCHANGED <<start, frames, shown>>
    BY <1>2 DEF ReadsFrame, Reads, OnlyVideo, startVars, pollVars
  <2> QED
    BY <2>1 DEF Whole
<1>3. CASE Queues(s)
  <2>1. /\ video[s] = "sending" /\ video'[s] = "reading"
        /\ frames'[s] = Append(frames[s], arrived[s])
        /\ UNCHANGED <<start, arrived, shown>>
    BY <1>3 DEF Queues, OnlyVideo, startVars, pollVars
  <2>2. SUFFICES ASSUME start[s] # "gone"
                 PROVE  Whole(s)'
    BY <2>1 DEF Whole
  <2>3. /\ Len(frames[s]) + 1 = arrived[s] - shown[s]
        /\ \A i \in 1 .. Len(frames[s]) : frames[s][i] = shown[s] + i
    BY <2>1, <2>2 DEF Whole
  <2>4. /\ Len(frames'[s]) = Len(frames[s]) + 1
        /\ \A i \in 1 .. Len(frames[s]) : frames'[s][i] = frames[s][i]
        /\ frames'[s][Len(frames[s]) + 1] = arrived[s]
    BY <2>1
  <2>5. Len(frames[s]) \in Nat
    OBVIOUS
  <2> HIDE Frames
  <2>6. arrived[s] \in Nat /\ shown[s] \in Nat
    BY Frames
  <2>7. \A i \in 1 .. Len(frames'[s]) : frames'[s][i] = shown'[s] + i
    BY <2>1, <2>3, <2>4, <2>5, <2>6
  <2>8. Len(frames'[s]) = arrived'[s] - shown'[s]
    BY <2>1, <2>3, <2>4, <2>5, <2>6
  <2> QED
    BY <2>1, <2>5, <2>4, <2>7, <2>8 DEF Whole
<1>4. CASE ReadsOther(s)
  <2>1. video[s] = "reading" /\ video'[s] # "sending" /\ UNCHANGED <<start, frames, arrived, shown>>
    BY <1>4 DEF ReadsOther, Reads, OnlyVideo, startVars, pollVars
  <2> QED
    BY <2>1 DEF Whole
<1>5. CASE TakesFrame(s)
  <2>1. /\ frames[s] # <<>> /\ frames'[s] = Tail(frames[s]) /\ shown'[s] = Head(frames[s])
        /\ UNCHANGED <<start, video, arrived>>
    BY <1>5 DEF TakesFrame, OnlyPoll, startVars
  <2>2. SUFFICES ASSUME start[s] # "gone"
                 PROVE  Whole(s)'
    BY <2>1 DEF Whole
  <2> DEFINE d == IF video[s] = "sending" THEN 1 ELSE 0
  <2>3. d \in Nat
    OBVIOUS
  <2>4. /\ Len(frames[s]) + d = arrived[s] - shown[s]
        /\ \A i \in 1 .. Len(frames[s]) : frames[s][i] = shown[s] + i
    BY <2>2 DEF Whole
  <2>5. /\ Len(frames[s]) \in Nat /\ Len(frames[s]) >= 1
        /\ shown'[s] = frames[s][1]
        /\ Len(frames'[s]) = Len(frames[s]) - 1
        /\ \A i \in 1 .. Len(frames'[s]) : frames'[s][i] = frames[s][i + 1]
    BY <2>1
  <2> HIDE Frames DEF d
  <2>6. arrived[s] \in Nat /\ shown[s] \in Nat
    BY Frames
  <2>7. shown'[s] = shown[s] + 1
    BY <2>4, <2>5
  <2>8. \A i \in 1 .. Len(frames'[s]) : frames'[s][i] = shown'[s] + i
    BY <2>4, <2>5, <2>6, <2>7
  <2>9. Len(frames'[s]) + d = arrived'[s] - shown'[s]
    <3>1. arrived'[s] = arrived[s]
      BY <2>1
    <3>2. Len(frames[s]) + d = arrived[s] - shown[s]
      BY <2>4
    <3>3. Len(frames'[s]) = Len(frames[s]) - 1 /\ Len(frames[s]) \in Nat
      BY <2>5
    <3> QED
      BY <2>3, <2>6, <2>7, <3>1, <3>2, <3>3
  <2> QED
    BY <2>1, <2>8, <2>9 DEF Whole, d
<1>6. CASE Drops(s)
  BY <1>6 DEF Drops, Whole
<1> QED
  BY <1>1, <1>2, <1>3, <1>4, <1>5, <1>6 DEF Film

AllWhole == \A s \in Stream : Unopened(s) /\ Whole(s)

LEMMA AllWholeKept ==
  ASSUME Typed, AllWhole, [Next]_vars
  PROVE  AllWhole'
<1>1. SUFFICES ASSUME NEW r \in Stream
               PROVE  Unopened(r)' /\ Whole(r)'
  BY DEF AllWhole
<1>2. Unopened(r) /\ Whole(r)
  BY DEF AllWhole
<1>3. CASE Beside
  <2>1. UNCHANGED filmVars
    BY <1>3, BesideTyped
  <2> QED
    BY <1>2, <2>1 DEF Whole, Unopened, filmVars
<1>4. ASSUME NEW s \in Stream, StartStep(s) \/ Film(s)
      PROVE  Unopened(r)' /\ Whole(r)'
  <2>1. CASE r = s
    BY <1>2, <1>4, <2>1, WholeKept, StartFilm, UnopenedKept
  <2>2. CASE r # s
    BY <1>2, <1>4, <2>2, OthersStay DEF Whole, Unopened
  <2> QED
    BY <2>1, <2>2
<1> QED
  BY <1>3, <1>4, Split DEF Film

\* VideoWhole for every bound and capacity: back-pressure holds the reader of the
\* mirror WS while the queue is full, and no other packet touches the frames.
THEOREM NoFrameLost == Spec => []VideoWhole
<1>1. Init => Typed /\ AllWhole
  <2>1. ASSUME Init
        PROVE  AllWhole
    BY <2>1 DEF Init, AllWhole, Whole, Unopened
  <2> QED
    BY <2>1, InitTyped
<1>2. Typed /\ AllWhole /\ [Next]_vars => (Typed /\ AllWhole)'
  BY NextTyped, AllWholeKept
<1>3. AllWhole => VideoWhole
  BY DEF AllWhole, Whole, VideoWhole
<1> QED
  BY <1>1, <1>2, <1>3, PTL DEF Spec
=============================================================================
