--------------------------- MODULE ClipSyncProofs ---------------------------
(***************************************************************************)
(* Proofs about ClipSync, for every set of texts and images and every      *)
(* number of copies, connections and drops.  Typing needs two facts of its *)
(* own: a connection is being served wherever handle_8904 runs, and the    *)
(* watcher only ever comes to send with a text or an image in hand.        *)
(***************************************************************************)
EXTENDS ClipSync, TLAPS

\* handle_8904 runs for a connection that was accepted.
Serving == server # "accept" => taken \in Conn

\* No frame is built of an empty clipboard.
SendsContent ==
  /\ watcher = "decide" => cur \in Text \union {NoText}
  /\ watcher = "seeding" => cur \in Text \union {NoText}
  /\ watcher \in {"stage", "send"} => cur \in Content

SyncInv == TypeOK /\ Serving /\ SendsContent

USE DEF Conn

\* Texts and pictures are content.
LEMMA ContentHolds ==
  /\ Text \subseteq Content
  /\ Image \subseteq Picture
  /\ Picture \subseteq Content
  /\ CutImage \in Picture
BY DEF Content, Picture

\* One more entry in one of the queues.
LEMMA QueueUpdated ==
  ASSUME NEW S, NEW q \in [Conn -> Seq(S)], NEW c, NEW e \in S
  PROVE  [q EXCEPT ![c] = Append(@, e)] \in [Conn -> Seq(S)]
<1>1. CASE c \in Conn
  <2>1. Append(q[c], e) \in Seq(S)
    BY <1>1
  <2> QED
    BY <1>1, <2>1
<1>2. CASE c \notin Conn
  BY <1>2
<1> QED
  BY <1>1, <1>2

\* The first entry of one of the queues is gone.
LEMMA QueueRead ==
  ASSUME NEW S, NEW q \in [Conn -> Seq(S)], NEW c \in Conn, q[c] # <<>>
  PROVE  /\ [q EXCEPT ![c] = Tail(@)] \in [Conn -> Seq(S)]
         /\ Head(q[c]) \in S
<1>1. q[c] \in Seq(S) /\ Tail(q[c]) \in Seq(S) /\ Head(q[c]) \in S
  OBVIOUS
<1> QED
  BY <1>1

\* What the phone sends is content, on whichever connections.
LEMMA PushTyped ==
  ASSUME in \in [Conn -> Seq(Content)], NEW x \in Content
  PROVE  Push(x) \in [Conn -> Seq(Content)]
<1>1. \A c \in Conn : Append(in[c], x) \in Seq(Content) /\ in[c] \in Seq(Content)
  OBVIOUS
<1> QED
  BY <1>1 DEF Push

LEMMA ExtractsTyped ==
  ASSUME SyncInv, Extracts
  PROVE  SyncInv'
<1>1. failed' \in BOOLEAN
  BY DEF Extracts, SyncInv, TypeOK
<1>2. lastSig' \in Picture \union {NoText}
  <2>1. lastSig' \in {lastSig, sig}
    BY DEF Extracts
  <2> QED
    BY <2>1 DEF SyncInv, TypeOK
<1>3. \/ Rests
      \/ os \in Picture /\ cur' = os /\ watcher' = "stage" /\ UNCHANGED <<sig, via>>
  BY DEF Extracts
<1>4. OnlyWatcherMoves /\ UNCHANGED <<lastText, recent, outgoing, out>>
  BY DEF Extracts
<1> QED
  BY <1>1, <1>2, <1>3, <1>4, ContentHolds, ConnAssumption
  DEF SyncInv, TypeOK, Serving, SendsContent, OnlyWatcherMoves, serverVars, dropVars, Rests

LEMMA WatcherTyped ==
  ASSUME SyncInv, Watcher
  PROVE  SyncInv'
<1> USE ConnAssumption DEF SyncInv, TypeOK, Serving, SendsContent, OnlyWatcherMoves, serverVars,
            dropVars, sharedVars, imageVars, Rests, OnlyLooks
<1>1. CASE Reads
  <2>1. cur' \in Text \union {NoText}
    BY <1>1, ContentHolds DEF Reads, IfOf
  <2>2. watcher' \in {"seeding", "decide"}
    BY <1>1 DEF Reads
  <2> QED
    BY <1>1, <2>1, <2>2, ContentHolds DEF Reads
<1>2. CASE Seeds
  <2>1. lastText' \in Text \union {NoText} /\ cur' = NoText
    BY <1>2 DEF Seeds
  <2> QED
    BY <1>2, <2>1 DEF Seeds
<1>3. CASE SeedsImage
  <2>1. lastSig' \in Picture \union {NoText}
    BY <1>3 DEF SeedsImage, IfOf
  <2> QED
    BY <1>3, <2>1 DEF SeedsImage
<1>4. CASE Decides
  BY <1>4 DEF Decides, Worth
<1>5. CASE Sends
  <2>1. cur \in Content \union {Request}
    BY <1>5 DEF Sends
  <2>2. [out EXCEPT ![via] = Append(@, cur)] \in [Conn -> Seq(Content \union {Request})]
    BY <2>1, QueueUpdated
  <2> QED
    BY <1>5, <2>2 DEF Sends
<1>6. CASE ReadsSignature
  <2>1. sig' \in Picture \union {NoText} /\ watcher' \in {"sleep", "fresh"}
    BY <1>6 DEF ReadsSignature, IfOf
  <2> QED
    BY <1>6, <2>1 DEF ReadsSignature
<1>7. CASE ChecksFresh
  BY <1>7 DEF ChecksFresh
<1>8. CASE Extracts
  BY <1>8, ExtractsTyped
<1>9. CASE References
  BY <1>9 DEF References
<1> QED
  BY <1>1, <1>2, <1>3, <1>4, <1>5, <1>6, <1>7, <1>8, <1>9 DEF Watcher

LEMMA ServerTyped ==
  ASSUME SyncInv, Server
  PROVE  SyncInv'
<1> USE DEF SyncInv, TypeOK, Serving, SendsContent, OnlyServerMoves, ServesOnly,
            watcherVars, sharedVars, imageVars, userVars, dropVars
<1>1. CASE Accepts
  BY <1>1, ConnAssumption DEF Accepts
<1>2. CASE SetsUp
  <2>1. out' \in [Conn -> Seq(Content \union {Request})]
    BY <1>2, QueueUpdated DEF SetsUp
  <2> QED
    BY <1>2, <2>1 DEF SetsUp
<1>3. CASE Receives
  <2>1. in' \in [Conn -> Seq(Content)]
    BY <1>3, QueueRead DEF Receives
  <2> QED
    BY <1>3, <2>1 DEF Receives
<1>4. CASE ReceivesRef
  <2>1. in' \in [Conn -> Seq(Content)]
    BY <1>4, QueueRead DEF ReceivesRef
  <2> QED
    BY <1>4, <2>1 DEF ReceivesRef
<1>5. CASE SetsText
  <2>1. failed' \in BOOLEAN /\ os' \in Content \union {NoText}
    BY <1>5, ContentHolds DEF SetsText
  <2> QED
    BY <1>5, <2>1 DEF SetsText
<1>6. CASE Eof
  <2>1. outgoing' \in 0 .. MaxConn
    BY <1>6, ConnAssumption DEF Eof
  <2> QED
    BY <1>6, <2>1 DEF Eof
<1>7. CASE ReadError
  BY <1>7 DEF ReadError
<1> QED
  BY <1>1, <1>2, <1>3, <1>4, <1>5, <1>6, <1>7 DEF Server

LEMMA FetchTyped ==
  ASSUME SyncInv, NEW p \in Picture, Fetches(p)
  PROVE  SyncInv'
<1> USE DEF SyncInv, TypeOK, Serving, SendsContent, OnlyFetchMoves, watcherVars,
            serverVars, wireVars, userVars, dropVars
<1>1. CASE Fetched(p)
  <2>1. failed' \in BOOLEAN
    BY <1>1 DEF Fetched, Arrives, CutShort, NotFetched
  <2> QED
    BY <1>1, <2>1 DEF Fetched, Arrives, CutShort, NotFetched
<1>2. CASE SetsImage(p)
  <2>1. failed' \in BOOLEAN
    BY <1>2 DEF SetsImage
  <2>2. os' \in Content \union {NoText}
    BY <1>2, ContentHolds DEF SetsImage
  <2> QED
    BY <1>2, <2>1, <2>2 DEF SetsImage
<1>3. CASE Signs(p)
  BY <1>3 DEF Signs
<1> QED
  BY <1>1, <1>2, <1>3 DEF Fetches

LEMMA UsersTyped ==
  ASSUME SyncInv, NEW x \in Text \union Image, UserCopies(x) \/ PhoneCopies(x)
  PROVE  SyncInv'
<1> USE DEF SyncInv, TypeOK, Serving, SendsContent, MayCopy, watcherVars, sharedVars,
            imageVars, serverVars, wireVars, userVars, dropVars
<1>1. x \in Content
  BY ContentHolds
<1>2. CASE UserCopies(x)
  BY <1>1, <1>2, CopyAssumption DEF UserCopies
<1>3. CASE PhoneCopies(x)
  BY <1>1, <1>3, CopyAssumption, PushTyped DEF PhoneCopies
<1> QED
  BY <1>2, <1>3

LEMMA PhoneTyped ==
  ASSUME SyncInv, \/ Expires \/ PhoneConnects
                  \/ \E c \in Conn : PhoneReads(c) \/ Drops(c)
  PROVE  SyncInv'
<1> USE DEF SyncInv, TypeOK, Serving, SendsContent, watcherVars, sharedVars, imageVars,
            serverVars, wireVars, userVars, dropVars
<1>1. CASE Expires
  BY <1>1 DEF Expires
<1>2. CASE PhoneConnects
  <2>1. opened' \in 0 .. MaxConn /\ taken' \in 0 .. opened'
    BY <1>2, ConnAssumption DEF PhoneConnects
  <2>2. peer' \in [Conn -> {"none", "open", "closed", "reset"}]
    BY <1>2 DEF PhoneConnects
  <2> QED
    BY <1>2, <2>1, <2>2 DEF PhoneConnects
<1>3. ASSUME NEW c \in Conn, PhoneReads(c) PROVE SyncInv'
  <2>1. /\ out' \in [Conn -> Seq(Content \union {Request})]
        /\ Head(out[c]) \in Content \union {Request}
    BY <1>3, QueueRead DEF PhoneReads
  <2>2. failed' \in BOOLEAN
    BY <1>3 DEF PhoneReads, Served, NotServed
  <2>3. phoneClip' \in Content \union {NoText}
    BY <1>3, <2>1, ContentHolds DEF PhoneReads, Served, NotServed
  <2>4. in' \in [Conn -> Seq(Content)]
    BY <1>3, <2>1, ContentHolds, PushTyped DEF PhoneReads, Served, NotServed
  <2> QED
    BY <1>3, <2>1, <2>2, <2>3, <2>4 DEF PhoneReads
<1>4. ASSUME NEW c \in Conn, Drops(c) PROVE SyncInv'
  <2>1. drops' \in 0 .. MaxDrop
    BY <1>4, DropAssumption DEF Drops
  <2>2. out' \in [Conn -> Seq(Content \union {Request})]
    <3>1. <<>> \in Seq(Content \union {Request})
      OBVIOUS
    <3> QED
      BY <1>4, <3>1 DEF Drops
  <2>4. in' \in [Conn -> Seq(Content)]
    <3>1. <<>> \in Seq(Content)
      OBVIOUS
    <3>2. [in EXCEPT ![c] = <<>>] \in [Conn -> Seq(Content)]
      BY <3>1
    <3> QED
      BY <1>4, <3>2 DEF Drops
  <2>3. peer' \in [Conn -> {"none", "open", "closed", "reset"}]
    BY <1>4 DEF Drops
  <2> QED
    BY <1>4, <2>1, <2>2, <2>3, <2>4 DEF Drops
<1> QED
  BY <1>1, <1>2, <1>3, <1>4

\* What typing rests on: handle_8904 and the watcher's send run with a connection
\* and a text or an image at hand.
THEOREM SyncInvariance == Spec => []SyncInv
<1>1. Init => SyncInv
  <2> SUFFICES ASSUME Init PROVE SyncInv
    OBVIOUS
  <2>1. failed \in BOOLEAN /\ cut \in BOOLEAN
    BY DEF Init
  <2>2. /\ out \in [Conn -> Seq(Content \union {Request})]
        /\ in \in [Conn -> Seq(Content)]
    BY DEF Init
  <2> QED
    BY <2>1, <2>2, ContentHolds, ConnAssumption, CopyAssumption, DropAssumption
    DEF Init, SyncInv, TypeOK, Serving, SendsContent
<1>2. SyncInv /\ [Next]_vars => SyncInv'
  <2> SUFFICES ASSUME SyncInv, [Next]_vars PROVE SyncInv'
    OBVIOUS
  <2>1. CASE Next
    BY <2>1, WatcherTyped, ServerTyped, FetchTyped, UsersTyped, PhoneTyped DEF Next
  <2>2. CASE UNCHANGED vars
    BY <2>2 DEF SyncInv, TypeOK, Serving, SendsContent, vars, watcherVars, sharedVars,
                imageVars, serverVars, wireVars, userVars, dropVars
  <2> QED
    BY <2>1, <2>2
<1> QED
  BY <1>1, <1>2, PTL DEF Spec

\* The state of the relay and its users stays within its type: no counter passes
\* its bound, and the queues hold texts, images and, to the phone, requests.
THEOREM TypeCorrect == Spec => []TypeOK
BY SyncInvariance, PTL DEF SyncInv
=============================================================================
