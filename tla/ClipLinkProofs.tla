--------------------------- MODULE ClipLinkProofs ---------------------------
(***************************************************************************)
(* Proofs about ClipLink, for every number of resolvers, number of re-sends   *)
(* and number of 8904 connections.  LinkInv strengthens the two statements *)
(* about the relay: a connection is served only after `ready` reached the  *)
(* phone, and by then clip_handshake is past the one place that declares   *)
(* the link Down without looking at it.                                    *)
(***************************************************************************)
EXTENDS ClipLink, TLAPS

\* `ready` is on its way to the phone, or has got there.
ReadySent == readied \/ \E i \in 1 .. Len(toPhone) : toPhone[i] = "ready"

\* It is sent last, and with the phone's key in hand.
ReadyIsLast ==
  /\ ReadySent => handshake \in {"relay", "done"}
  /\ handshake \in {"keyed", "relay", "done"} => key

\* A phone that waits for it does not connect before.
ServedAfterReady ==
  /\ server = "serving" => taken > 0
  /\ ~EagerPhone /\ opened > 0 => readied
  /\ server = "none" => handshake = "none" /\ link = "off"
  /\ enabler = "idle" => handshake = "none"

LinkInv == ReadyIsLast /\ ServedAfterReady /\ LinkShowsRelay /\ KeyBeforeRelay

-----------------------------------------------------------------------------
(* Type correctness *)

LEMMA QueueGrows ==
  ASSUME NEW m \in Message, toPhone \in Seq(Message), Send(m)
  PROVE  toPhone' \in Seq(Message)
BY DEF Send, Message

\* The state stays within its type: no counter passes its bound, and the phone
\* and the PC only ever exchange the three texts modelled.
THEOREM TypeCorrect == Spec => []TypeOK
<1>1. Init => TypeOK
  <2> SUFFICES ASSUME Init PROVE TypeOK
    OBVIOUS
  <2>1. /\ active \in BOOLEAN /\ key \in BOOLEAN /\ cache \in BOOLEAN
        /\ retained \in BOOLEAN /\ bound \in BOOLEAN /\ readied \in BOOLEAN
        /\ saw \in [Resolver -> BOOLEAN]
    BY Zenon DEF Init
  <2>2. /\ resends \in 0 .. MaxResend
        /\ opened \in 0 .. MaxRelay
        /\ taken \in 0 .. opened
        /\ rx \in Nat /\ fromPhone \in Nat
        /\ toPhone \in Seq(Message)
    BY ResendAssumption, RelayAssumption DEF Init
  <2> QED
    BY <2>1, <2>2 DEF Init, TypeOK
<1>2. TypeOK /\ [Next]_vars => TypeOK'
  <2> SUFFICES ASSUME TypeOK, [Next]_vars PROVE TypeOK'
    OBVIOUS
  <2> USE DEF TypeOK
  <2>1. CASE Enable \/ EnableFails \/ SetActive
    <3>1. active' \in BOOLEAN
      BY <2>1 DEF Enable, EnableFails, SetActive
    <3> QED
      BY <3>1, <2>1 DEF Enable, EnableFails, SetActive, enableVars, shakeVars, serverVars,
                resolveVars, controlVars, phoneVars
  <2>2. CASE ControlReads \/ ControlEnds
    <3>1. retained' \in BOOLEAN
      BY <2>2 DEF ControlReads, ControlEnds
    <3> QED
      BY <3>1, <2>2 DEF ControlReads, ControlEnds, Subscribed, enableVars, shakeVars,
                serverVars, resolveVars, controlVars, phoneVars
  <2>3. CASE Handshake
    <3> USE DEF OnlyHandshakeMoves, enableVars, serverVars, resolveVars,
                controlVars, phoneVars
    <3>1. CASE Subscribe
      BY <3>1, QueueGrows DEF Subscribe, Message
    <3>2. CASE CheckRetained \/ StoreKey \/ GivesUp \/ RelaySeen \/ RelayExpires
      <4>1. key' \in BOOLEAN
        BY <3>2 DEF CheckRetained, StoreKey, GivesUp, RelaySeen, RelayExpires
      <4> QED
        BY <4>1, <3>2 DEF CheckRetained, StoreKey, Hears, GivesUp, RelaySeen, RelayExpires,
                  DownUnlessUp
    <3>3. CASE SendReady
      BY <3>3, QueueGrows DEF SendReady, Message
    <3>4. CASE Resend
      BY <3>4, QueueGrows, ResendAssumption DEF Resend, Message
    <3> QED
      BY <2>3, <3>1, <3>2, <3>3, <3>4 DEF Handshake
  <2>4. CASE Server
    BY <2>4, RelayAssumption
       DEF Server, Accept8904, Ends8904, AcceptFails, OnlyServerMoves, enableVars,
           shakeVars, resolveVars, controlVars, phoneVars
  <2>5. ASSUME NEW r \in Resolver, Resolve(r) PROVE TypeOK'
    <3> USE DEF OnlyResolverMoves, enableVars, shakeVars, serverVars, controlVars,
                phoneVars
    <3>1. CASE ReadFlag(r) \/ FastPath(r) \/ PollFinds(r) \/ PollExpires(r)
      <4>1. cache' \in BOOLEAN
        BY <3>1 DEF ReadFlag, FastPath, PollFinds, PollExpires
      <4>2. saw' \in [Resolver -> BOOLEAN]
        BY <3>1 DEF ReadFlag, FastPath, PollFinds, PollExpires
      <4>3. resolve' \in [Resolver -> {"idle", "fast", "polling", "slow", "asking",
                                       "ok", "err"}]
        BY <3>1 DEF ReadFlag, FastPath, IfUnknown, PollFinds, PollExpires
      <4> QED
        <5>1. /\ UNCHANGED <<lock, raced, toPhone>>
              /\ OnlyResolverMoves
          BY <3>1 DEF ReadFlag, FastPath, PollFinds, PollExpires
        <5> QED
          BY <4>1, <4>2, <4>3, <5>1
    <3>2. CASE Ask(r)
      BY <3>2, QueueGrows DEF Ask, Message
    <3>3. CASE Told(r) \/ NotTold(r)
      <4>1. cache' \in BOOLEAN
        BY <3>3 DEF Told, NotTold
      <4> QED
        BY <4>1, <3>3 DEF Told, NotTold
    <3> QED
      BY <2>5, <3>1, <3>2, <3>3 DEF Resolve
  <2>6. CASE Phone
    <3> USE DEF OnlyPhoneMoves, enableVars, shakeVars, resolveVars, controlVars,
                phoneVars
    <3>1. CASE Binds
      BY <3>1 DEF Binds
    <3>2. CASE GetsStartup \/ GetsReady
      <4>1. readied' \in BOOLEAN
        BY <3>2 DEF GetsStartup, GetsReady
      <4>2. /\ phoneKey' \in {"none", "clip", "info"}
            /\ fromPhone' \in Nat
        <5>1. CASE GetsStartup
          BY <5>1 DEF GetsStartup
        <5>2. CASE GetsReady
          BY <5>2 DEF GetsReady
        <5> QED
          BY <3>2, <5>1, <5>2
      <4>3. toPhone' \in Seq(Message)
        <5>1. toPhone # <<>> /\ toPhone' = Tail(toPhone)
          BY <3>2 DEF GetsStartup, GetsReady
        <5> QED
          BY <5>1
      <4> QED
        BY <4>1, <4>2, <4>3, <3>2 DEF GetsStartup, GetsReady
    <3>3. CASE Connects
      BY <3>3, RelayAssumption DEF Connects, Relay
    <3>4. ASSUME NEW c \in Relay, Disconnects(c) PROVE TypeOK'
      BY <3>4 DEF Disconnects
    <3> QED
      BY <2>6, <3>1, <3>2, <3>3, <3>4 DEF Phone
  <2>7. CASE UNCHANGED vars
    BY <2>7 DEF vars, enableVars, shakeVars, serverVars, resolveVars, controlVars,
                phoneVars
  <2>8. CASE StartScreen \/ ScreenBack
    BY <2>8 DEF StartScreen, ScreenBack, OnlyCasterMoves, enableVars, shakeVars,
                serverVars, controlVars, phoneVars
  <2> QED
    BY <2>1, <2>2, <2>3, <2>4, <2>5, <2>6, <2>7, <2>8 DEF Next
<1> QED
  BY <1>1, <1>2, PTL DEF Spec

-----------------------------------------------------------------------------
(* The relay *)

\* Nothing but `ready` itself brings `ready` into the queue.
LEMMA OnlyReadySends ==
  ASSUME NEW m \in Message, m # "ready", toPhone \in Seq(Message), Send(m),
         readied' = readied, ReadySent'
  PROVE  ReadySent
BY DEF Send, Message, ReadySent

LEMMA ReadyArrives ==
  ASSUME toPhone \in Seq(Message), toPhone # <<>>, toPhone' = Tail(toPhone),
         readied' => readied \/ Head(toPhone) = "ready", ReadySent'
  PROVE  ReadySent
BY DEF ReadySent

THEOREM LinkInvariance == Spec => []LinkInv
<1>1. Init => LinkInv
  BY DEF Init, LinkInv, ReadyIsLast, ReadySent, ServedAfterReady, LinkShowsRelay,
         KeyBeforeRelay
<1>2. TypeOK /\ LinkInv /\ [Next]_vars => LinkInv'
  <2> SUFFICES ASSUME TypeOK, LinkInv, [Next]_vars PROVE LinkInv'
    OBVIOUS
  <2> USE DEF LinkInv, ReadyIsLast, ServedAfterReady, LinkShowsRelay, KeyBeforeRelay
  <2>1. CASE Enable \/ EnableFails \/ SetActive
    BY <2>1 DEF Enable, EnableFails, SetActive, ReadySent, enableVars, shakeVars,
                serverVars, resolveVars, controlVars, phoneVars, TypeOK
  <2>2. CASE ControlReads \/ ControlEnds
    BY <2>2 DEF ControlReads, ControlEnds, ReadySent, enableVars, shakeVars,
                serverVars, resolveVars, controlVars, phoneVars
  <2>3. CASE Handshake
    <3> USE DEF OnlyHandshakeMoves, enableVars, serverVars, resolveVars,
                controlVars, phoneVars
    <3>1. CASE Subscribe \/ Resend
      <4>1. /\ Send("startup")
            /\ readied' = readied
            /\ handshake \in {"spawned", "waiting"}
            /\ handshake' \in {"started", "waiting"}
            /\ UNCHANGED <<link, key, enableVars, serverVars>>
        BY <3>1 DEF Subscribe, Resend
      <4>2. ReadySent' => ReadySent
        BY <4>1, OnlyReadySends DEF TypeOK, Message
      <4> QED
        BY <4>1, <4>2 DEF TypeOK
    <3>2. CASE CheckRetained \/ StoreKey \/ RelaySeen \/ RelayExpires
      BY <3>2 DEF CheckRetained, StoreKey, Hears, RelaySeen, RelayExpires,
                  DownUnlessUp, ReadySent, TypeOK
    <3>3. CASE SendReady
      BY <3>3 DEF SendReady, TypeOK
    <3>4. CASE GivesUp
      BY <3>4 DEF GivesUp, ReadySent, TypeOK
    <3> QED
      BY <2>3, <3>1, <3>2, <3>3, <3>4 DEF Handshake
  <2>4. CASE Server
    BY <2>4 DEF Server, Accept8904, Ends8904, AcceptFails, OnlyServerMoves,
                ReadySent, enableVars, shakeVars, resolveVars, controlVars,
                phoneVars, TypeOK
  <2>5. ASSUME NEW r \in Resolver, Resolve(r) PROVE LinkInv'
    <3>1. UNCHANGED <<enabler, link, handshake, key, server, opened, taken, readied>>
      BY <2>5 DEF enableVars, Resolve, ReadFlag, FastPath, PollFinds, PollExpires, Ask, Told,
                  NotTold, OnlyResolverMoves, shakeVars, serverVars, phoneVars
    <3>2. Send("ask") \/ UNCHANGED toPhone
      BY <2>5 DEF Resolve, ReadFlag, FastPath, PollFinds, PollExpires, Ask, Told,
                  NotTold
    <3>3. ReadySent' => ReadySent
      BY <3>1, <3>2, OnlyReadySends DEF TypeOK, Message, ReadySent
    <3> QED
      BY <3>1, <3>3
  <2>6. CASE Phone
    <3> USE DEF OnlyPhoneMoves, enableVars, shakeVars, resolveVars, controlVars,
                phoneVars
    <3>1. CASE Binds
      BY <3>1 DEF Binds, ReadySent
    <3>2. CASE GetsStartup \/ GetsReady
      <4>1. ReadySent' => ReadySent
        BY <3>2, ReadyArrives DEF GetsStartup, GetsReady, TypeOK
      <4> QED
        BY <3>2, <4>1 DEF GetsStartup, GetsReady
    <3>3. CASE Connects
      BY <3>3 DEF Connects, ReadySent
    <3>4. ASSUME NEW c \in Relay, Disconnects(c) PROVE LinkInv'
      BY <3>4 DEF Disconnects, ReadySent
    <3> QED
      BY <2>6, <3>1, <3>2, <3>3, <3>4 DEF Phone
  <2>7. CASE UNCHANGED vars
    BY <2>7 DEF vars, enableVars, shakeVars, serverVars, resolveVars, controlVars,
                phoneVars, ReadySent
  <2>8. CASE StartScreen \/ ScreenBack
    BY <2>8 DEF StartScreen, ScreenBack, OnlyCasterMoves, enableVars, shakeVars,
                serverVars, controlVars, phoneVars, ReadySent
  <2> QED
    BY <2>1, <2>2, <2>3, <2>4, <2>5, <2>6, <2>7, <2>8 DEF Next
<1> QED
  BY <1>1, <1>2, TypeCorrect, PTL DEF Spec

\* The link is Up exactly while a connection of the phone is served, however
\* the server and the two timeouts of the handshake interleave, with a phone
\* that connects only after `ready`.
THEOREM LinkIsHonest == Spec => []LinkShowsRelay
BY LinkInvariance, PTL DEF LinkInv

\* No connection of such a phone is served before apply_shadow has stored the
\* key its frames are decrypted with.
THEOREM KeyIsThere == Spec => []KeyBeforeRelay
BY LinkInvariance, PTL DEF LinkInv

-----------------------------------------------------------------------------
(* The key the phone took *)

Has(q, m) == \E i \in 1 .. Len(q) : q[i] = m

\* The last key in the queue is the clipboard's.
KeyComes(q) ==
  \E i \in 1 .. Len(q) :
    q[i] = "startup" /\ \A j \in 1 .. Len(q) : i < j => q[j] # "ask"

\* Every `startup` of the handshake is ahead of its `ready`.
StartupsFirst(q) ==
  \A i, j \in 1 .. Len(q) : i < j /\ q[i] = "ready" => q[j] # "startup"

\* The handshake has sent its `startup`, and it was not lost on a dead channel.
Promised == ReadySent \/ (control = "open" /\ handshake \notin {"none", "spawned"})

\* Every announcement is the answer to a key the phone took.
Answered ==
  /\ fromPhone > 0 \/ retained \/ rx > 0 => phoneKey # "none"
  /\ handshake \in {"keyed", "relay", "done"} => phoneKey # "none"
  /\ phoneKey # "none" => bound

KeyInv ==
  /\ Answered
  /\ enabler = "failed" => handshake = "none"
  /\ StartupsFirst(toPhone)
  /\ readied => ~Has(toPhone, "startup")
  /\ raced = {} /\ Promised => \/ KeyComes(toPhone)
                               \/ ~Has(toPhone, "ask") /\ phoneKey # "info"

LEMMA AppendedText ==
  ASSUME NEW q \in Seq(Message), NEW m \in Message
  PROVE  /\ \A n \in Message : Has(Append(q, m), n) <=> Has(q, n) \/ n = m
         /\ m = "startup" => KeyComes(Append(q, m))
         /\ m # "ask" /\ KeyComes(q) => KeyComes(Append(q, m))
         /\ StartupsFirst(q) /\ (m = "startup" => ~Has(q, "ready"))
              => StartupsFirst(Append(q, m))
<1> DEFINE p == Append(q, m)
<1>1. /\ Len(p) = Len(q) + 1
      /\ \A i \in 1 .. Len(q) : p[i] = q[i]
      /\ p[Len(q) + 1] = m
      /\ Len(q) \in Nat
  OBVIOUS
<1> HIDE DEF p
<1>2. \A n \in Message : Has(p, n) <=> Has(q, n) \/ n = m
  BY <1>1 DEF Has
<1>3. m = "startup" => KeyComes(p)
  BY <1>1 DEF KeyComes
<1>4. m # "ask" /\ KeyComes(q) => KeyComes(p)
  BY <1>1 DEF KeyComes
<1>5. ASSUME StartupsFirst(q), m = "startup" => ~Has(q, "ready")
      PROVE  StartupsFirst(p)
  BY <1>1, <1>5 DEF StartupsFirst, Has
<1> QED
  BY <1>2, <1>3, <1>4, <1>5 DEF p

LEMMA ReadText ==
  ASSUME NEW q \in Seq(Message), q # <<>>
  PROVE  /\ \A n \in Message : Has(Tail(q), n) => Has(q, n)
         /\ Has(q, Head(q))
         /\ KeyComes(q) /\ ~KeyComes(Tail(q)) => /\ Head(q) = "startup"
                                                 /\ ~Has(Tail(q), "ask")
         /\ StartupsFirst(q) => StartupsFirst(Tail(q))
         /\ StartupsFirst(q) /\ Head(q) = "ready" => ~Has(Tail(q), "startup")
<1> DEFINE p == Tail(q)
<1>1. /\ Len(q) \in Nat \ {0}
      /\ Len(p) = Len(q) - 1
      /\ \A i \in 1 .. Len(p) : p[i] = q[i + 1]
      /\ Head(q) = q[1]
  OBVIOUS
<1>6. \A i \in 1 .. Len(q) : i > 1 => i - 1 \in 1 .. Len(p) /\ p[i - 1] = q[i]
  BY <1>1
<1> HIDE DEF p
<1>2. (\A n \in Message : Has(p, n) => Has(q, n)) /\ Has(q, Head(q))
  BY <1>1 DEF Has
<1>3. ASSUME KeyComes(q), ~KeyComes(p)
      PROVE  Head(q) = "startup" /\ ~Has(p, "ask")
  <2>1. PICK i \in 1 .. Len(q) : /\ q[i] = "startup"
                                 /\ \A j \in 1 .. Len(q) : i < j => q[j] # "ask"
    BY <1>3 DEF KeyComes
  <2>2. i = 1
    <3> SUFFICES ASSUME i > 1 PROVE FALSE
      BY <1>1
    <3>1. i - 1 \in 1 .. Len(p) /\ p[i - 1] = "startup"
      BY <1>6, <2>1
    <3>2. \A j \in 1 .. Len(p) : i - 1 < j => p[j] # "ask"
      BY <1>1, <2>1
    <3> QED
      BY <1>3, <3>1, <3>2 DEF KeyComes
  <2> QED
    BY <1>1, <2>1, <2>2 DEF Has
<1>4. ASSUME StartupsFirst(q) PROVE StartupsFirst(p)
  BY <1>1, <1>4 DEF StartupsFirst
<1>5. ASSUME StartupsFirst(q), Head(q) = "ready" PROVE ~Has(p, "startup")
  BY <1>1, <1>5 DEF StartupsFirst, Has
<1> QED
  BY <1>2, <1>3, <1>4, <1>5 DEF p

\* Sending a text: what it does to the queue, whether the channel lives or not.
LEMMA SentText ==
  ASSUME NEW m \in Message, toPhone \in Seq(Message), Send(m)
  PROVE  /\ control # "open" => toPhone' = toPhone
         /\ \A n \in Message : Has(toPhone', n) => Has(toPhone, n) \/ n = m
         /\ control = "open" /\ m = "startup" => KeyComes(toPhone')
         /\ m # "ask" /\ KeyComes(toPhone) => KeyComes(toPhone')
         /\ StartupsFirst(toPhone) /\ (m = "startup" => ~Has(toPhone, "ready"))
              => StartupsFirst(toPhone')
<1>1. CASE control = "open"
  BY <1>1, AppendedText DEF Send
<1>2. CASE control # "open"
  BY <1>2 DEF Send
<1> QED
  BY <1>1, <1>2

LEMMA ReadyHas == ReadySent <=> readied \/ Has(toPhone, "ready")
BY DEF ReadySent, Has

\* The same, in the next state.
LEMMA ReadyHasNext == ReadySent' <=> readied' \/ Has(toPhone', "ready")
BY DEF ReadySent, Has

LEMMA PromiseKept ==
  ASSUME KeyInv, raced = {}, Promised, raced' = {}, UNCHANGED phoneKey,
         KeyComes(toPhone) => KeyComes(toPhone'),
         Has(toPhone', "ask") => Has(toPhone, "ask")
  PROVE  KeyComes(toPhone') \/ (~Has(toPhone', "ask") /\ phoneKey' # "info")
<1>1. KeyComes(toPhone) \/ (~Has(toPhone, "ask") /\ phoneKey # "info")
  BY DEF KeyInv
<1>2. phoneKey' = phoneKey
  OBVIOUS
<1> QED
  BY <1>1, <1>2

\* Steps that leave the queue and the phone alone.
LEMMA QuietStep ==
  ASSUME KeyInv, Answered', enabler' = "failed" => handshake' = "none",
         Promised' => Promised,
         UNCHANGED <<toPhone, readied, phoneKey, raced>>
  PROVE  KeyInv'
BY DEF KeyInv

\* Only a thread that read the flag as clear goes on to ask.
AskersSawClear == \A r \in Resolver : resolve[r] = "slow" => ~saw[r]

LEMMA OnlyTheUnawareAsk == Spec => []AskersSawClear
<1>1. Init => AskersSawClear
  BY DEF Init, AskersSawClear
<1>2. TypeOK /\ AskersSawClear /\ [Next]_vars => AskersSawClear'
  <2> SUFFICES ASSUME TypeOK, AskersSawClear, [Next]_vars PROVE AskersSawClear'
    OBVIOUS
  <2>1. ASSUME NEW r \in Resolver, Resolve(r) PROVE AskersSawClear'
    <3>1. CASE ReadFlag(r)
      BY <3>1 DEF ReadFlag, AskersSawClear, TypeOK
    <3>2. CASE FastPath(r)
      BY <3>2 DEF FastPath, IfUnknown, AskersSawClear, TypeOK
    <3>3. CASE ~ReadFlag(r) /\ ~FastPath(r)
      BY <2>1, <3>3 DEF Resolve, PollFinds, PollExpires, Ask, Told, NotTold,
                        AskersSawClear, TypeOK
    <3> QED
      BY <3>1, <3>2, <3>3
  <2>2. CASE \A r \in Resolver : ~Resolve(r)
    <3>1. UNCHANGED <<resolve, saw>>
      BY <2>2 DEF Next, Enable, EnableFails, SetActive, ControlReads, ControlEnds,
                  Handshake, Subscribe, CheckRetained, StoreKey, SendReady, Resend,
                  GivesUp, RelaySeen, RelayExpires, OnlyHandshakeMoves, Server,
                  Accept8904, Ends8904, AcceptFails, OnlyServerMoves, Phone, Binds,
                  GetsStartup, GetsReady, Connects, Disconnects, OnlyPhoneMoves,
                  StartScreen, ScreenBack, OnlyCasterMoves, resolveVars, vars
    <3> QED
      BY <3>1 DEF AskersSawClear
  <2> QED
    BY <2>1, <2>2
<1> QED
  BY <1>1, <1>2, TypeCorrect, PTL DEF Spec

THEOREM KeyInvariance == Spec => []KeyInv
<1>1. Init => KeyInv
  BY DEF Init, KeyInv, Answered, StartupsFirst, Has, Promised, ReadySent
<1>2. TypeOK /\ LinkInv /\ AskersSawClear /\ KeyInv /\ [Next]_vars => KeyInv'
  <2> SUFFICES ASSUME TypeOK, LinkInv, AskersSawClear, KeyInv, [Next]_vars
               PROVE  KeyInv'
    OBVIOUS
  <2>a. toPhone \in Seq(Message) /\ fromPhone \in Nat /\ rx \in Nat
    BY DEF TypeOK
  <2>b. /\ Answered
        /\ enabler = "failed" => handshake = "none"
        /\ ReadySent => handshake \in {"relay", "done"}
        /\ enabler = "idle" => handshake = "none"
    BY DEF KeyInv, LinkInv, ReadyIsLast, ServedAfterReady
  <2>1. CASE Enable \/ EnableFails \/ SetActive
    <3>1. /\ UNCHANGED <<toPhone, readied, phoneKey, raced, fromPhone, retained,
                         rx, bound, control>>
          /\ handshake' = handshake \/ handshake' = "spawned"
          /\ enabler' = "failed" => handshake' = handshake /\ enabler = "idle"
      BY <2>1 DEF Enable, EnableFails, SetActive, shakeVars, resolveVars,
                  controlVars, phoneVars
    <3>2. Promised' => Promised
      BY <3>1 DEF Promised, ReadySent
    <3> QED
      BY <2>b, <3>1, <3>2, QuietStep DEF Answered
  <2>2. CASE ControlReads \/ ControlEnds
    <3>1. /\ UNCHANGED <<toPhone, readied, phoneKey, raced, bound, handshake, enabler>>
          /\ control' = "open" => control = "open"
          /\ \/ fromPhone > 0
             \/ UNCHANGED <<fromPhone, retained, rx>>
      BY <2>2 DEF ControlReads, ControlEnds, enableVars, shakeVars, resolveVars,
                  phoneVars
    <3>2. Promised' => Promised
      BY <3>1 DEF Promised, ReadySent
    <3> QED
      BY <2>b, <3>1, <3>2, QuietStep DEF Answered
  <2>3. CASE Handshake
    <3>0. UNCHANGED <<enabler, raced, control, retained, fromPhone, bound, phoneKey,
                      readied>>
      BY <2>3 DEF Handshake, Subscribe, CheckRetained, StoreKey, SendReady, Resend,
                  GivesUp, RelaySeen, RelayExpires, OnlyHandshakeMoves, enableVars,
                  resolveVars, controlVars, phoneVars
    <3>1. CASE Subscribe \/ Resend
      <4>1. /\ Send("startup")
            /\ handshake \in {"spawned", "waiting"}
            /\ handshake' \in {"started", "waiting"}
            /\ rx' = rx
        BY <3>1 DEF Subscribe, Resend
      <4>2. /\ ~ReadySent
            /\ ~ReadySent'
            /\ ~readied'
        BY <2>a, <2>b, <3>0, <4>1, SentText, ReadyHas, ReadyHasNext DEF Message
      <4>3. Promised' => KeyComes(toPhone')
        BY <2>a, <3>0, <4>1, <4>2, SentText DEF Promised, Message
      <4>4. StartupsFirst(toPhone')
        BY <2>a, <4>1, <4>2, SentText, ReadyHas DEF KeyInv, Message
      <4> QED
        BY <2>b, <3>0, <4>1, <4>2, <4>3, <4>4 DEF KeyInv, Answered
    <3>2. CASE CheckRetained \/ StoreKey \/ GivesUp \/ RelaySeen \/ RelayExpires
      <4>1. /\ toPhone' = toPhone
            /\ handshake \notin {"none", "spawned"}
            /\ rx' > 0 => rx > 0
            /\ \/ handshake' \notin {"keyed", "relay", "done"}
               \/ retained \/ rx > 0
               \/ handshake \in {"keyed", "relay", "done"}
        BY <2>a, <3>2 DEF CheckRetained, StoreKey, Hears, GivesUp, RelaySeen,
                          RelayExpires
      <4>2. Promised' => Promised
        BY <3>0, <4>1 DEF Promised, ReadySent
      <4>3. Answered'
        BY <2>b, <3>0, <4>1 DEF Answered
      <4> QED
        BY <2>b, <3>0, <4>1, <4>2, <4>3, QuietStep
    <3>3. CASE SendReady
      <4>1. /\ Send("ready")
            /\ handshake = "keyed"
            /\ rx' = rx
        BY <3>3 DEF SendReady
      <4>2. ~readied'
        BY <2>b, <3>0, <4>1 DEF ReadySent
      <4>3. StartupsFirst(toPhone')
        BY <2>a, <4>1, SentText DEF KeyInv, Message
      <4>4. Promised' => Promised
        <5>1. CASE control = "open"
          BY <4>1, <5>1 DEF Promised
        <5>2. CASE control # "open"
          BY <2>a, <3>0, <4>1, <5>2, SentText DEF Promised, ReadySent, Message
        <5> QED
          BY <5>1, <5>2
      <4>5. /\ KeyComes(toPhone) => KeyComes(toPhone')
            /\ Has(toPhone', "ask") => Has(toPhone, "ask")
        BY <2>a, <4>1, SentText DEF Message
      <4>6. Answered'
        BY <2>b, <3>0, <4>1 DEF Answered
      <4> QED
        BY <2>b, <3>0, <4>1, <4>2, <4>3, <4>4, <4>5, <4>6, PromiseKept DEF KeyInv
    <3> QED
      BY <2>3, <3>1, <3>2, <3>3 DEF Handshake
  <2>4. CASE Server
    <3>1. UNCHANGED <<toPhone, readied, phoneKey, raced, fromPhone, retained, rx,
                      bound, control, handshake, enabler>>
      BY <2>4 DEF Server, Accept8904, Ends8904, AcceptFails, OnlyServerMoves,
                  enableVars, shakeVars, resolveVars, controlVars, phoneVars
    <3> QED
      BY <2>b, <3>1, QuietStep DEF Answered, Promised, ReadySent
  <2>5. ASSUME NEW r \in Resolver, Resolve(r) PROVE KeyInv'
    <3>0. UNCHANGED <<readied, phoneKey, fromPhone, retained, rx, bound, control,
                      handshake, enabler>>
      BY <2>5 DEF Resolve, ReadFlag, FastPath, PollFinds, PollExpires, Ask, Told,
                  NotTold, OnlyResolverMoves, enableVars, shakeVars, controlVars,
                  phoneVars
    <3>1. CASE Ask(r)
      <4>1. /\ Send("ask")
            /\ control = "open" /\ enabler \in {"spawned", "enabled"} => raced' # {}
            /\ control # "open" => raced' = raced
            /\ raced' = {} => raced = {}
        BY <3>1 DEF Ask, AskersSawClear
      <4>2. /\ StartupsFirst(toPhone')
            /\ Has(toPhone', "startup") => Has(toPhone, "startup")
            /\ Has(toPhone', "ready") => Has(toPhone, "ready")
            /\ control # "open" => toPhone' = toPhone
        BY <2>a, <4>1, SentText DEF KeyInv, Message
      <4>3. CASE control = "open" /\ raced' = {}
        <5>1. handshake = "none"
          BY <2>b, <4>1, <4>3 DEF TypeOK
        <5>2. ~Promised'
          BY <2>b, <3>0, <4>2, <5>1, ReadyHas, ReadyHasNext DEF Promised
        <5> QED
          BY <2>b, <3>0, <4>2, <5>2 DEF KeyInv, Answered
      <4>4. CASE control = "open" /\ raced' # {}
        BY <2>b, <3>0, <4>2, <4>4 DEF KeyInv, Answered
      <4>5. CASE control # "open"
        BY <2>b, <3>0, <4>1, <4>2, <4>5, QuietStep DEF Answered, Promised, ReadySent
      <4> QED
        BY <4>3, <4>4, <4>5
    <3>2. CASE ~Ask(r)
      <4>1. UNCHANGED <<toPhone, raced>>
        BY <2>5, <3>2 DEF Resolve, ReadFlag, FastPath, PollFinds, PollExpires, Told,
                          NotTold
      <4> QED
        BY <2>b, <3>0, <4>1, QuietStep DEF Answered, Promised, ReadySent
    <3> QED
      BY <3>1, <3>2
  <2>6. CASE Phone
    <3>0. UNCHANGED <<raced, retained, rx, control, handshake, enabler>>
      BY <2>6 DEF Phone, Binds, GetsStartup, GetsReady, Connects, Disconnects,
                  OnlyPhoneMoves, enableVars, shakeVars, resolveVars, controlVars
    <3>1. CASE GetsStartup
      <4>1. /\ toPhone # <<>>
            /\ toPhone' = Tail(toPhone)
            /\ Head(toPhone) \in {"startup", "ask"}
            /\ UNCHANGED <<bound, readied>>
            /\ bound => phoneKey' = IF Head(toPhone) = "ask" THEN "info" ELSE "clip"
            /\ ~bound => UNCHANGED <<phoneKey, fromPhone>>
        BY <3>1 DEF GetsStartup
      <4>2. /\ StartupsFirst(toPhone')
            /\ \A n \in Message : Has(toPhone', n) => Has(toPhone, n)
            /\ Has(toPhone, Head(toPhone))
            /\ KeyComes(toPhone) /\ ~KeyComes(toPhone') =>
                 Head(toPhone) = "startup" /\ ~Has(toPhone', "ask")
        BY <2>a, <4>1, ReadText DEF KeyInv
      <4>3. Answered'
        BY <2>b, <3>0, <4>1 DEF Answered
      <4>4. Promised' => Promised
        BY <3>0, <4>1, <4>2, ReadyHas, ReadyHasNext DEF Promised, Message
      <4>5. ASSUME raced = {}, Promised, ~KeyComes(toPhone')
            PROVE  ~Has(toPhone', "ask") /\ phoneKey' # "info"
        <5>1. ~bound => phoneKey = "none"
          BY <2>b DEF Answered
        <5>2. Head(toPhone) = "startup" /\ ~Has(toPhone', "ask")
          BY <4>1, <4>2, <4>5 DEF KeyInv, Message
        <5> QED
          BY <4>1, <5>1, <5>2
      <4> QED
        BY <2>b, <3>0, <4>1, <4>2, <4>3, <4>4, <4>5 DEF KeyInv, Message
    <3>2. CASE GetsReady
      <4>1. /\ toPhone # <<>>
            /\ toPhone' = Tail(toPhone)
            /\ Head(toPhone) = "ready"
            /\ UNCHANGED <<bound, phoneKey, fromPhone>>
        BY <3>2 DEF GetsReady
      <4>2. /\ StartupsFirst(toPhone')
            /\ \A n \in Message : Has(toPhone', n) => Has(toPhone, n)
            /\ Has(toPhone, "ready")
            /\ ~Has(toPhone', "startup")
            /\ KeyComes(toPhone) => KeyComes(toPhone')
        BY <2>a, <4>1, ReadText DEF KeyInv
      <4>3. Promised
        BY <4>2, ReadyHas DEF Promised
      <4>4. Answered'
        BY <2>b, <3>0, <4>1 DEF Answered
      <4> QED
        BY <2>b, <3>0, <4>1, <4>2, <4>3, <4>4, PromiseKept DEF KeyInv, Message
    <3>3. CASE ~GetsStartup /\ ~GetsReady
      <4>1. /\ UNCHANGED <<toPhone, readied, phoneKey, fromPhone>>
            /\ bound => bound'
        BY <2>6, <3>3 DEF Phone, Binds, Connects, Disconnects, phoneVars
      <4> QED
        BY <2>b, <3>0, <4>1, QuietStep DEF Answered, Promised, ReadySent
    <3> QED
      BY <3>1, <3>2, <3>3
  <2>7. CASE UNCHANGED vars
    <3>1. UNCHANGED <<toPhone, readied, phoneKey, raced, fromPhone, retained, rx,
                      bound, control, handshake, enabler>>
      BY <2>7 DEF vars, enableVars, shakeVars, resolveVars, controlVars, phoneVars
    <3> QED
      BY <2>b, <3>1, QuietStep DEF Answered, Promised, ReadySent
  <2>8. CASE StartScreen \/ ScreenBack
    <3>1. UNCHANGED <<toPhone, readied, phoneKey, raced, fromPhone, retained, rx,
                      bound, control, handshake, enabler>>
      BY <2>8 DEF StartScreen, ScreenBack, OnlyCasterMoves, enableVars, shakeVars,
                  controlVars, phoneVars
    <3> QED
      BY <2>b, <3>1, QuietStep DEF Answered, Promised, ReadySent
  <2> QED
    BY <2>1, <2>2, <2>3, <2>4, <2>5, <2>6, <2>7, <2>8 DEF Next
<1> QED
  BY <1>1, <1>2, TypeCorrect, LinkInvariance, OnlyTheUnawareAsk, PTL DEF Spec

\* A phone that got `ready` holds the clipboard's key, whoever asked for its
\* device id before, as long as nobody asked with a stale flag after.
THEOREM KeyStands == Spec => []ClipKeyStands
<1>1. TypeOK /\ LinkInv /\ KeyInv => ClipKeyStands
  <2> SUFFICES ASSUME TypeOK, LinkInv, KeyInv, readied, raced = {}
               PROVE  phoneKey = "clip"
    BY DEF ClipKeyStands
  <2>1. handshake \in {"relay", "done"} /\ Promised
    BY DEF LinkInv, ReadyIsLast, ReadySent, Promised
  <2>2. ~KeyComes(toPhone)
    BY DEF KeyInv, KeyComes, Has
  <2> QED
    BY <2>1, <2>2 DEF KeyInv, Answered, TypeOK
<1> QED
  BY <1>1, TypeCorrect, LinkInvariance, KeyInvariance, PTL
=============================================================================
