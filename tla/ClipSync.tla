------------------------------ MODULE ClipSync ------------------------------
(***************************************************************************)
(* Clipboard sync over the 8904 relay, pcsuite-core/src/clipboard.rs:      *)
(* handle_8904 and on_frame (phone to PC), fetch_image_task, the polling   *)
(* watcher (PC to phone), and the state they share behind one mutex: the   *)
(* queue to the phone, the last text and image synced, and the texts       *)
(* synced within ECHO_WINDOW.  A frame holds a text, or the path of an     *)
(* image, whose bytes the other side fetches over vdfs (vdfs.rs).          *)
(*                                                                         *)
(* Both sides read or write the OS clipboard outside the mutex, on a       *)
(* blocking thread, so an action is one OS access or one critical section. *)
(* The phone keeps a clipboard of its own, sends what its user copies,     *)
(* answers the request every connection starts with, and may or may not    *)
(* echo a text it was sent.  An image stands for its path and for its      *)
(* signature.  How the link comes up is the subject of ClipLink.           *)
(***************************************************************************)
EXTENDS Naturals, Sequences

CONSTANTS
  Text,     \* clipboard texts
  Image,    \* images
  MaxCopy,  \* bound: texts and images the two users copy
  MaxConn,  \* bound: 8904 connections
  MaxDrop,  \* bound: connections that end
  Pace      \* when a user copies: "any" time, once the previous copy has
            \* "settled", or also once its ECHO_WINDOW ("window") has passed

ASSUME CopyAssumption == MaxCopy \in Nat
ASSUME ConnAssumption == MaxConn \in Nat
ASSUME DropAssumption == MaxDrop \in Nat
ASSUME PaceAssumption == Pace \in {"any", "settled", "window"}

Conn == 1 .. MaxConn
NoText == "no text"
Request == "request"

\* What is on a clipboard when an image was cut short under way.
CutImage == "cut image"
Picture == Image \union {CutImage}
Content == Text \union Picture

ASSUME TextAssumption == {NoText, Request, CutImage} \cap (Text \union Image) = {}
ASSUME ImageAssumption == Text \cap Image = {}

VARIABLES
  os,         \* the OS clipboard
  watcher,    \* where the watcher is
  cur,        \* the text it read, or the image it extracted
  sig,        \* the signature it read
  via,        \* the connection whose queue it cloned
  lastText,   \* Shared.last_text
  recent,     \* Shared.recent: synced less than ECHO_WINDOW ago
  lastSig,    \* Shared.last_image_sig
  lastRef,    \* Shared.last_image_ref
  outgoing,   \* Shared.outgoing: the connection whose queue it is, 0 = None
  server,     \* where handle_8904 is
  incoming,   \* the text on_frame is putting on the OS clipboard
  fetch,      \* per image, its fetch_image_task: "idle", "get" (fetching), "set"
              \* or "cut" (about to put it, or a part of it, on the OS
              \* clipboard) or "sign"; bound: one task per image
  opened,     \* connections the phone has opened
  taken,      \* connections accepted; the last one is being served
  peer,       \* the phone's end of each
  out,        \* per connection, what was queued for the phone
  in,         \* per connection, what the phone sent
  phoneClip,  \* the phone's clipboard
  copies,     \* texts copied so far
  drops,      \* connections ended so far
  newest,     \* history: what was copied last, on either side
  cut,        \* history: a connection ended since, or had ended unnoticed
  failed      \* history: an OS access or a transfer of an image has failed

watcherVars == <<watcher, cur, sig, via>>
imageVars == <<lastSig, lastRef>>
sharedVars == <<lastText, recent, outgoing, imageVars>>
serverVars == <<server, incoming, taken>>
wireVars == <<opened, peer, out, in>>
userVars == <<copies, newest>>
dropVars == <<drops, cut>>
vars == <<os, watcherVars, sharedVars, serverVars, fetch, wireVars, phoneClip,
          userVars, dropVars, failed>>

TypeOK ==
  /\ os \in Content \union {NoText}
  /\ watcher \in {"seed", "seeding", "seedsig", "sleep", "decide", "fresh",
                 "get", "stage", "send"}
  /\ cur \in Content \union {NoText}
  /\ sig \in Picture \union {NoText}
  /\ via \in 0 .. MaxConn
  /\ lastText \in Text \union {NoText}
  /\ recent \in SUBSET Text
  /\ lastSig \in Picture \union {NoText}
  /\ lastRef \in Picture \union {NoText}
  /\ outgoing \in 0 .. MaxConn
  /\ server \in {"accept", "setup", "read", "setting"}
  /\ incoming \in Text \union {NoText}
  /\ fetch \in [Picture -> {"idle", "get", "set", "cut", "sign"}]
  /\ opened \in 0 .. MaxConn
  /\ taken \in 0 .. opened
  /\ peer \in [Conn -> {"none", "open", "closed", "reset"}]
  /\ out \in [Conn -> Seq(Content \union {Request})]
  /\ in \in [Conn -> Seq(Content)]
  /\ phoneClip \in Content \union {NoText}
  /\ copies \in 0 .. MaxCopy
  /\ drops \in 0 .. MaxDrop
  /\ newest \in Content \union {NoText}
  /\ cut \in BOOLEAN
  /\ failed \in BOOLEAN

Init ==
  /\ os \in Text \union Image \union {NoText}
  /\ watcher = "seed"
  /\ cur = NoText
  /\ sig = NoText
  /\ via = 0
  /\ lastText = NoText
  /\ recent = {}
  /\ lastSig = NoText
  /\ lastRef = NoText
  /\ outgoing = 0
  /\ server = "accept"
  /\ incoming = NoText
  /\ fetch = [p \in Picture |-> "idle"]
  /\ opened = 0
  /\ taken = 0
  /\ peer = [c \in Conn |-> "none"]
  /\ out = [c \in Conn |-> <<>>]
  /\ in = [c \in Conn |-> <<>>]
  /\ phoneClip \in Text \union Image \union {NoText}
  /\ copies = 0
  /\ drops = 0
  /\ newest = NoText
  /\ cut = FALSE
  /\ failed = FALSE

-----------------------------------------------------------------------------
(* The watcher *)

OnlyWatcherMoves ==
  UNCHANGED <<os, serverVars, fetch, lastRef, opened, peer, in, phoneClip, copies,
              newest, dropVars>>

\* To the next poll: the locals are gone.
Rests ==
  /\ watcher' = "sleep"
  /\ cur' = NoText
  /\ sig' = NoText
  /\ via' = 0

\* A step that leaves what is shared alone.
OnlyLooks == OnlyWatcherMoves /\ UNCHANGED <<lastText, recent, outgoing, lastSig, out>>

\* Each OS access tells of one kind of content only.
IfOf(kind) == IF os \in kind THEN os ELSE NoText

\* get_text, once for the seed and then at every poll.
Reads ==
  /\ watcher \in {"seed", "sleep"}
  /\ watcher' = IF watcher = "seed" THEN "seeding" ELSE "decide"
  /\ cur' = IfOf(Text)
  /\ UNCHANGED <<sig, via, failed>>
  /\ OnlyLooks

\* What is already there is not sent.
Seeds ==
  /\ watcher = "seeding"
  /\ watcher' = "seedsig"
  /\ lastText' = IF cur = NoText THEN lastText ELSE cur
  /\ cur' = NoText
  /\ UNCHANGED <<sig, via, recent, outgoing, lastSig, out, failed>>
  /\ OnlyWatcherMoves

\* Nor is an image; its signature is read and stored.
SeedsImage ==
  /\ watcher = "seedsig"
  /\ Rests
  /\ lastSig' = IfOf(Picture)
  /\ UNCHANGED <<lastText, recent, outgoing, out, failed>>
  /\ OnlyWatcherMoves

\* Not what was synced last, and not synced within ECHO_WINDOW.
Worth(t) == t # NoText /\ t # lastText /\ t \notin recent

\* Under the mutex: somewhere to send to, and worth sending.  The text counts
\* as synced from here on.
Decides ==
  /\ watcher = "decide"
  /\ cur # NoText
  /\ IF outgoing # 0 /\ Worth(cur)
     THEN /\ watcher' = "send"
          /\ lastText' = cur
          /\ recent' = recent \union {cur}
          /\ via' = outgoing
          /\ UNCHANGED <<cur, sig>>
     ELSE Rests /\ UNCHANGED <<lastText, recent>>
  /\ UNCHANGED <<outgoing, lastSig, out, failed>>
  /\ OnlyWatcherMoves

\* No text: image_signature.
ReadsSignature ==
  /\ watcher = "decide"
  /\ cur = NoText
  /\ sig' = IfOf(Picture)
  /\ watcher' = IF sig' = NoText THEN "sleep" ELSE "fresh"
  /\ UNCHANGED <<cur, via, failed>>
  /\ OnlyLooks

\* Under the mutex: somewhere to send to, and another image than the last.
ChecksFresh ==
  /\ watcher = "fresh"
  /\ IF outgoing # 0 /\ lastSig # sig
     THEN watcher' = "get" /\ UNCHANGED <<cur, sig, via>>
     ELSE Rests
  /\ UNCHANGED failed
  /\ OnlyLooks

\* get_image: whatever image is on the clipboard by now. Without one, or when it
\* cannot be extracted, the signature counts as seen; when the file for the phone
\* cannot be written it does not.
Extracts ==
  /\ watcher = "get"
  /\ \/ /\ os \in Picture
        /\ cur' = os
        /\ watcher' = "stage"
        /\ UNCHANGED <<sig, via, lastSig, failed>>
     \/ /\ lastSig' = sig
        /\ failed' = IF os \in Picture THEN TRUE ELSE failed
        /\ Rests
     \/ /\ os \in Picture
        /\ failed' = TRUE
        /\ Rests
        /\ UNCHANGED lastSig
  /\ UNCHANGED <<lastText, recent, outgoing, out>>
  /\ OnlyWatcherMoves

\* Under the mutex: the image counts as synced from here on, also when there is
\* nowhere to send it any more.
References ==
  /\ watcher = "stage"
  /\ lastSig' = sig
  /\ IF outgoing # 0
     THEN watcher' = "send" /\ via' = outgoing /\ sig' = NoText /\ UNCHANGED cur
     ELSE Rests
  /\ UNCHANGED <<lastText, recent, outgoing, out, failed>>
  /\ OnlyWatcherMoves

\* Into the queue of that connection; nobody hears of a queue whose writer is
\* gone.
Sends ==
  /\ watcher = "send"
  /\ Rests
  /\ out' = IF peer[via] = "open" THEN [out EXCEPT ![via] = Append(@, cur)] ELSE out
  /\ UNCHANGED <<lastText, recent, outgoing, lastSig, failed>>
  /\ OnlyWatcherMoves

Watcher ==
  \/ Reads \/ Seeds \/ SeedsImage \/ Decides \/ Sends
  \/ ReadsSignature \/ ChecksFresh \/ Extracts \/ References

-----------------------------------------------------------------------------
(* The 8904 server *)

OnlyServerMoves ==
  UNCHANGED <<watcherVars, lastSig, opened, peer, phoneClip, userVars, dropVars>>

ServesOnly == OnlyServerMoves /\ UNCHANGED <<lastRef, fetch>>

\* accept() returns; handle_8904 runs inline, so one connection at a time.
Accepts ==
  /\ server = "accept"
  /\ taken < opened
  /\ server' = "setup"
  /\ taken' = taken + 1
  /\ UNCHANGED <<os, lastText, recent, outgoing, incoming, out, in, failed>>
  /\ ServesOnly

\* Mutant: the queue of an earlier connection is kept.
KeepsQueue ==
  /\ server = "setup"
  /\ server' = "read"
  /\ outgoing' = IF outgoing = 0 THEN taken ELSE outgoing
  /\ out' = [out EXCEPT ![taken] = Append(@, Request)]
  /\ UNCHANGED <<os, lastText, recent, incoming, taken, in, failed>>
  /\ ServesOnly

\* Publish the queue, announce (command 1) and request the clipboard (command 5).
SetsUp ==
  /\ server = "setup"
  /\ server' = "read"
  /\ outgoing' = taken
  /\ out' = [out EXCEPT ![taken] = Append(@, Request)]
  /\ UNCHANGED <<os, lastText, recent, incoming, taken, in, failed>>
  /\ ServesOnly

\* on_frame, under the mutex: a text that is news counts as synced from here on.
Receives ==
  /\ server = "read"
  /\ in[taken] # <<>>
  /\ Head(in[taken]) \in Text
  /\ in' = [in EXCEPT ![taken] = Tail(@)]
  /\ LET t == Head(in[taken]) IN
       IF Worth(t)
       THEN /\ server' = "setting"
            /\ incoming' = t
            /\ lastText' = t
            /\ recent' = recent \union {t}
       ELSE UNCHANGED <<server, incoming, lastText, recent>>
  /\ UNCHANGED <<os, outgoing, taken, out, failed>>
  /\ ServesOnly

\* The same with the path of an image, other than the last: a task fetches it.
ReceivesRef ==
  /\ server = "read"
  /\ in[taken] # <<>>
  /\ in' = [in EXCEPT ![taken] = Tail(@)]
  /\ LET p == Head(in[taken]) IN
       /\ p \in Picture
       /\ IF p = lastRef
          THEN UNCHANGED <<lastRef, fetch>>
          ELSE /\ fetch[p] = "idle"
               /\ lastRef' = p
               /\ fetch' = [fetch EXCEPT ![p] = "get"]
  /\ UNCHANGED <<os, lastText, recent, outgoing, server, incoming, taken, out, failed>>
  /\ OnlyServerMoves

\* set_text on a blocking thread; an error is ignored.
SetsText ==
  /\ server = "setting"
  /\ server' = "read"
  /\ incoming' = NoText
  /\ \/ os' = incoming /\ UNCHANGED failed
     \/ failed' = TRUE /\ UNCHANGED os
  /\ UNCHANGED <<lastText, recent, outgoing, taken, out, in>>
  /\ ServesOnly

\* End of file: no queue to the phone, the writer is aborted.
Eof ==
  /\ server = "read"
  /\ in[taken] = <<>>
  /\ peer[taken] = "closed"
  /\ server' = "accept"
  /\ outgoing' = 0
  /\ UNCHANGED <<os, lastText, recent, incoming, taken, out, in, failed>>
  /\ ServesOnly

\* A read error: `?` returns past the cleanup.
ReadError ==
  /\ server = "read"
  /\ peer[taken] = "reset"
  /\ server' = "accept"
  /\ UNCHANGED <<os, lastText, recent, outgoing, incoming, taken, out, in, failed>>
  /\ ServesOnly

Server ==
  Accepts \/ SetsUp \/ Receives \/ ReceivesRef \/ SetsText \/ Eof \/ ReadError

-----------------------------------------------------------------------------
(* fetch_image_task *)

OnlyFetchMoves ==
  UNCHANGED <<watcherVars, lastText, recent, outgoing, lastRef, serverVars, wireVars,
              phoneClip, userVars, dropVars>>

\* vdfs::fetch, a STAT for the size and a READ, gives the bytes, ...
Arrives(p) ==
  /\ fetch' = [fetch EXCEPT ![p] = "set"]
  /\ UNCHANGED failed

\* ... or the part of them that came before the connection ended or stayed silent
\* for 20s, ...
CutShort(p) ==
  /\ fetch' = [fetch EXCEPT ![p] = "cut"]
  /\ failed' = TRUE

\* ... or an error: no connection, no answer, size 0.
NotFetched(p) ==
  /\ fetch' = [fetch EXCEPT ![p] = "idle"]
  /\ failed' = TRUE

Fetched(p) ==
  /\ fetch[p] = "get"
  /\ Arrives(p) \/ CutShort(p) \/ NotFetched(p)
  /\ UNCHANGED <<os, lastSig>>
  /\ OnlyFetchMoves

\* set_image; an error ends the task.
SetsImage(p) ==
  /\ fetch[p] \in {"set", "cut"}
  /\ \/ /\ os' = IF fetch[p] = "cut" THEN CutImage ELSE p
        /\ fetch' = [fetch EXCEPT ![p] = "sign"]
        /\ UNCHANGED failed
     \/ /\ fetch' = [fetch EXCEPT ![p] = "idle"]
        /\ failed' = TRUE
        /\ UNCHANGED os
  /\ UNCHANGED lastSig
  /\ OnlyFetchMoves

\* The signature of whatever image is there by now is recorded.
Signs(p) ==
  /\ fetch[p] = "sign"
  /\ fetch' = [fetch EXCEPT ![p] = "idle"]
  /\ lastSig' = IF os \in Picture THEN os ELSE lastSig
  /\ UNCHANGED <<os, failed>>
  /\ OnlyFetchMoves

Fetches(p) == Fetched(p) \/ SetsImage(p) \/ Signs(p)

-----------------------------------------------------------------------------
(* Time, the users and the phone *)

\* A text is on its way; what waits on a connection not accepted yet may stay.
InFlight == \E c \in 1 .. taken : in[c] # <<>> \/ out[c] # <<>>

\* ECHO_WINDOW has passed for a text.  It is longer than a frame, its echo and
\* a set_text take.
Expires ==
  /\ ~InFlight
  /\ server # "setting"
  /\ watcher # "send"
  /\ \E t \in recent : recent' = recent \ {t}
  /\ UNCHANGED <<os, watcherVars, lastText, outgoing, imageVars, serverVars, fetch,
                 wireVars, phoneClip, userVars, dropVars, failed>>

\* A connection is served, and the previous copy has reached both sides.
Settled ==
  /\ server = "read"
  /\ watcher = "sleep"
  /\ ~InFlight
  /\ \A p \in Picture : fetch[p] = "idle"
  /\ os = IF os \in Picture THEN lastSig ELSE lastText

Live == taken # 0 /\ peer[taken] = "open"

\* The last text synced, or the last image in either direction.
LastOfItsKind(x) == x \in {lastText, lastSig, lastRef}

MayCopy(x) ==
  /\ copies < MaxCopy
  /\ Pace # "any" => Settled
  /\ Pace = "window" => recent = {} /\ ~LastOfItsKind(x)

\* The user of the PC copies a text or an image.  Polling cannot tell what is
\* copied again from what has stayed.
UserCopies(x) ==
  /\ MayCopy(x)
  /\ x # os
  /\ copies' = copies + 1
  /\ os' = x
  /\ newest' = x
  /\ cut' = ~Live
  /\ UNCHANGED <<watcherVars, sharedVars, serverVars, fetch, wireVars, phoneClip,
                 drops, failed>>

\* What the phone sends, on every connection it has.
Push(x) == [c \in Conn |-> IF peer[c] = "open" THEN Append(in[c], x) ELSE in[c]]

\* The user of the phone copies a text or an image.
PhoneCopies(x) ==
  /\ MayCopy(x)
  /\ x # phoneClip
  /\ copies' = copies + 1
  /\ phoneClip' = x
  /\ newest' = x
  /\ in' = Push(x)
  /\ cut' = ~Live
  /\ UNCHANGED <<os, watcherVars, sharedVars, serverVars, fetch, opened, peer, out,
                 drops, failed>>

\* serve_conn: the file that the watcher staged goes to the phone, ...
Served(c) == phoneClip' = Head(out[c]) /\ UNCHANGED failed

\* ... or not: the connection fails, or the file is gone, which reads as empty.
NotServed == failed' = TRUE /\ UNCHANGED phoneClip

\* A text becomes the phone's clipboard, echoed or not; an image is fetched from
\* port 5679 and not echoed; a request is answered.
PhoneReads(c) ==
  /\ peer[c] = "open"
  /\ out[c] # <<>>
  /\ out' = [out EXCEPT ![c] = Tail(@)]
  /\ LET m == Head(out[c]) IN
       \/ /\ m = Request
          /\ in' = IF phoneClip = NoText THEN in ELSE Push(phoneClip)
          /\ UNCHANGED <<phoneClip, failed>>
       \/ /\ m \in Text
          /\ phoneClip' = m
          /\ in' \in {in, Push(m)}
          /\ UNCHANGED failed
       \/ /\ m \in Picture
          /\ Served(c) \/ NotServed
          /\ UNCHANGED in
  /\ UNCHANGED <<os, watcherVars, sharedVars, serverVars, fetch, opened, peer,
                 userVars, dropVars>>

PhoneConnects ==
  /\ opened < MaxConn
  /\ opened' = opened + 1
  /\ peer' = [peer EXCEPT ![opened + 1] = "open"]
  /\ UNCHANGED <<os, watcherVars, sharedVars, serverVars, fetch, out, in, phoneClip,
                 userVars, dropVars, failed>>

\* A connection ends, and what was on its way to the phone is lost; a reset
\* also loses what was on its way from it.
Drops(c) ==
  /\ peer[c] = "open"
  /\ drops < MaxDrop
  /\ drops' = drops + 1
  /\ cut' = TRUE
  /\ out' = [out EXCEPT ![c] = <<>>]
  /\ \/ peer' = [peer EXCEPT ![c] = "closed"] /\ UNCHANGED in
     \/ peer' = [peer EXCEPT ![c] = "reset"] /\ in' = [in EXCEPT ![c] = <<>>]
  /\ UNCHANGED <<os, watcherVars, sharedVars, serverVars, fetch, opened, phoneClip,
                 userVars, failed>>

-----------------------------------------------------------------------------
(* Specification *)

Next ==
  \/ Watcher
  \/ Server
  \/ Expires
  \/ \E p \in Picture : Fetches(p)
  \/ \E x \in Text \union Image : UserCopies(x) \/ PhoneCopies(x)
  \/ \E c \in Conn : PhoneReads(c) \/ Drops(c)
  \/ PhoneConnects

Spec == Init /\ [][Next]_vars

\* The watcher polls every 700ms, the tasks run, time passes, and the phone reads
\* what it is sent; nobody has to copy, connect or disconnect.
Fairness ==
  /\ WF_vars(Watcher)
  /\ WF_vars(Server)
  /\ WF_vars(Expires)
  /\ \A p \in Picture : WF_vars(Fetches(p))
  /\ \A c \in Conn : WF_vars(PhoneReads(c))

FairSpec == Spec /\ Fairness

-----------------------------------------------------------------------------
(* Properties *)

\* What was copied last, on either side, ends up on both, text or image, although
\* reading, deciding and writing are separate steps, the signature of a received
\* image is recorded after the watcher can see the image, text and images have a
\* memory of their own, and earlier connections ended before, with or without the
\* cleanup: as long as the connection of the copy was open and none ended since,
\* the OS and vdfs deliver, and nobody copies within the window of the previous
\* copy, nor what was the last of its kind already.
NewestEverywhere ==
  \A n \in 1 .. MaxCopy :
    copies = n ~> \/ os = newest /\ phoneClip = newest
                  \/ copies > n \/ cut \/ failed
=============================================================================
