------------------------------ MODULE Gateway ------------------------------
(***************************************************************************)
(* Files through the phone's gateway on 10380 (pcsuite-core/src/mdfs.rs):  *)
(* downloads that the app starts, watches and cancels                      *)
(* (PcSession::start_download and PcDownload of pcsuite-ffi), each a tar   *)
(* stream unpacked on the fly by a thread of its own; and the upload of a  *)
(* batch as a chunked tar.                                                 *)
(*                                                                         *)
(* A tar block is a cell here: a header, a unit of data, or the padding    *)
(* that follows data of an odd length. What the phone packs is chosen      *)
(* entry by entry as the headers are read.                                 *)
(***************************************************************************)
EXTENDS Naturals

CONSTANTS
  Name,      \* top-level names, in the archives and in the folder
  MaxEntry,  \* entries of an archive
  MaxSize,   \* cells of a file
  MaxItem    \* items of the upload

NoName == "no name"

ASSUME NameAssumption == Name # {} /\ NoName \notin Name
ASSUME EntryAssumption == MaxEntry \in Nat
ASSUME SizeAssumption == MaxSize \in Nat \ {0}
ASSUME ItemAssumption == MaxItem \in Nat

\* "name (n).ext"; n = 0 is the name itself. The user, the download and its
\* rival take three names at most.
Local == Name \X (0 .. 2)
NoLocal == <<NoName, 0>>
\* Inside a top-level name: the item itself, or one below it.
Below == {"self", "inside"}
Path == Local \X Below
NoPath == <<NoLocal, "self">>
Framing == {"chunked", "length", "close"}

VARIABLES
  scene,    \* bound: the download, or the upload
  kept,     \* the user's own items in the folder, at the start
  disk,     \* per path, what is there
  rival,    \* the name that another transfer into the folder has taken
  rstep     \* it has: "none", "picked" one, "created" it, or is "over"

VARIABLES
  state,    \* where the download's thread is
  framing,  \* how the reply marks its end
  phone,    \* the phone is "sending", "silent" or "gone"
  entries,  \* the headers read
  cur,      \* the entry being unpacked: its path, kind and size
  got,      \* the cells of it copied
  long,     \* long_name: a name for the next entry, or NoName
  top,      \* the local name given to each top-level name
  made,     \* the files it has finished
  cancel,   \* the flag of PcDownload::cancel
  outcome   \* "none" while it runs, "ok" or "err"

VARIABLES
  step,     \* the upload: "idle", "register", "stream", "ack" or "over"
  left,     \* items it has yet to append
  ended,    \* the chunked terminator is on the wire
  stalled,  \* the phone no longer takes what is written
  ack,      \* what the phone answers: "none", "ok" or "bad"
  pushed    \* the result of push_files: "none", "ok" or "err"

rivalVars == <<rival, rstep>>
replyVars == <<framing, phone, entries, top, made>>
localVars == <<cur, got, long>>
folderVars == <<kept, disk, rivalVars>>
downVars == <<state, replyVars, localVars, cancel, outcome>>
upVars == <<step, left, ended, stalled, ack, pushed>>
gatewayVars == <<scene, folderVars, downVars, upVars>>

Free == [kind |-> "free", by |-> NoName, n |-> 0, of |-> 0]
Users == [kind |-> "user", by |-> NoName, n |-> 0, of |-> 0]
Folder == [kind |-> "dir", by |-> "us", n |-> 0, of |-> 0]
File(by, n, of) == [kind |-> "file", by |-> by, n |-> n, of |-> of]

Cell == [kind : {"free", "user", "dir", "file"}, by : {"us", "rival", NoName},
         n : 0 .. MaxSize, of : 0 .. MaxSize]

Entry == [path : Path \cup {NoPath}, kind : {"end", "file", "dir"}, size : 0 .. MaxSize]
NoEntry == [path |-> NoPath, kind |-> "end", size |-> 0]

GatewayInit ==
  /\ scene \in {"download", "upload"}
  /\ kept \in SUBSET (Name \X {0})
  /\ disk = [p \in Path |-> IF p[1] \in kept /\ p[2] = "self" THEN Users ELSE Free]
  /\ rival = NoLocal
  /\ rstep = "none"
  /\ state = "idle"
  /\ framing = "close"
  /\ phone = "sending"
  /\ entries = 0
  /\ cur = NoEntry
  /\ got = 0
  /\ long = NoName
  /\ top = [m \in Name |-> NoLocal]
  /\ made = {}
  /\ cancel = FALSE
  /\ outcome = "none"
  /\ step = "idle"
  /\ left = MaxItem
  /\ ended = FALSE
  /\ stalled = FALSE
  /\ ack = "none"
  /\ pushed = "none"

-----------------------------------------------------------------------------
(* A download: the app's side *)

\* start_download: the task runs on, also without its handle.
Starts ==
  /\ scene = "download"
  /\ state = "idle"
  /\ state' = "info"
  /\ UNCHANGED <<scene, folderVars, replyVars, localVars, cancel, outcome, upVars>>

\* PcDownload::cancel
Cancels ==
  /\ state \notin {"idle", "over"}
  /\ cancel' = TRUE
  /\ UNCHANGED <<scene, folderVars, state, replyVars, localVars, outcome, upVars>>

\* PcDownload::status, as the app reads it.
Status ==
  CASE outcome = "none"           -> "running"
    [] outcome = "ok"             -> "done"
    [] outcome = "err" /\ cancel  -> "cancelled"
    [] outcome = "err" /\ ~cancel -> "failed"

-----------------------------------------------------------------------------
(* A download: its thread *)

\* PcDownload::finish; what the thread held is let go.
Finishes(result) ==
  /\ state' = "over"
  /\ outcome' = result
  /\ cur' = NoEntry
  /\ got' = 0
  /\ long' = NoName

Goes(s) ==
  /\ state' = s
  /\ UNCHANGED <<outcome, localVars>>

\* download_info, bounded by IO_TIMEOUT, then the connection and the reply's
\* head. The cancel flag is not looked at before the body.
Registers ==
  /\ state = "info"
  /\ \/ Goes("head") /\ \E f \in Framing : framing' = f
     \/ Finishes("err") /\ UNCHANGED framing
  /\ UNCHANGED <<scene, folderVars, phone, entries, top, made, cancel, upVars>>

Reading == {"head", "data", "pad", "skip", "meta"}

\* The phone goes silent, or its connection ends, wherever the stream is.
Drops ==
  /\ state \in Reading
  /\ phone = "sending"
  /\ \E p \in {"silent", "gone"} : phone' = p
  /\ UNCHANGED <<scene, folderVars, state, framing, entries, top, made, localVars, cancel,
                 outcome, upVars>>

\* ProgressReader::read gives a cell.
Gets == phone = "sending" /\ ~cancel

\* It gives no byte: the end of a body that nothing but its end marks.
Dries == phone = "gone" /\ ~cancel /\ framing # "chunked"

\* Mutant: a read waits for as long as it takes.
FailsUnlessSilent ==
  \/ cancel /\ phone # "silent"
  \/ phone = "gone" /\ framing = "chunked"

\* It fails: cancelled, silent for DOWNLOAD_IDLE_TIMEOUT, or cut in a chunk.
Fails ==
  \/ cancel /\ phone # "silent"
  \/ phone = "silent"
  \/ phone = "gone" /\ framing = "chunked"

Exists(m) == \E b \in Below : disk[<<m, b>>].kind # "free"

\* Mutant: the suffix is not tried on the disk.
AnyPath(m) == <<m, 0>>

\* unique_path: `name`, or the first free `name (n)`.
UniquePath(m) ==
  CHOOSE l \in Local :
    /\ l[1] = m /\ ~Exists(l)
    /\ \A k \in 0 .. l[2] : k < l[2] => Exists(<<m, k>>)

\* Mutant: every entry is given a name of its own.
RootAnew(m) == UniquePath(m)

Root(m) == IF top[m] # NoLocal THEN top[m] ELSE UniquePath(m)

\* The end marker, or the end of the body at a header's place: the archive is
\* over. One that created nothing is an error.
Ends ==
  /\ state = "head"
  /\ Gets \/ Dries
  /\ Finishes(IF \A m \in Name : top[m] = NoLocal THEN "err" ELSE "ok")
  /\ UNCHANGED <<scene, folderVars, replyVars, cancel, upVars>>

\* The header of a file or of a folder. A pending long name stands for the one
\* in the header; the top-level part of it gets its local name once.
Opens(kind, m, below, size) ==
  /\ state = "head" /\ Gets
  /\ entries < MaxEntry
  /\ entries' = entries + 1
  /\ LET name == IF long # NoName THEN long ELSE m IN
       /\ top' = [top EXCEPT ![name] = Root(name)]
       /\ cur' = [path |-> <<Root(name), below>>, kind |-> kind, size |-> size]
  /\ long' = NoName
  /\ got' = 0
  /\ state' = "create"
  /\ UNCHANGED <<scene, folderVars, framing, phone, made, cancel, outcome, upVars>>

OpensAny ==
  \E m \in Name, size \in 1 .. MaxSize :
    \/ \E b \in Below : Opens("file", m, b, size)
    \/ Opens("dir", m, "self", size)

Holder(p) == <<p[1], "self">>

\* create_dir_all
WithFolder(p) ==
  IF disk[p].kind = "free" THEN [disk EXCEPT ![p] = Folder] ELSE disk

\* The parents are made and the file is created, or truncated; then its data. It
\* may fail, and does where a folder has to be a file or a file a folder.
Creates ==
  /\ state = "create" /\ cur.kind = "file"
  /\ LET p == cur.path
         under == IF p[2] = "inside" THEN WithFolder(Holder(p)) ELSE disk
     IN \/ /\ p[2] = "inside" => under[Holder(p)].kind = "dir"
           /\ disk[p].kind # "dir"
           /\ Goes("data")
           /\ disk' = [under EXCEPT ![p] = File("us", 0, cur.size)]
        \/ Finishes("err") /\ UNCHANGED disk
  /\ UNCHANGED <<scene, kept, rivalVars, replyVars, cancel, upVars>>

\* No data follows, whatever size its header has.
CreatesFolder ==
  /\ state = "create" /\ cur.kind = "dir"
  /\ \/ disk[cur.path].kind # "file" /\ Goes("head") /\ disk' = WithFolder(cur.path)
     \/ Finishes("err") /\ UNCHANGED disk
  /\ UNCHANGED <<scene, kept, rivalVars, replyVars, cancel, upVars>>

\* io::copy of one cell; into a file that a rival has truncated, it leaves a mix.
Copies ==
  /\ state = "data" /\ got < cur.size /\ Gets
  /\ got' = got + 1
  /\ disk' = [disk EXCEPT ![cur.path] =
                IF @.by = "us" THEN [@ EXCEPT !.n = got + 1] ELSE @]
  /\ UNCHANGED <<scene, kept, rivalVars, state, replyVars, cur, long, cancel, outcome,
                 upVars>>

\* Mutant: a body that dries up inside a file is an archive that is over.
LosesNothing ==
  /\ state = "data" /\ got < cur.size
  /\ Finishes(IF Dries THEN "ok" ELSE "err")
  /\ UNCHANGED <<scene, folderVars, replyVars, cancel, upVars>>

\* The stream fails or ends inside the file, or the disk is full: the file is
\* removed.
Loses ==
  /\ state = "data" /\ got < cur.size
  /\ disk' = [disk EXCEPT ![cur.path] = Free]
  /\ Finishes("err")
  /\ UNCHANGED <<scene, kept, rivalVars, replyVars, cancel, upVars>>

\* All of it is there; data of an odd length is padded.
Completes ==
  /\ state = "data" /\ got = cur.size
  /\ made' = made \cup {cur.path}
  /\ Goes(IF cur.size % 2 = 1 THEN "pad" ELSE "head")
  /\ UNCHANGED <<scene, folderVars, framing, phone, entries, top, cancel, upVars>>

\* `L` and `x`: the name of the entry after it; an `x` without one leaves what is
\* pending. Others are skipped, and with them a name that was pending.
OpensMeta ==
  /\ state = "head" /\ Gets
  /\ entries < MaxEntry
  /\ entries' = entries + 1
  /\ \/ /\ long' \in Name \cup {long}
        /\ state' = "meta"
     \/ /\ long' = NoName
        /\ state' = "skip"
  /\ UNCHANGED <<scene, folderVars, framing, phone, cur, got, top, made, cancel, outcome,
                 upVars>>

\* What is skipped, read, or pads out is there, or the download fails. There may
\* be nothing to skip; and an `L` or `x` that dries up is not missed where whole
\* blocks hold it, for then no padding is asked for.
Skips ==
  /\ state \in {"pad", "skip", "meta"}
  /\ \/ (Gets \/ state # "pad") /\ Goes("head")
     \/ (Fails \/ Dries) /\ Finishes("err")
  /\ UNCHANGED <<scene, folderVars, replyVars, cancel, upVars>>

\* A read error at a header's place, or an end inside of a header.
Breaks ==
  /\ state = "head"
  /\ Fails \/ Dries
  /\ Finishes("err")
  /\ UNCHANGED <<scene, folderVars, replyVars, cancel, upVars>>

-----------------------------------------------------------------------------
(* Another transfer into the same folder: a second download, or a receiver with
   its dedup_path *)

Picks ==
  /\ scene = "download" /\ rstep = "none"
  /\ rstep' = "picked"
  /\ \E m \in Name : rival' = UniquePath(m)
  /\ UNCHANGED <<scene, kept, disk, downVars, upVars>>

PlacesOrLoses ==
  /\ \/ /\ rstep = "picked"
        /\ disk[<<rival, "self">>].kind # "dir"
        /\ rstep' = "created"
        /\ disk' = [disk EXCEPT ![<<rival, "self">>] = File("rival", 0, 1)]
     \/ /\ rstep = "created"
        /\ rstep' = "over"
        /\ \/ disk' = [disk EXCEPT ![<<rival, "self">>] = Free]
           \/ UNCHANGED disk
  /\ UNCHANGED <<scene, kept, rival, downVars, upVars>>

-----------------------------------------------------------------------------
(* The upload *)

\* push_files returns an error.
GivesUp ==
  /\ step' = "over"
  /\ pushed' = "err"

\* upload_items lists the batch, or cannot.
Lists ==
  /\ scene = "upload" /\ step = "idle"
  /\ \/ step' = "register" /\ UNCHANGED pushed
     \/ GivesUp
  /\ UNCHANGED <<scene, folderVars, downVars, left, ended, stalled, ack>>

\* drop_files_info and its reply, within UPLOAD_REGISTER_TIMEOUT.
RegistersDrop ==
  /\ step = "register"
  /\ \/ step' = "stream" /\ UNCHANGED pushed
     \/ GivesUp
  /\ UNCHANGED <<scene, folderVars, downVars, left, ended, stalled, ack>>

\* The phone stops reading. No write has a timeout.
Stalls ==
  /\ step = "stream" /\ ~stalled
  /\ stalled' = TRUE
  /\ UNCHANGED <<scene, folderVars, downVars, step, left, ended, ack, pushed>>

\* One item into the tar; one that is gone or unreadable by now, or a broken
\* connection, ends the upload, and the phone is left without a terminator.
Appends ==
  /\ step = "stream" /\ left > 0 /\ ~stalled
  /\ \/ left' = left - 1 /\ UNCHANGED <<step, pushed>>
     \/ GivesUp /\ UNCHANGED left
  /\ UNCHANGED <<scene, folderVars, downVars, ended, stalled, ack>>

\* ChunkedWriter::finish
Terminates ==
  /\ step = "stream" /\ left = 0 /\ ~stalled
  /\ \/ step' = "ack" /\ ended' = TRUE /\ UNCHANGED pushed
     \/ GivesUp /\ UNCHANGED ended
  /\ UNCHANGED <<scene, folderVars, downVars, left, stalled, ack>>

\* The phone has unpacked a whole archive, or has not; it may answer early.
Answers ==
  /\ step \in {"stream", "ack"} /\ ack = "none"
  /\ \/ ended /\ ack' = "ok"
     \/ ack' = "bad"
  /\ UNCHANGED <<scene, folderVars, downVars, step, left, ended, stalled, pushed>>

\* read_http_response: the phone's reply, or what has come of it at
\* UPLOAD_ACK_TIMEOUT or at the end of the connection.
Reply == {ack, "none"}

\* HTTP 200 and a JSON ack with status 0, or an error.
Judges ==
  /\ step = "ack"
  /\ step' = "over"
  /\ \E reply \in Reply : pushed' = IF reply = "ok" THEN "ok" ELSE "err"
  /\ UNCHANGED <<scene, folderVars, downVars, left, ended, stalled, ack>>

-----------------------------------------------------------------------------
Thread ==
  \/ Registers \/ Ends \/ OpensAny \/ Creates \/ CreatesFolder
  \/ Copies \/ Loses \/ Completes \/ OpensMeta \/ Skips \/ Breaks

Upload == Lists \/ RegistersDrop \/ Stalls \/ Appends \/ Terminates \/ Answers \/ Judges

GatewayNext == Starts \/ Cancels \/ Drops \/ Thread \/ Picks \/ PlacesOrLoses \/ Upload

GatewaySpec == GatewayInit /\ [][GatewayNext]_gatewayVars

\* The phone may send for ever: of the reads, only those that fail are sure to
\* come, by the flag, by the timeout or by the end of the connection.
GatewayFairSpec ==
  /\ GatewaySpec
  /\ WF_gatewayVars(Registers)
  /\ WF_gatewayVars(Creates \/ CreatesFolder \/ Completes)
  /\ WF_gatewayVars((Fails \/ Dries) /\ Thread)

-----------------------------------------------------------------------------
GatewayTypeOK ==
  /\ scene \in {"download", "upload"}
  /\ kept \subseteq Local
  /\ disk \in [Path -> Cell]
  /\ \A p \in Path : disk[p].n <= disk[p].of
  /\ rival \in Local \cup {NoLocal}
  /\ rstep \in {"none", "picked", "created", "over"}
  /\ state \in Reading \cup {"idle", "info", "create", "over"}
  /\ framing \in Framing
  /\ phone \in {"sending", "silent", "gone"}
  /\ entries \in 0 .. MaxEntry
  /\ cur \in Entry
  /\ got \in 0 .. cur.size
  /\ long \in Name \cup {NoName}
  /\ top \in [Name -> Local \cup {NoLocal}]
  /\ made \subseteq Path
  /\ cancel \in BOOLEAN
  /\ outcome \in {"none", "ok", "err"}
  /\ step \in {"idle", "register", "stream", "ack", "over"}
  /\ left \in 0 .. MaxItem
  /\ {ended, stalled} \subseteq BOOLEAN
  /\ ack \in {"none", "ok", "bad"}
  /\ pushed \in {"none", "ok", "err"}

\* "each top-level name that already exists locally is renamed once (`a.jpg` ->
\* `a (1).jpg`) so nothing gets overwritten": nor does a failed or a cancelled
\* download take an item of the user away.
NothingOverwritten ==
  \A l \in kept : disk[<<l, "self">>] = Users /\ disk[<<l, "inside">>] = Free

\* "is renamed once": what a download has on disk of a top-level item is all under
\* the one local name that the item was given, whatever else took the name or was
\* put into the folder in the meantime.
StaysTogether == \A p \in Path : disk[p].by = "us" => p[1] = top[p[1][1]]

\* A download that says done has written every file whose header it read, whole,
\* and its archive was not cut inside a chunked body, unless a rival took the
\* same free name at the same moment; an upload that says done put every item
\* and the terminator on the wire.
DoneIsWhole ==
  /\ Status = "done" =>
       /\ phone # "gone" \/ framing # "chunked"
       /\ (\A m \in Name : top[m] # NoLocal => top[m] # rival) =>
            \A p \in Path :
              /\ disk[p].by = "us" => disk[p].n = disk[p].of
              /\ p \in made => disk[p].kind = "file" /\ disk[p].by = "us"
  /\ pushed = "ok" => ended /\ left = 0

\* "setting `cancel` aborts the transfer": a cancelled download is over in the
\* end, with the phone sending for ever or silent.
CancelEnds == cancel ~> Status # "running"
=============================================================================
