----------------------------- MODULE Receivers -----------------------------
(***************************************************************************)
(* The two receivers that pull files over other wires than EasyShare.      *)
(*                                                                         *)
(* filetrans_feature (pcsuite-core/src/filetrans.rs): the phone announces  *)
(* a batch on the control WS, the PC pulls it as one tar over the gateway  *)
(* (download_batch of mdfs.rs) and answers with a receipt.                 *)
(*                                                                         *)
(* CloudShare (cloudshare.rs, https.rs): the phone uploads to a relay, and *)
(* a background task of pcsuite-ffi polls the relay and fetches what is    *)
(* waiting, file by file.                                                  *)
(***************************************************************************)
EXTENDS Naturals, Sequences, FiniteSets, FiniteSetsExt

CONSTANTS
  MaxArm,         \* times enable_file_transfer is called in a session
  MaxBatch,       \* batches the phone announces
  MaxFile,        \* files of a batch, and of an upload to the relay
  Ring,           \* messages the control channel keeps for a slow subscriber
  Upload,         \* uploads to the relay
  MaxCloudStart,  \* starts of the cloud poller
  MaxFault        \* calls to the relay and local operations that fail

ASSUME ArmAssumption == MaxArm \in Nat
ASSUME BatchAssumption == MaxBatch \in Nat
ASSUME FileAssumption == MaxFile \in Nat \ {0}
ASSUME RingAssumption == Ring \in Nat \ {0}
ASSUME UploadAssumption == IsFiniteSet(Upload)
ASSUME CloudStartAssumption == MaxCloudStart \in Nat
ASSUME FaultAssumption == MaxFault \in Nat

Arm == 1 .. MaxArm
Batch == 1 .. MaxBatch
File == 1 .. MaxFile
NoBatch == 0
CancelMsg == 0   \* "TRANS_FILE_CANCEL:", among the batches
NoUpload == "no upload"
\* A reply to a download: its head, the header of each file, its end.
ReplyEnd == MaxFile + 2
Receipt == {"success", "cancel"} \X (0 .. MaxFile)

VARIABLES
  scene,      \* bound: the control WS and its receiver, or the relay's
  session,    \* the session is "up", its WS "closed", or it is "dropped"
  batches,    \* batches announced
  inbox,      \* per receiver task, the messages kept for it
  missed,     \* history: per task, batches that fell out of the ring
  at,         \* per task: "none", "recv", "info", "reply", "write", "answer" or "over"
  work,       \* per task, the batch it pulls
  have,       \* per task, how far the reply is in
  saved,      \* per task, the files of the batch written
  good,       \* per task, the batch was saved
  receipts,   \* per task and batch, the receipts sent: a verdict and a count
  cancelled   \* history: batches the phone cancelled

batchVars == <<session, batches, inbox, missed, at, work, have, saved, good, receipts,
               cancelled>>

VARIABLES
  record,     \* per upload, the relay's: "none", "pending" or "complete"
  marked,     \* files the relay has marked hasDownload
  expired,    \* uploads the relay drops, or is about to
  mode,       \* the user's mode uses the cloud
  account,    \* the app has installed a complete account
  cloud,      \* the poller: "off", "wait", "query", "next", "init", "file", "body",
              \* "rename" or "complete"
  queue,      \* uploads of this pass still to be received
  task,       \* the one being received
  list,       \* files of it still to be fetched
  final,      \* files under their final name
  slipped,    \* history: files the relay marked whose bytes never got their final name
  cloudStarts,  \* starts so far
  faults      \* failures so far

cloudVars == <<record, marked, expired, mode, account, cloud, queue, task, list, final,
               slipped, cloudStarts, faults>>
receiversVars == <<scene, batchVars, cloudVars>>

ReceiversInit ==
  /\ scene \in {"batch", "cloud"}
  /\ session = "up"
  /\ batches = 0
  /\ inbox = [t \in Arm |-> <<>>]
  /\ missed = [t \in Arm |-> {}]
  /\ at = [t \in Arm |-> "none"]
  /\ work = [t \in Arm |-> NoBatch]
  /\ have = [t \in Arm |-> 0]
  /\ saved = [t \in Arm |-> {}]
  /\ good = [t \in Arm |-> FALSE]
  /\ receipts = [t \in Arm |-> [b \in Batch |-> <<>>]]
  /\ cancelled = {}
  /\ record = [u \in Upload |-> "none"]
  /\ marked = {}
  /\ expired = {}
  /\ mode \in BOOLEAN /\ (scene = "batch" => mode)
  /\ account = FALSE
  /\ cloud = "off"
  /\ queue = {}
  /\ task = NoUpload
  /\ list = {}
  /\ final = {}
  /\ slipped = {}
  /\ cloudStarts = 0
  /\ faults = 0

-----------------------------------------------------------------------------
(* The control WS *)

Live(t) == at[t] \notin {"none", "over"}

\* enable_file_trans: one more task; an earlier one goes on.
Arms(t) ==
  /\ scene = "batch" /\ session = "up"
  /\ at[t] = "none" /\ \A s \in Arm : s < t => at[s] # "none"
  /\ at' = [at EXCEPT ![t] = "recv"]
  /\ UNCHANGED <<scene, session, batches, inbox, missed, work, have, saved,
                 good, receipts, cancelled, cloudVars>>

\* The ring keeps the newest messages.
Kept(q, msg) == IF Len(q) < Ring THEN Append(q, msg) ELSE Append(Tail(q), msg)

Lost(q) == IF Len(q) < Ring THEN {} ELSE {q[1]} \ {CancelMsg}

Sends(msg) ==
  /\ inbox' = [t \in Arm |-> IF Live(t) THEN Kept(inbox[t], msg) ELSE inbox[t]]
  /\ missed' = [t \in Arm |-> IF Live(t) THEN missed[t] \cup Lost(inbox[t]) ELSE missed[t]]

\* The phone announces a batch.
Announces ==
  /\ scene = "batch" /\ session = "up" /\ batches < MaxBatch
  /\ batches' = batches + 1
  /\ Sends(batches + 1)
  /\ UNCHANGED <<scene, session, at, work, have, saved, good, receipts, cancelled,
                 cloudVars>>

\* The phone cancels the batch it announced last. Bound: once.
Cancels ==
  /\ scene = "batch" /\ session = "up"
  /\ batches > 0 /\ batches \notin cancelled
  /\ cancelled' = cancelled \cup {batches}
  /\ Sends(CancelMsg)
  /\ UNCHANGED <<scene, session, batches, at, work, have, saved, good, receipts,
                 cloudVars>>

\* The control WS ends; or the session is dropped, and with it its tasks.
SessionEnds ==
  /\ scene = "batch"
  /\ \/ session = "up" /\ session' = "closed" /\ UNCHANGED at
     \/ /\ session # "dropped" /\ session' = "dropped"
        /\ at' = [t \in Arm |-> IF at[t] = "none" THEN "none" ELSE "over"]
  /\ UNCHANGED <<scene, batches, inbox, missed, work, have, saved, good,
                 receipts, cancelled, cloudVars>>

-----------------------------------------------------------------------------
(* filetrans_feature *)

Moves(t, s) == at' = [at EXCEPT ![t] = s]
Pulling == {"info", "reply", "write", "answer"}

\* A batch starts; any other message, a cancel included, is passed over, and so
\* is a gap in them.
Receives(t) ==
  /\ at[t] = "recv" /\ inbox[t] # <<>>
  /\ inbox' = [inbox EXCEPT ![t] = Tail(@)]
  /\ IF Head(inbox[t]) \in Batch
     THEN /\ Moves(t, "info")
          /\ work' = [work EXCEPT ![t] = Head(inbox[t])]
     ELSE UNCHANGED <<at, work>>
  /\ UNCHANGED <<scene, session, batches, missed, have, saved, good, receipts,
                 cancelled, cloudVars>>

\* The channel is closed and drained.
RecvEnds(t) ==
  /\ at[t] = "recv" /\ inbox[t] = <<>> /\ session = "closed"
  /\ Moves(t, "over")
  /\ UNCHANGED <<scene, session, batches, inbox, missed, work, have, saved,
                 good, receipts, cancelled, cloudVars>>

batchFrame == <<scene, session, batches, inbox, missed, work, receipts, cancelled,
                cloudVars>>

\* The folder is made and download_info is answered, or not.
Registers(t) ==
  /\ at[t] = "info"
  /\ \E s \in {"reply", "answer"} : Moves(t, s)
  /\ UNCHANGED <<batchFrame, have, saved, good>>

\* http_reply_complete
Complete(t) == have[t] = ReplyEnd

\* A read gives more of the reply; one read may give a lot.
Reads(t) ==
  /\ at[t] = "reply" /\ ~Complete(t)
  /\ \E n \in have[t] + 1 .. ReplyEnd : have' = [have EXCEPT ![t] = n]
  /\ UNCHANGED <<batchFrame, at, saved, good>>

\* parse_http, dechunk: the status is known once the head is in; a body or a
\* chunk that is cut short is taken as it is.
Parsed(t) == have[t] >= 1

\* untar_all: the files whose header is in; the data of the last may be short.
Unpacked(t) == {f \in File : have[t] > f}

\* Mutant: without a deadline.
StopsWhenComplete(t) ==
  /\ at[t] = "reply" /\ Complete(t)
  /\ Moves(t, IF Parsed(t) /\ Unpacked(t) # {} THEN "write" ELSE "answer")
  /\ UNCHANGED <<batchFrame, have, saved, good>>

\* The reply is complete or, for a chunk in it that looks like the last, is taken
\* for it; or the connection ends, or the deadline is there. One file is needed at
\* least.
Stops(t) ==
  /\ at[t] = "reply"
  /\ Moves(t, IF Parsed(t) /\ Unpacked(t) # {} THEN "write" ELSE "answer")
  /\ UNCHANGED <<batchFrame, have, saved, good>>

\* Mutant: a file that fails is passed over with a receipt of its own.
WritesOn(t) ==
  /\ at[t] = "write"
  /\ LET rest == Unpacked(t) \ saved[t] IN
       \/ /\ rest # {}
          /\ saved' = [saved EXCEPT ![t] = @ \cup {Min(rest)}]
          /\ \/ UNCHANGED receipts
             \/ receipts' = [receipts EXCEPT ![t][work[t]] = Append(@, <<"cancel", MaxFile>>)]
          /\ UNCHANGED <<at, good>>
       \/ /\ rest = {} /\ Moves(t, "answer")
          /\ good' = [good EXCEPT ![t] = TRUE]
          /\ UNCHANGED <<saved, receipts>>
  /\ UNCHANGED <<scene, session, batches, inbox, missed, work, have, cancelled,
                 cloudVars>>

\* fs::write of the next file, or a failure of it.
Writes(t) ==
  /\ at[t] = "write"
  /\ LET rest == Unpacked(t) \ saved[t] IN
       \/ /\ rest # {}
          /\ saved' = [saved EXCEPT ![t] = @ \cup {Min(rest)}]
          /\ UNCHANGED <<at, good>>
       \/ rest # {} /\ Moves(t, "answer") /\ UNCHANGED <<saved, good>>
       \/ /\ rest = {} /\ Moves(t, "answer")
          /\ good' = [good EXCEPT ![t] = TRUE]
          /\ UNCHANGED saved
  /\ UNCHANGED <<batchFrame, have>>

\* The receipt, and Done or Failed for the app, whether the phone has cancelled the
\* batch or not. A send that fails is only logged.
Answers(t) ==
  /\ at[t] = "answer"
  /\ LET receipt == IF good[t] THEN <<"success", Cardinality(saved[t])>>
                                ELSE <<"cancel", MaxFile>>
     IN  receipts' = [receipts EXCEPT ![t][work[t]] = Append(@, receipt)]
  /\ Moves(t, "recv")
  /\ work' = [work EXCEPT ![t] = NoBatch]
  /\ have' = [have EXCEPT ![t] = 0]
  /\ saved' = [saved EXCEPT ![t] = {}]
  /\ good' = [good EXCEPT ![t] = FALSE]
  /\ UNCHANGED <<scene, session, batches, inbox, missed, cancelled, cloudVars>>

-----------------------------------------------------------------------------
(* The relay and the app, around the cloud poller *)

Files(u) == {u} \X File

\* The phone uploads.
Uploads(u) ==
  /\ scene = "cloud" /\ record[u] = "none"
  /\ record' = [record EXCEPT ![u] = "pending"]
  /\ UNCHANGED <<scene, batchVars, marked, expired, mode, account, cloud, queue, task, list,
                 final, slipped, cloudStarts, faults>>

\* Three days later, or the relay says so.
Expires(u) ==
  /\ record[u] = "pending"
  /\ expired' = expired \cup {u}
  /\ UNCHANGED <<scene, batchVars, record, marked, mode, account, cloud, queue, task, list,
                 final, slipped, cloudStarts, faults>>

\* The user takes another mode; the app signs in, later than it arms the poller.
UserSets ==
  /\ scene = "cloud"
  /\ \/ mode' = ~mode /\ UNCHANGED account
     \/ account' = TRUE /\ UNCHANGED mode
  /\ UNCHANGED <<scene, batchVars, record, marked, expired, cloud, queue, task, list,
                 final, slipped, cloudStarts, faults>>

\* The file that is fetched.
Current == <<task, Min(list)>>

\* The file is not kept, whether the relay has marked it or not.
Drops ==
  /\ \/ UNCHANGED marked
     \/ cloud = "body" /\ marked' = marked \cup {Current}
  /\ slipped' = slipped \cup ({Current} \cap marked')
  /\ UNCHANGED final

\* The file has its final name.
Keeps == final' = final \cup {Current} /\ UNCHANGED <<marked, slipped>>

\* An abort at an await. What the relay is asked and the file system does may still
\* be done, or not.
Aborted ==
  /\ queue' = {} /\ task' = NoUpload /\ list' = {}
  /\ \/ cloud = "rename" /\ Keeps
     \/ cloud \in {"body", "rename"} /\ Drops
     \/ cloud \notin {"body", "rename"} /\ UNCHANGED <<marked, final, slipped>>
  /\ \/ UNCHANGED record
     \/ cloud = "complete" /\ record' = [record EXCEPT ![task] = "complete"]

\* pcsuite_cloud_recv_start: an earlier poller is aborted.
CloudStarts ==
  /\ scene = "cloud" /\ cloudStarts < MaxCloudStart
  /\ cloudStarts' = cloudStarts + 1
  /\ cloud' = "query"
  /\ Aborted
  /\ UNCHANGED <<scene, batchVars, expired, mode, account, faults>>

\* pcsuite_cloud_recv_stop
CloudStops ==
  /\ cloud # "off"
  /\ cloud' = "off"
  /\ Aborted
  /\ UNCHANGED <<scene, batchVars, expired, mode, account, cloudStarts, faults>>

-----------------------------------------------------------------------------
(* cloud_recv_once, and receive_task for each upload that is pending *)

cloudFrame == <<scene, batchVars, expired, mode, account, cloudStarts>>

\* A call fails, or the relay has dropped what it is about.
Faulty ==
  \/ faults < MaxFault /\ faults' = faults + 1
  \/ task \in expired /\ UNCHANGED faults

\* The interval is over, or poll_now rings.
Wakes ==
  /\ cloud = "wait"
  /\ cloud' = "query"
  /\ UNCHANGED <<cloudFrame, record, marked, queue, task, list, final, slipped, faults>>

\* Mutant: the relay is asked for what is complete, too.
QueriesAll ==
  /\ cloud = "query"
  /\ \/ ~(mode /\ account) /\ cloud' = "wait" /\ UNCHANGED <<queue, faults>>
     \/ mode /\ account /\ Faulty /\ cloud' = "wait" /\ UNCHANGED queue
     \/ /\ mode /\ account /\ cloud' = "next"
        /\ queue' = {u \in Upload : record[u] # "none" /\ u \notin expired}
        /\ UNCHANGED faults
  /\ UNCHANGED <<cloudFrame, record, marked, task, list, final, slipped>>

\* In another mode, or without an account, there is nothing to ask for.
\* pending_records takes what waits and is not expired, or fails.
Queries ==
  /\ cloud = "query"
  /\ \/ ~(mode /\ account) /\ cloud' = "wait" /\ UNCHANGED <<queue, faults>>
     \/ mode /\ account /\ Faulty /\ cloud' = "wait" /\ UNCHANGED queue
     \/ /\ mode /\ account /\ cloud' = "next"
        /\ queue' = {u \in Upload : record[u] = "pending" /\ u \notin expired}
        /\ UNCHANGED faults
  /\ UNCHANGED <<cloudFrame, record, marked, task, list, final, slipped>>

\* receive_pending takes the next one, or the pass is over.
TakesNext ==
  /\ cloud = "next"
  /\ \/ \E u \in queue :
          queue' = queue \ {u} /\ task' = u /\ cloud' = "init"
     \/ queue = {} /\ cloud' = "wait" /\ task' = NoUpload /\ UNCHANGED queue
  /\ UNCHANGED <<cloudFrame, record, marked, list, final, slipped, faults>>

\* Mutant: an empty list is left alone.
InitsSome ==
  /\ cloud = "init"
  /\ LET rest == {f \in File : <<task, f>> \notin marked} IN
       \/ rest # {} /\ list' = rest /\ cloud' = "file" /\ UNCHANGED faults
       \/ rest = {} /\ cloud' = "next" /\ UNCHANGED <<list, faults>>
       \/ Faulty /\ cloud' = "next" /\ UNCHANGED list
  /\ UNCHANGED <<cloudFrame, record, marked, queue, task, final, slipped>>

\* download_init: what the relay has not marked as fetched. If that is nothing,
\* the upload is closed out.
Inits ==
  /\ cloud = "init"
  /\ LET rest == {f \in File : <<task, f>> \notin marked} IN
       \/ rest # {} /\ list' = rest /\ cloud' = "file" /\ UNCHANGED faults
       \/ rest = {} /\ cloud' = "complete" /\ UNCHANGED <<list, faults>>
       \/ Faulty /\ cloud' = "next" /\ UNCHANGED list
  /\ UNCHANGED <<cloudFrame, record, marked, queue, task, final, slipped>>

\* Mutant: a failed file is passed over and the others go on.
PassesOver ==
  /\ cloud = "file" /\ list # {}
  /\ \/ cloud' = "body" /\ UNCHANGED <<list, faults>>
     \/ Faulty /\ list' = list \ {Min(list)} /\ UNCHANGED cloud
  /\ UNCHANGED <<cloudFrame, record, marked, queue, task, final, slipped>>

\* The next file's folder and its `.download` are made, and its reply begins.
Fetches ==
  /\ cloud = "file" /\ list # {}
  /\ \/ cloud' = "body" /\ UNCHANGED <<list, faults>>
     \/ Faulty /\ cloud' = "next" /\ list' = {}
  /\ UNCHANGED <<cloudFrame, record, marked, queue, task, final, slipped>>

\* request_streaming: the whole body is in the `.download`, and the relay may
\* mark the file.
Streams ==
  /\ cloud = "body"
  /\ cloud' = "rename"
  /\ marked' \in {marked, marked \cup {Current}}
  /\ UNCHANGED <<cloudFrame, record, queue, task, list, final, slipped, faults>>

\* A stall, a body cut short of its length or in a chunk, or a full disk, which may
\* show only in the last write or the flush: the relay has sent it all by then, and
\* may have marked the file. The `.download` is removed.
StreamBreaks ==
  /\ cloud = "body"
  /\ Faulty
  /\ Drops
  /\ cloud' = "next"
  /\ list' = {}
  /\ UNCHANGED <<cloudFrame, record, queue, task>>

\* dedup_path and the rename.
Renames ==
  /\ cloud = "rename"
  /\ \/ /\ Keeps
        /\ list' = list \ {Min(list)}
        /\ cloud' = IF list' = {} THEN "complete" ELSE "file"
        /\ UNCHANGED faults
     \/ Faulty /\ Drops /\ cloud' = "next" /\ list' = {}
  /\ UNCHANGED <<cloudFrame, record, queue, task>>

\* download_complete, and Done. The call may fail, on its way there or back.
Completes ==
  /\ cloud = "complete"
  /\ cloud' = "next"
  /\ \/ /\ record' = [record EXCEPT ![task] = "complete"]
        /\ UNCHANGED faults
     \/ Faulty /\ \E r \in {"pending", "complete"} : record' = [record EXCEPT ![task] = r]
  /\ UNCHANGED <<cloudFrame, marked, queue, task, list, final, slipped>>

-----------------------------------------------------------------------------
Pull(t) ==
  Receives(t) \/ RecvEnds(t) \/ Registers(t) \/ Stops(t) \/ Writes(t) \/ Answers(t)

Pass ==
  \/ Wakes \/ Queries \/ TakesNext \/ Inits \/ Fetches \/ Streams \/ StreamBreaks
  \/ Renames \/ Completes

ReceiversNext ==
  \/ \E t \in Arm : Arms(t) \/ Reads(t) \/ Pull(t)
  \/ Announces \/ Cancels \/ SessionEnds
  \/ \E u \in Upload : Uploads(u) \/ Expires(u)
  \/ UserSets \/ CloudStarts \/ CloudStops \/ Pass

ReceiversSpec == ReceiversInit /\ [][ReceiversNext]_receiversVars

\* Each await of a task has a deadline. The phone need send nothing, the user need
\* never sign in.
ReceiversFairSpec ==
  /\ ReceiversSpec
  /\ \A t \in Arm : WF_receiversVars(Pull(t))
  /\ WF_receiversVars(Pass)

-----------------------------------------------------------------------------
BatchTypeOK ==
  /\ scene \in {"batch", "cloud"}
  /\ session \in {"up", "closed", "dropped"}
  /\ batches \in 0 .. MaxBatch
  /\ inbox \in [Arm -> Seq(Batch \cup {CancelMsg})]
  /\ \A t \in Arm : Len(inbox[t]) <= Ring
  /\ missed \in [Arm -> SUBSET Batch]
  /\ at \in [Arm -> Pulling \cup {"none", "recv", "over"}]
  /\ work \in [Arm -> Batch \cup {NoBatch}]
  /\ have \in [Arm -> 0 .. ReplyEnd]
  /\ saved \in [Arm -> SUBSET File]
  /\ good \in [Arm -> BOOLEAN]
  /\ receipts \in [Arm -> [Batch -> Seq(Receipt)]]
  /\ cancelled \subseteq Batch

CloudTypeOK ==
  /\ record \in [Upload -> {"none", "pending", "complete"}]
  /\ \A s \in {marked, final, slipped} : s \subseteq Upload \X File
  /\ expired \subseteq Upload
  /\ mode \in BOOLEAN
  /\ account \in BOOLEAN
  /\ cloud \in {"off", "wait", "query", "next", "init", "file", "body", "rename", "complete"}
  /\ queue \subseteq Upload
  /\ task \in Upload \cup {NoUpload}
  /\ list \subseteq File
  /\ cloudStarts \in 0 .. MaxCloudStart
  /\ faults \in 0 .. MaxFault

ReceiversTypeOK == BatchTypeOK /\ CloudTypeOK

\* Every batch the phone announced and does not cancel is answered with a receipt
\* by each receiver that was there, however the pull of it and of those before it
\* ended and with a phone that goes silent: unless the session ends first, or the
\* batch fell out of the ring while the receiver was busy with others.
BatchAnswered ==
  \A t \in Arm, b \in Batch :
    (\E i \in 1 .. Ring : i <= Len(inbox[t]) /\ inbox[t][i] = b)
      ~> \/ receipts[t][b] # <<>>
         \/ session # "up" \/ b \in missed[t] \/ b \in cancelled

\* "One transfer id per batch": wherever a pull breaks and whatever is in the ring, a
\* receiver sends no second receipt for a batch, neither of the same verdict nor of
\* the other. Each receiver that was armed answers for itself.
AnsweredOnce ==
  \A t \in Arm, b \in Batch : Len(receipts[t][b]) <= 1

\* "Only call this when every file succeeded": an upload the relay was told to
\* forget has every file under its final name, over all attempts; but for a file
\* that the relay marked as fetched and the PC then lost, to a disk that is full, a
\* failed rename or a stop: download_init leaves it out of the next attempt.
NothingForgotten ==
  \A u \in Upload : record[u] = "complete" => Files(u) \subseteq final \cup slipped

\* "The record stays on the server, so a later attempt can retry it": an upload
\* waiting at the relay is completed in the end, whatever failed on the way; unless
\* the poller is stopped, the user has another mode or no account, or the upload
\* expires first.
PendingReceived ==
  \A u \in Upload : record[u] = "pending" /\ cloud # "off"
                      ~> \/ record[u] = "complete" \/ u \in expired
                         \/ cloud = "off" \/ ~mode \/ ~account

\* The poller, stopped, started again and failing anywhere, keeps the promise of
\* the mailbox: it delivers from what waits only, loses of it no more than the relay
\* was led to mark, and what is forgotten never comes back.
Relay == INSTANCE Mailbox WITH delivered <- final, lost <- slipped
MailboxSpec == Relay!Spec
=============================================================================
