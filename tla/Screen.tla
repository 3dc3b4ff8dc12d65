------------------------------- MODULE Screen -------------------------------
(***************************************************************************)
(* Screen mirroring: Session::enable_screen_from (pcsuite-core/src/        *)
(* session.rs), the tasks of a stream (screen.rs), and what the app calls  *)
(* through the FFI (pcsuite-ffi/src/lib.rs): start_screen, the blocking    *)
(* pollers of a PcScreen, the input calls, and the connection-center calls *)
(* by which the phone asks for a stream.                                   *)
(*                                                                         *)
(* A start holds the mutex of the session from its request to the last     *)
(* handshake; every stream then has a task that reads the mirror WS, a     *)
(* reader and a writer of the input WS, and one app thread per poller.     *)
(***************************************************************************)
EXTENDS Naturals, Sequences

CONSTANTS
  MaxStream,  \* calls of start_screen
  Side,       \* what the app polls beside the frames: {"audio", "event", "cursor"}
  MaxTry,     \* probes of port 10381 (25 in the code)
  MaxFrame,   \* video frames of a stream
  FrameCap,   \* frames that a stream queues (256 in the code)
  CmdCap      \* commands that the input writer queues (64 in the code)

ASSUME StreamAssumption == MaxStream \in Nat
ASSUME SideAssumption == Side \subseteq {"audio", "event", "cursor"}
ASSUME TryAssumption == MaxTry \in Nat \ {0}
ASSUME FrameAssumption == MaxFrame \in Nat /\ FrameCap \in Nat \ {0}
ASSUME CmdAssumption == CmdCap \in Nat \ {0}

Stream == 1 .. MaxStream
None == 0
Poller == {"frame"} \cup Side

VARIABLES
  start,    \* how far start_screen has come with each stream
  tries,    \* probes of the port by the start that holds the session
  slot,     \* the stream whose input handle the session keeps
  video,    \* video_loop: "none", "reading", "sending" or "over"
  packet,   \* the packet that comes next on the mirror WS
  frames,   \* the queue of frames, numbered in the order of their arrival
  arrived,  \* frames that video_loop has read
  shown,    \* the last frame that the app got
  side,     \* the other queues that hold something (each is taken to hold one)
  poll,     \* each poller: "none", "open" or "over" (its thread has ended)
  stop,     \* the stop flag of a PcScreen
  reader,   \* input_read_loop: "none", "reading", "ponging" or "over"
  writer,   \* input_write_loop: "none", "open" or "over"
  cmds,     \* commands in the writer's queue
  hand,     \* the stream that an input call of the app is sending to
  center    \* a request by the connection center and its answer

startVars == <<start, tries, slot>>
videoVars == <<video, packet, frames, arrived>>
pollVars == <<shown, poll, stop>>
inputVars == <<reader, writer, cmds, hand>>
vars == <<startVars, videoVars, side, pollVars, inputVars, center>>

Init ==
  /\ start = [s \in Stream |-> "none"]
  /\ tries = 0
  /\ slot = None
  /\ video = [s \in Stream |-> "none"]
  /\ packet = [s \in Stream |-> "none"]
  /\ frames = [s \in Stream |-> <<>>]
  /\ arrived = [s \in Stream |-> 0]
  /\ shown = [s \in Stream |-> 0]
  /\ side = [s \in Stream |-> {}]
  /\ poll = [s \in Stream |-> [p \in Poller |-> "none"]]
  /\ stop = [s \in Stream |-> FALSE]
  /\ reader = [s \in Stream |-> "none"]
  /\ writer = [s \in Stream |-> "none"]
  /\ cmds = [s \in Stream |-> 0]
  /\ hand = None
  /\ center = "off"

-----------------------------------------------------------------------------
(* start_screen *)

\* What a start does while it holds the session.
Opening == {"asking", "mirror", "control", "hung"}
Free == \A s \in Stream : start[s] \notin Opening

OnlyStarts == UNCHANGED <<side, pollVars, hand, center>>

\* The app starts a stream when the one before has failed, is gone or hangs.
Calls(s) ==
  /\ start[s] = "none"
  /\ s > 1 => start[s - 1] \in {"failed", "hung", "gone"}
  /\ start' = [start EXCEPT ![s] = "queued"]
  /\ UNCHANGED <<tries, slot, videoVars, reader, writer, cmds>>
  /\ OnlyStarts

\* The session is free: req_authrity goes out on the control WS, or that is gone.
Locks(s) ==
  /\ start[s] = "queued"
  /\ Free
  /\ \/ start' = [start EXCEPT ![s] = "asking"]
     \/ start' = [start EXCEPT ![s] = "failed"]
  /\ tries' = 0
  /\ UNCHANGED <<slot, videoVars, reader, writer, cmds>>
  /\ OnlyStarts

\* Mutant: the port is probed until the user allows the recording.
PortShutForEver(s) ==
  /\ start[s] = "asking"
  /\ tries' = (tries + 1) % MaxTry
  /\ UNCHANGED <<start, slot, videoVars, reader, writer, cmds>>
  /\ OnlyStarts

\* A probe of port 10381 finds it shut; the last one ends the call.
PortShut(s) ==
  /\ start[s] = "asking"
  /\ IF tries + 1 < MaxTry
       THEN tries' = tries + 1 /\ UNCHANGED start
       ELSE tries' = 0 /\ start' = [start EXCEPT ![s] = "failed"]
  /\ UNCHANGED <<slot, videoVars, reader, writer, cmds>>
  /\ OnlyStarts

PortOpen(s) ==
  /\ start[s] = "asking"
  /\ start' = [start EXCEPT ![s] = "mirror"]
  /\ tries' = 0
  /\ UNCHANGED <<slot, videoVars, reader, writer, cmds>>
  /\ OnlyStarts

\* The mirror WS is open and SCREEN_START sent, or six attempts or the send have
\* failed, or the phone accepted a connection and then says nothing: neither TLS
\* nor the upgrade has a time limit.
Mirrors(s) ==
  /\ start[s] = "mirror"
  /\ \/ /\ start' = [start EXCEPT ![s] = "control"]
        /\ video' = [video EXCEPT ![s] = "reading"]
     \/ \E outcome \in {"failed", "hung"} :
          /\ start' = [start EXCEPT ![s] = outcome]
          /\ UNCHANGED video
  /\ UNCHANGED <<tries, slot, packet, frames, arrived, reader, writer, cmds>>
  /\ OnlyStarts

\* The input WS is open, or the stream is for viewing only, and the session is
\* free; or the handshake hangs.
Controls(s) ==
  /\ start[s] = "control"
  /\ \/ /\ start' = [start EXCEPT ![s] = "opened"]
        /\ reader' = [reader EXCEPT ![s] = "reading"]
        /\ writer' = [writer EXCEPT ![s] = "open"]
     \/ \E outcome \in {"opened", "hung"} :
          /\ start' = [start EXCEPT ![s] = outcome]
          /\ UNCHANGED <<reader, writer>>
  /\ UNCHANGED <<tries, slot, videoVars, cmds>>
  /\ OnlyStarts

\* Without the mutex: the session keeps the input handle, if any, and the app
\* gets the PcScreen, on which it starts its pollers.
Stores(s) ==
  /\ start[s] = "opened"
  /\ start' = [start EXCEPT ![s] = "live"]
  /\ slot' = IF writer[s] = "none" THEN None ELSE s
  /\ poll' = [poll EXCEPT ![s] = [p \in Poller |-> "open"]]
  /\ UNCHANGED <<tries, videoVars, side, shown, stop, inputVars, center>>

Starting(s) ==
  Locks(s) \/ PortShut(s) \/ PortOpen(s) \/ Mirrors(s) \/ Controls(s) \/ Stores(s)

-----------------------------------------------------------------------------
(* video_loop *)

OnlyVideo == UNCHANGED <<startVars, pollVars, inputVars, center>>

\* try_send: what finds its queue full is dropped.
Offers(s, queue) == side' = [side EXCEPT ![s] = @ \cup ({queue} \cap Side)]

Reads(s, kind) ==
  /\ video[s] = "reading"
  /\ packet[s] = kind
  /\ packet' = [packet EXCEPT ![s] = "none"]
  /\ OnlyVideo

ReadsFrame(s) ==
  /\ Reads(s, "frame")
  /\ video' = [video EXCEPT ![s] = "sending"]
  /\ arrived' = [arrived EXCEPT ![s] = @ + 1]
  /\ UNCHANGED <<frames, side>>

\* Mutant: a frame that finds the queue full is dropped, as audio is.
QueuesIfRoom(s) ==
  /\ video[s] = "sending"
  /\ frames' = [frames EXCEPT ![s] =
                  IF Len(@) < FrameCap THEN Append(@, arrived[s]) ELSE @]
  /\ video' = [video EXCEPT ![s] = "reading"]
  /\ UNCHANGED <<packet, arrived, side>>
  /\ OnlyVideo

\* tx.send waits for room: every frame is needed to decode the next.
Queues(s) ==
  /\ video[s] = "sending"
  /\ Len(frames[s]) < FrameCap
  /\ frames' = [frames EXCEPT ![s] = Append(@, arrived[s])]
  /\ video' = [video EXCEPT ![s] = "reading"]
  /\ UNCHANGED <<packet, arrived, side>>
  /\ OnlyVideo

\* Mutant: audio waits for room in its queue.
ReadsAudioWaiting(s) ==
  /\ "audio" \notin side[s]
  /\ Reads(s, "audio")
  /\ Offers(s, "audio")
  /\ UNCHANGED <<video, frames, arrived>>

ReadsAudio(s) ==
  /\ Reads(s, "audio")
  /\ Offers(s, "audio")
  /\ UNCHANGED <<video, frames, arrived>>

\* DEVICE_INFO with is_lock.
ReadsLock(s) ==
  /\ Reads(s, "lock")
  /\ Offers(s, "event")
  /\ UNCHANGED <<video, frames, arrived>>

\* Any other packet: no media, a ping, whose pong may fail, or the end.
ReadsOther(s) ==
  /\ Reads(s, "other")
  /\ \/ video' = [video EXCEPT ![s] = "over"]
     \/ UNCHANGED video
  /\ UNCHANGED <<frames, arrived, side>>

VideoLoop(s) ==
  \/ ReadsFrame(s) \/ Queues(s) \/ ReadsAudio(s) \/ ReadsLock(s)
  \/ ReadsOther(s)

-----------------------------------------------------------------------------
(* The input WS *)

OnlyInput == UNCHANGED <<startVars, videoVars, pollVars, center>>

\* NOTIFY_PASS: the screen is, or is no longer, one that is not mirrored.
TellsPrivacy(s) == Offers(s, "event")

\* A report of the caret or of the focus.
TellsCaret(s) == Offers(s, "cursor")

\* A frame has come: one of these, a ping, or the end of the connection.
Hears(s) ==
  /\ reader[s] = "reading"
  /\ \/ (TellsPrivacy(s) \/ TellsCaret(s)) /\ UNCHANGED reader
     \/ reader' = [reader EXCEPT ![s] = "ponging"] /\ UNCHANGED side
     \/ reader' = [reader EXCEPT ![s] = "over"] /\ UNCHANGED side
  /\ OnlyInput
  /\ UNCHANGED <<writer, cmds, hand>>

\* The pong goes to the writer, when its queue has room; none is left to take it
\* when the writer is over.
Pongs(s) ==
  /\ reader[s] = "ponging"
  /\ \/ /\ writer[s] # "over"
        /\ cmds[s] < CmdCap
        /\ cmds' = [cmds EXCEPT ![s] = @ + 1]
        /\ reader' = [reader EXCEPT ![s] = "reading"]
     \/ /\ writer[s] = "over"
        /\ reader' = [reader EXCEPT ![s] = "over"]
        /\ UNCHANGED cmds
  /\ OnlyInput
  /\ UNCHANGED <<writer, hand, side>>

\* A command goes out, as soon as the phone takes it, or the socket fails under
\* it or under the ping of every two seconds.
Writes(s) ==
  /\ writer[s] = "open"
  /\ \/ cmds[s] > 0 /\ cmds' = [cmds EXCEPT ![s] = @ - 1] /\ UNCHANGED writer
     \/ /\ writer' = [writer EXCEPT ![s] = "over"]
        /\ cmds' = [cmds EXCEPT ![s] = 0]
  /\ OnlyInput
  /\ UNCHANGED <<reader, hand, side>>

\* mouse(), key() and the like clone the handle of the slot; without one they
\* return false at once.
InputCall ==
  /\ hand = None
  /\ slot # None
  /\ hand' = slot
  /\ OnlyInput
  /\ UNCHANGED <<reader, writer, cmds, side>>

\* The command is queued, as soon as there is room, or the writer is gone.
InputReturns ==
  /\ hand # None
  /\ \/ /\ writer[hand] # "over"
        /\ cmds[hand] < CmdCap
        /\ cmds' = [cmds EXCEPT ![hand] = @ + 1]
     \/ writer[hand] = "over" /\ UNCHANGED cmds
  /\ hand' = None
  /\ OnlyInput
  /\ UNCHANGED <<reader, writer, side>>

-----------------------------------------------------------------------------
(* The pollers of a PcScreen *)

OnlyPoll == UNCHANGED <<startVars, video, packet, arrived, stop, inputVars,
                        center>>

\* The app's thread calls again, which finds the flag that was set meanwhile.
Again(s, p) ==
  poll' = IF stop[s] THEN [poll EXCEPT ![s][p] = "over"] ELSE poll

\* The app gets a frame.
TakesFrame(s) ==
  /\ poll[s]["frame"] = "open"
  /\ frames[s] # <<>>
  /\ shown' = [shown EXCEPT ![s] = Head(frames[s])]
  /\ frames' = [frames EXCEPT ![s] = Tail(@)]
  /\ Again(s, "frame")
  /\ UNCHANGED side
  /\ OnlyPoll

TakesSide(s, p) ==
  /\ poll[s][p] = "open"
  /\ p \in side[s]
  /\ side' = [side EXCEPT ![s] = @ \ {p}]
  /\ Again(s, p)
  /\ UNCHANGED <<frames, shown>>
  /\ OnlyPoll

\* Nothing is queued for p.
Empty(s, p) == IF p = "frame" THEN frames[s] = <<>> ELSE p \notin side[s]

\* No task is left that sends to p.
Closed(s, p) ==
  /\ p \in {"frame", "audio", "event"} => video[s] = "over"
  /\ p \in {"event", "cursor"} => reader[s] \in {"none", "over"}

\* Mutant: the flag is only read when a packet has come.
SeesStopIfWoken(s, p) ==
  /\ poll[s][p] = "open"
  /\ stop[s]
  /\ ~Empty(s, p)
  /\ poll' = [poll EXCEPT ![s][p] = "over"]
  /\ UNCHANGED <<frames, shown, side>>
  /\ OnlyPoll

\* The flag is read before each wait of 300ms; the app's thread ends on "".
SeesStop(s, p) ==
  /\ poll[s][p] = "open"
  /\ stop[s]
  /\ poll' = [poll EXCEPT ![s][p] = "over"]
  /\ UNCHANGED <<frames, shown, side>>
  /\ OnlyPoll

FindsEnd(s, p) ==
  /\ poll[s][p] = "open"
  /\ Empty(s, p)
  /\ Closed(s, p)
  /\ poll' = [poll EXCEPT ![s][p] = "over"]
  /\ UNCHANGED <<frames, shown, side>>
  /\ OnlyPoll

Polls(s, p) ==
  \/ SeesStop(s, p) \/ FindsEnd(s, p)
  \/ p = "frame" /\ TakesFrame(s)
  \/ p \in Side /\ TakesSide(s, p)

Stops(s) ==
  /\ start[s] = "live"
  /\ ~stop[s]
  /\ stop' = [stop EXCEPT ![s] = TRUE]
  /\ UNCHANGED <<startVars, videoVars, side, shown, poll, inputVars, center>>

\* The last thread lets go of a stopped PcScreen: the ScreenStream aborts its
\* tasks, whatever they wait for. The handle in the slot stays.
Drops(s) ==
  /\ start[s] = "live"
  /\ stop[s]
  /\ \A p \in Poller : poll[s][p] = "over"
  /\ start' = [start EXCEPT ![s] = "gone"]
  /\ video' = [video EXCEPT ![s] = "over"]
  /\ packet' = [packet EXCEPT ![s] = "none"]
  /\ frames' = [frames EXCEPT ![s] = <<>>]
  /\ side' = [side EXCEPT ![s] = {}]
  /\ reader' = [reader EXCEPT ![s] = IF @ = "none" THEN @ ELSE "over"]
  /\ writer' = [writer EXCEPT ![s] = IF @ = "none" THEN @ ELSE "over"]
  /\ cmds' = [cmds EXCEPT ![s] = 0]
  /\ arrived' = [arrived EXCEPT ![s] = 0]
  /\ shown' = [shown EXCEPT ![s] = 0]
  /\ UNCHANGED <<tries, slot, poll, stop, hand, center>>

-----------------------------------------------------------------------------
(* The connection center: the phone's button asks this PC for a stream *)

OnlyCenter == UNCHANGED <<startVars, videoVars, side, pollVars, inputVars>>
Centers(from, to) == center = from /\ center' = to /\ OnlyCenter

CenterCalls == Centers("off", "locking")

\* The first call subscribes to the control WS, under the mutex of the session.
Subscribes == Free /\ Centers("locking", "polling")

\* What the phone asks before that is lost.
PhoneAsks == Centers("polling", "asked")

\* And so is what more texts follow than the broadcast ring holds.
Lags == Centers("asked", "polling")

\* The app gets the request.
CenterTakes == Centers("asked", "taken")

\* The app has done what it was asked for, and calls reply_connect_center, which
\* waits for the session as well.
Replies == Free /\ Centers("taken", "replied")

\* The poll after stop_connect_center.
StopsCenter == \E from \in {"polling", "asked", "replied"} : Centers(from, "over")

Center == Subscribes \/ CenterTakes \/ Replies

-----------------------------------------------------------------------------
(* The phone *)

\* It sends on the mirror WS, or closes it, or the link goes.
PhoneMirrors(s) ==
  /\ video[s] = "reading"
  /\ packet[s] = "none"
  /\ \E kind \in {"frame", "audio", "lock", "other"} :
       /\ kind = "frame" => arrived[s] < MaxFrame
       /\ packet' = [packet EXCEPT ![s] = kind]
  /\ UNCHANGED <<startVars, video, frames, arrived, side, pollVars, inputVars,
                 center>>

-----------------------------------------------------------------------------

Next ==
  \/ \E s \in Stream :
       \/ Calls(s) \/ Starting(s) \/ VideoLoop(s) \/ Hears(s) \/ Pongs(s) \/ Writes(s)
       \/ Stops(s) \/ Drops(s) \/ PhoneMirrors(s)
       \/ \E p \in Poller : Polls(s, p)
  \/ InputCall \/ InputReturns
  \/ CenterCalls \/ StopsCenter \/ Center \/ PhoneAsks \/ Lags

Spec == Init /\ [][Next]_vars

\* Tasks and threads are scheduled; one stream is at work at a time. The app takes
\* its frames, the rest when it likes: playback may be off. Of the phone
\* it is assumed that a handshake fails, succeeds or hangs, and nothing else: it
\* need not send, nor read what the PC writes.
Fairness ==
  /\ WF_vars(\E s \in Stream : Starting(s))
  /\ WF_vars(\E s \in Stream : VideoLoop(s))
  /\ WF_vars(\E s \in Stream : Pongs(s))
  /\ WF_vars(\E s \in Stream : Polls(s, "frame"))
  /\ \A p \in Side : WF_vars(\E s \in Stream : SeesStop(s, p))
  /\ WF_vars(\E s \in Stream : Drops(s))
  /\ WF_vars(InputReturns)
  /\ WF_vars(Center)

FairSpec == Spec /\ Fairness

-----------------------------------------------------------------------------
(* Properties *)

TypeOK ==
  /\ start \in [Stream -> {"none", "queued", "opened", "live", "failed", "gone"}
                          \cup Opening]
  /\ tries \in 0 .. MaxTry
  /\ slot \in Stream \cup {None}
  /\ video \in [Stream -> {"none", "reading", "sending", "over"}]
  /\ packet \in [Stream -> {"none", "frame", "audio", "lock", "other"}]
  /\ frames \in [Stream -> Seq(Nat)]
  /\ arrived \in [Stream -> Nat]
  /\ shown \in [Stream -> Nat]
  /\ side \in [Stream -> SUBSET Side]
  /\ poll \in [Stream -> [Poller -> {"none", "open", "over"}]]
  /\ stop \in [Stream -> BOOLEAN]
  /\ reader \in [Stream -> {"none", "reading", "ponging", "over"}]
  /\ writer \in [Stream -> {"none", "open", "over"}]
  /\ cmds \in [Stream -> 0 .. CmdCap]
  /\ hand \in Stream \cup {None}
  /\ center \in {"off", "locking", "polling", "asked", "taken", "replied", "over"}

\* Of the video nothing is lost and nothing changes places between the mirror WS
\* and the app, although the packets of the other kinds are dropped at will and
\* the pollers cancel their waits: what is under way are the frames from the
\* last one shown to the last one read.
VideoWhole ==
  \A s \in Stream :
    start[s] # "gone" =>
      /\ Len(frames[s]) + (IF video[s] = "sending" THEN 1 ELSE 0)
           = arrived[s] - shown[s]
      /\ \A i \in 1 .. Len(frames[s]) : frames[s][i] = shown[s] + i

\* "Never block the reader on audio: video shares this loop, and the consumer may
\* not be draining": as long as the app takes its frames, whatever the phone
\* sends on the mirror WS is read, also when nobody takes the audio or the
\* events. (While a handshake hangs in start_screen nobody polls.)
PacketsRead ==
  \A s \in Stream :
    packet[s] # "none" \/ video[s] = "sending" ~>
      (packet[s] = "none" /\ video[s] # "sending") \/ start[s] = "hung"

\* "Drop the PcScreen (or call stop()) to stop mirroring": after stop() the
\* threads return, the tasks end, on a static screen and behind a full queue as
\* well, and an input call that waits for a phone that does not read returns.
StopEnds == \A s \in Stream : stop[s] ~> start[s] = "gone" /\ hand # s

\* "Answer every one with reply_connect_center: the phone's button waits on that
\* reply": an answer is not kept for ever by a start that holds the session, as
\* long as the phone does not leave a handshake hanging.
AskAnswered ==
  center = "taken" ~> center = "replied" \/ \E s \in Stream : start[s] = "hung"
=============================================================================
