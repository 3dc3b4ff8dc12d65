# Verification of pcsuite-rs in TLA+

`pcsuite-rs` is the PC side of a phone/PC companion suite: it registers with an
Android phone over LAN, USB or remote, keeps a control WebSocket to it, mirrors
its screen, syncs the clipboard and moves files both ways. This directory holds
TLA+ models of its concurrent parts, TLC configurations that check them on
small instances, and TLAPS proofs for every value of the constants.

Run `tlc -config X.cfg M` and `tlapm P.tla` for a `P` of the last column of the
table in section 2, in this directory.
`PROJECT.json` lists runs, mutants, theorems, hazards, and for every definition
the source lines it stands for. Paths below are under `src/crates/`.

## 1. The system

### Components

| component | source | state it keeps | operations | what makes it correct |
|---|---|---|---|---|
| EasyShare receiver (10191) | `pcsuite-core/src/share.rs` | accept loop's `current` and its `committed` flag; per connection two tasks; per task a download and a partial archive | start, accept, supersede, hunt for the phone's WebSocket, pull, unzip, answer, drop | a session that committed is left alone; the accept frame comes last; Done only for saved files; no partial left for good |
| Control session | `session.rs`, `pcsuite-net/src/ws.rs`, `wait_disconnect` in `pcsuite-ffi/src/lib.rs` | control WS, outgoing queue (64), broadcast ring (128), `last_shadow`, `dead_tx` | read, broadcast, flush, keepalive, graceful close, drop, watch | every end is noticed, told once, and told rightly |
| Clipboard link | `clip_handshake`, `spawn_8904_server` in `clipboard.rs`; `enable_clipboard`, `phone_info`; `resolve_device_id` in the FFI | `ClipLink`, `phone_key`, `clipboard_active`, `device_id_cache`, session mutex | startup / re-send / ready, accept 8904, publish link, ask for the device id | the link shown is the link there is; the clipboard's key stands; nobody hangs |
| Clipboard sync | `watcher`, `handle_8904`, `on_frame`, `fetch_image_task` in `clipboard.rs`, `vdfs.rs` | OS clipboard, `last_text`, `recent`, `last_image_ref`, `last_image_sig`, `outgoing` | poll, send, receive, set, fetch an image | what was copied last ends up on both sides, without an echo loop |
| Registration, presence | `connect.rs`, `presence.rs`, `ssdp.rs`, the connects and `PcCloudPresence` in the FFI | 10191 connection, `PresenceGuard`, beacons, cancel generation, the slots of asks and of session ends | connect (four ways), cancel, register, hold, take an ask, upgrade, report | a cancel ends its connect; a beacon ends with its attempt; an answer belongs to its ask; a ride can end |
| Pairing | `pair.rs` | listener on 9199, stop flag | wait for the phone in slices, refuse strangers | a cancel frees the port |
| USB preparation | `usb.rs`, `adb.rs` | adb forwards | forward, start app, handshake, remove | a live session has its forwards |
| Screen mirroring | `screen.rs`, `enable_screen_from`, FFI pollers and input calls | mirror and input WS, five queues, stop flag, input slot, connection center | start, poll, input, stop, answer the phone's button | no frame lost; nobody's slowness freezes the picture; a stop ends everything |
| File transfer from the phone | `filetrans.rs` | control subscription, batch at hand | announce, pull, receipt | every batch is answered, and once |
| Cloud share | `cloudshare.rs`, `https.rs` | poller, records at the relay | poll, init, fetch, rename, complete | nothing unsaved is forgotten; what waits is received |
| File gateway | `mdfs.rs`, `PcDownload` in the FFI | one HTTP exchange, a tar reader, names chosen | download, cancel, upload | done means whole; nothing of the user is overwritten; a cancel works |
| FFI pollers | `pcsuite-ffi/src/lib.rs` | receivers in slots, stop flags | start, stop, next event | an ordered event stream |
| Verify code, notifications | `verify.rs`, `notify.rs` | a subscription to the control WS | enable, relay | as the pollers |
| Wire formats, network, crypto, cloud REST, config, CLI, macOS clipboard | the other files | none shared | | |

### How they interact

- `control_task` alone owns the control WS. Features send through an mpsc queue
  (`ControlHandle::send`) and hear everything through a broadcast ring; a late
  subscriber finds the last announcement in `last_shadow`.
- The clipboard shakes hands on the control WS, after which the phone opens a
  connection of its own to 8904. The published `ClipLink` is written by the
  8904 server, by the handshake that gives up and by its wait for the relay.
- App threads enter through the FFI and share one session mutex, which some
  calls hold across several awaits: `phone_info` for 10s, `start_screen` through
  two handshakes without a limit.
- Every event of a feature goes through a channel whose receiver lies in a slot;
  a poll thread takes it out, waits, and puts it back.
- The share receiver has no session: it listens on 10191 beside it, and hunts
  for a WebSocket on the phone that is there for some seconds only.
- A connection that presence holds on the phone's 10191 is upgraded in place
  into a session, by the phone's ask or by the app, and let go at its end.
- Dropping a `Session`, a `Registration` or a `ShareReceiver` aborts tasks; a
  task that was spawned by such a task is aborted only if a guard says so.

### What is hard

Cancellation (an abort is honoured at the next await; a dropped handle
detaches), values read before and used after a lock or an await, timeouts that
race answers, a peer that is silent rather than gone, a mutex held across the
network, a queue nobody drains, a sender in a slot that the next one replaces,
and one of several steps that fails. The full list, each at its line, is under
`hazards` in `PROJECT.json`, with the properties that address it or the reason
why none does.

## 2. Modules

| module | models | proved about in |
|---|---|---|
| `ShareReceiver` | the EasyShare receiver | `ReceiversProofs` |
| `ClipLink` | clipboard link and `resolve_device_id` | `ClipLinkProofs` |
| `ClipSync` | clipboard texts and images | `ClipSyncProofs` |
| `ControlSession` | `control_task`, graceful close, `wait_disconnect` | `ControlPortProofs` |
| `Presence` | the hold on 10191, its upgrades, the app's handle | `PresenceProofs` |
| `Connect` | connects and cancels, beacons, adb forwards, pairing | `ConnectProofs` |
| `Screen` | start of a stream, its tasks, pollers, input, the phone's button | `ScreenProofs` |
| `Pollers` | slots, flags and channels of the FFI | `PollersProofs` |
| `EventStream` | what a `next_...()` call promises; implemented by `Pollers` | |
| `Gateway` | streaming download and upload of `mdfs.rs` | `ControlPortProofs` |
| `Receivers` | batches announced by the phone; uploads at the relay | `ReceiversProofs` |
| `Mailbox` | what receiving over the relay comes to; implemented by `Receivers` | |

`ControlPortProofs` is about both protocols of the phone's `CONTROL_PORT`
(`mdfs.rs`), the control WS and the gateway; `ReceiversProofs` about both modules
of receivers. The definitions of `Gateway` and `Receivers` carry their module's
name where the other module has one of the same name (`GatewaySpec`).

In all of them an action is what one task does between two points where another
task can act. The phone, the network, the relay and the users are environment
actions ("external" in the map). Two modules hold two scenes that share little
(`scene` in `Receivers`, `Gateway`, `Connect`): an initial choice says which one
a behaviour is about. Operators under a comment `Mutant:` are broken variants of
the definition after them; no specification uses them.

**ShareReceiver.** `Judge`/`Accept`/`Launch` is the body of `accept_loop`, cut
between the load of `committed` and the abort: a session may commit in that gap,
and is then aborted all the same. `outer[c]` is `handle_conn`,
`inner[c]` the hunt and `pull_batch` it spawns, `dl[c][k]` the detached download
of a task. `outerKill` and `innerKill` are aborts on their way: `OuterDropped`
and `InnerDropped` honour them, and what `AbortOnDrop` does on every early
return is one operator, `AbortOnDrop`. File names, chunk decoding and the zip
reader are reduced to success, failure and the partial file.

**ClipLink.** The control WS is two FIFO queues. `Handshake` is
`clip_handshake` (subscribe, look at the retained announcement, re-send, give
up, store the key, send ready, wait for the relay), `Server` is
`spawn_8904_server`, `Resolve(r)` one app thread in `resolve_device_id`, with
the fast path, the poll of the cache and `phone_info` under the session mutex.
`StartScreen` and `ScreenBack` are what `start_screen` is to it: it takes the same
mutex, again and again, and keeps it as long as its handshakes last.
The phone is what `clipboard.rs` says of it: it answers every startup once its
vdfs service has registered, and connects after `ready`. `EagerPhone` lets it
connect earlier.

**ClipSync.** The watcher reads, decides and sends in separate critical
sections, and so does `on_frame` before it sets a text. A received image is a
task of its own per image, `fetch[p]`: it fetches the whole (or a part: a read
that times out returns what there is), sets it, and then records its signature,
with the watcher free to look in between. `recent` is the echo memory, `Expires`
the passing of `ECHO_WINDOW`. A connection ends by EOF or by a read error, which
clean up differently: after an error the queue of the dead connection stays, and
what the watcher sends into it counts as synced; `cut` remembers that a
connection ended since the last copy. `Pace` says when the users copy.

**ControlSession.** The loop of `control_task` is `recv` (with the header of a
frame as a step of its own, since the wait may cancel it there), `flush`,
`keepalive`. A text whose 500th byte is inside a character is a frame of its
own kind, because logging it panics. There is no clock: every timeout is a step
that may happen.

**Presence.** `hold` is where `presence_once` is, `queued` the request queue of
`upgrade_for_connect`, `answerSlot`, `parked` and `endSlot` the three places in
which senders and tokens are parked, each replaced by the next one. Between two
attempts the task may be `"resolving"` (it asks the connection center for the
phone's address, which a stop does not interrupt); a dropped handle aborts it anywhere (`Aborts`). An ask or an
upgrade with the session it leads to is a `Ride`, and `outcome` and `told`
remember, per ask, how its session came up and which `[27]` went out.

**Connect.** A connect is the list of phases still to come (`todo`), of the kind
it is; `BestEffort` phases may fail and be passed over, `Fatal` ones end it.
`Cancelled` is the `select!` on the generation `gen` and drops the future:
`PresenceGuard` ends the beacon, but an adb whose caller is gone runs on
(`orphans`). `Drops` and `Removes` are `PcSession::drop`. `drained` says whether
the app waits for that before it connects again. Pairing is its slices, with
strangers that connect and say nothing.

**Screen.** `start[s]` is how far `start_screen` has come, holding the session
mutex on the way; `video_loop`, the two input loops and each poller are one
actor each. A handshake succeeds, fails or hangs, since neither TLS nor the
upgrade is timed. A frame that finds the queue full is waited for, audio and
events are not. `center` is one request by the connection center.

**Pollers.** A start is a plan of five steps (`StartPlan`), a stop of two, in
the order of the code, which differs between the kinds of source; a poll is take,
check, receive, put back. A start may begin while a call is under way, and a call
while a start is: a start drops the source that was there, but waits for no call. `EventStream` is the abstraction: `state` of the
newest source, the events `pending`, what was `handed` out, and whether a call or
a start is under way. From a start that no call overlaps it promises everything
(order, nothing lost, `""` only when it is over); from one that a call overlaps
(`Cross`) only that no event is handed out twice, since the old receiver may be
put back over the new one.

**Gateway.** A tar stream is read cell by cell: headers, data, padding, end
marker, in a body that is chunked, measured or ended by the close. An end within
a header is an error (`Breaks`) and one on a block's border is the end of the
archive, also inside an entry of metadata that is skipped (`Skips`). Which entries
there are is chosen as they are read, so that every archive within the bounds is
covered. `rival` is another transfer that picks and creates a name in the same
folder at any time. The upload is a phase machine with the acknowledgement.

**Receivers.** The control ring is a bounded queue per task that loses its
oldest message; a pull is request, reply (of which any part may arrive), write,
receipt. `receipts` is a sequence per task and batch, so that a second one shows,
of whatever verdict. Each call of `enable_file_transfer` arms one task more, and
each answers. For the relay: `record`, `marked` and `expired` are what it keeps,
`mode` and `account` what the user has set, `cloud` where the pass of the poller
is, and `faults` bounds what fails. A fetch may break before or after the relay
has marked the file (`Drops`), and an abort may meet `complete` before or after
the relay has forgotten (`Aborted`). `Mailbox` is the
abstraction of the second scene: an upload is posted, its files are delivered or
lost while it waits, and it is forgotten once, when none is missing. Its
`delivered` is `final`, its `lost` is `slipped`: marked by the relay and then
lost on the PC, to its disk, a rename or a stop.

## 3. Runs

One passing run per module; every property has a mutant in `PROJECT.json`, a
plausible bug in a mapped definition, under which TLC finds it violated.

| run | bounds | distinct states | shows |
|---|---|---|---|
| `ShareReceiver` | 2 taps, 1 task, 2 starts | 188k | `AnswerAfterSession`, `CommittedStands`, `DoneMeansSaved`, `NoStalePartial`, `EverySessionEnds`, `StartedConcluded` |
| `ClipLink` | 2 resolvers, 1 re-send, 2 relay connections | 382k | `LinkShowsRelay`, `ClipKeyStands`, `PendingSettles`, `LateAnswerCounts`, `WaitingServed`, `ResolveReturns` |
| `ClipSync` | 2 texts, 1 image, 2 copies, 2 connections, 1 end | 1.2M | `NewestEverywhere` |
| `ControlSession` | 2 frames waiting, 1 text to send, tearing | 230k | `ClosedByPhone`, `EndIsFinal`, `LossNoticed`, `WatcherReturns` |
| `Presence` | 2 asks, 2 upgrades | 151k | `RideHasEnd`, `AnswersOwn`, `EndedReleases` |
| `Connect` | 2 connects of any kind, 2 cancels, 2 pairings | 213k | `BeaconBounded`, `ForwardsStand`, `CancelReturns` |
| `Screen` | 2 streams, 2 frames, queues of 1, 2 probes | 207k | `VideoWhole`, `PacketsRead`, `StopEnds`, `AskAnswered` |
| `Pollers` | 3 starts of each kind of source, 2 events | 321k | `StreamSpec` (the refinement), `StopReturns` |
| `Gateway` | 2 names, 2 entries of 1 cell, 2 items | 261k | `NothingOverwritten`, `StaysTogether`, `DoneIsWhole`, `CancelEnds` |
| `Receivers` | 2 receivers, 2 batches of 2 files, a ring of 1; 2 uploads of 2 files, 1 fault, 2 starts | 450k | `AnsweredOnce`, `NothingForgotten`, `BatchAnswered`, `PendingReceived`, `MailboxSpec` (the refinement) |

Type invariants are proved (section 5), and so not in the runs.

Why the bounds suffice. Supersession, detachment, cancels, rides, streams and
restarts each concern a pair: an older and a newer one. A third start of a source
follows two that a call overlapped. A ring of one loses a batch behind another,
or behind a cancel; a queue of one is full as soon as it matters, and full queues
are the hazard. Two receivers answer one batch, and two resolvers wait for one
mutex that a `start_screen` takes as well. Two entries let an archive be cut
inside the first, between them, and inside the second; a cell of data and one of
padding make both parts of a file. One fault, wherever it falls, leaves a second
attempt, and a stop and a restart make another. Two copies let
a text supersede an image and the reverse. Two tasks of one tap, where a second
request overwrites the handle of the first download, are left to the proofs of
`ReceiversProofs`, which have no bounds; the other proofs remove the bounds of
the invariants likewise. One bound keeps two things apart in the run of
`ClipLink`: with `MaxBeside = 0` nobody asks for the device id while a relay
connection is there; the proofs are about every value of it. The bounds `scene`
keep apart what shares no state.

Deadlock is not checked: every one of these systems comes to rest when the
phone and the user have nothing more to do.

### Where the code does not do what its comments say

Each of these runs checks one property and finds it violated.

| run | property | what happens |
|---|---|---|
| `ShareReceiver_two_hunts` | `OneLiveSession` | `handle_conn` takes the session's handle out of `AbortOnDrop` before it awaits it; aborting it then detaches the session, which hunts on beside its successor |
| `ControlSession_silent_exit` | `ExitsSayWhy` | slicing a text at byte 500 panics inside a character, and `dead_tx` is never set |

Other departures are part of the models and excepted, by name, in the
properties: a session that commits between the load of `committed` and the abort
is aborted, against "no further tap may abort it" (`Doomed`); a session whose
accept frame cannot be sent has no terminal event; a resolver that read
`clipboard_active` before it was set may replace the key; a receipt is written
for a cancelled batch, where pcsuite-proto says "nothing to ack"
(`BatchAnswered` demands none); a give-up of the handshake declares a link Down that an eager phone
has already opened; a superseded text may be sent back to the phone; a text
copied again within the echo window is dropped; what is sent into the queue of a
connection that ended by an error is lost; an image whose fetch fails is
not fetched again; a torn frame may read as a close frame; a late answer of the
app goes to the next ask; a session dropped late removes the forwards of the
next one; a start that does not wait for the poll loop may lose its receiver; two
transfers that pick the same free name at once overwrite each other; a stream
cut between two files, without chunks and before the end marker, counts as
complete; a file that the relay has marked and the PC then loses, to a full
disk, its rename or a stop, is not offered again; a session fails over a silent WebSocket although its pull goes on.

## 4. Fairness and what is assumed of the environment

Weak fairness is given to steps of our own tasks and threads, which the runtime
polls whenever they can run, and to the expiry of waits that have a timeout in
the code. Nothing the phone or a user chooses to do is fair, except as follows.

- `ShareReceiver`: a download stream is finite, and a phone that was answered
  "idle" stops pinging.
- `ControlSession`: strong fairness of `SendFails`. A connection that is gone
  does not accept writes for ever, since TCP gives up retransmitting; a write may
  succeed on it any number of times before. `WatchChecks` in `wait_disconnect`
  runs between two waits and so has fairness of its own.
- `ClipLink`: strong fairness of each resolver, because tokio's mutex serves its
  waiters in turn; `start_screen` may take it in between any number of times, or
  keep it for good, which `ResolveReturns` excepts.
- `ClipSync`: the phone reads what it was sent and does not echo images. With
  `Pace = "window"` a copy comes a window after the previous one has settled, and
  never repeats the last of its kind; an image is fetched by one task at a time.
- `Screen`: the app takes its frames, the rest as it likes. A handshake may hang.
- `Pollers`: a start or stop returns, the poll thread goes on, and a source that
  was told to go ends. When the app starts, stops or polls is left open.
- `Presence`: the hold task goes on, its requests for the phone's address have a
  timeout (`https.rs`), and a call of the app to upgrade the hold goes on too.
- `Gateway`: of the reads only the failing ones are fair, so the phone may send
  for ever.
- `Receivers`: the relay marks `hasDownload` at any time once it has sent the whole
  file; failures are finite, or nothing would ever be received. The user signs in,
  takes a mode and stops the poller as he likes, an upload may expire, and
  `PendingReceived` excepts what comes of that.
- `Connect`: nothing is said of the network; a cancel does not wait for it.

The exceptions of a liveness property are in its statement (a connection ended,
the OS refused, `accept` failed, a handshake hangs, the batch fell out of the
ring or was cancelled, the user is in another mode).

## 5. Proofs

Every theorem holds for all values of the constants, from the named assumptions
in the modules only (bounds are natural numbers, flags are Booleans, special
values are no texts, no threads and no names; bounds that something must fit
into, the ring and a batch, are at least one). Each `TypeCorrect` is the type
invariant.

- **ReceiversProofs**, `ShareReceiver`. `LoopInv` strengthens `OneSupervised`,
  which is not inductive, since between `Judge` and `Launch` the loop holds a
  verdict about a session that moves on meanwhile; `LaunchPending` says what that
  verdict still guarantees, `CurrentLaunched` and `Unlaunched` what the loop
  remembers. `CommittedStands` needs `AbortsExplained` beside it: a session is aborted
  only behind a connection that failed or was aborted itself. `SessionInv` strengthens
  `AnswerAfterSession`, `NoHuntAfterReturn` and `DoneMeansSaved` with how far a
  session can be at each point of `handle_conn` (`AnsweringOver`) and how far
  its downloads (`DownloadsAnnounced`, `OkMeansSaved`). `NoStalePartial` is
  inductive over `TypeOK`.
- **ReceiversProofs**, `Receivers`. `AnsweredOnce` needs the order of things: a
  ring holds batches in the order of their announcement (`InOrder`), and what a
  task pulls or has answered is behind all of it (`Fresh`); a new batch is ahead
  of everything, and a ring that drops its oldest message stays in order
  (`KeptInOrder`); an empty sequence of receipts becomes one of length one, and
  never longer. `NothingForgotten` needs `Accounted`: what the relay marked as
  fetched is there, was lost after the mark, or is the file about to be renamed;
  and what is there or lost of the upload at hand and what is on the list is all
  of it. With `Waiting`, that what
  this pass has or will receive waits at the relay, every step is a step of
  `Mailbox` or a stutter: `MailboxSpec`, which states no fairness and so is proved
  in full.
- **ClipLinkProofs.** `LinkInv` gives `LinkShowsRelay` and `KeyBeforeRelay`: the
  give-up publishes Down without a look at the link, and what saves it is that
  `ready` is sent last (`ReadyIsLast`) and a phone that waits for it cannot have
  connected (`ServedAfterReady`). `KeyInv` gives `ClipKeyStands`: startups
  precede ready in the FIFO queue (`StartupsFirst`), and a resolver's startup
  that could follow is one of a thread that had read the flag too early
  (`AskersSawClear`).
- **ClipSyncProofs.** `SyncInv` is typing with two facts it needs: `handle_8904`
  runs for an accepted connection and the watcher sends only with something in
  hand.
- **ControlPortProofs**, `ControlSession`. `SessionInv` is typing, `Farewells`
  (a close in the queue, remembered or published, is the phone's or comes of a
  lost place) and `Verdict` (`dead_tx` speaks only at the end, `wait_disconnect`
  repeats it). `ClosedByPhone` and `EndIsFinal` follow.
- **ControlPortProofs**, `Gateway`. `NothingOverwritten` and `StaysTogether` are
  not inductive: that a write hits nothing of the user follows from what the names
  are. `Names` (a name given out is made from its top-level name, is none of the
  user's, and the rival has one exactly while it is about something) and `Taken`
  (everything in the folder is under a name of the user, of the rival or of this
  download) make `unique_path` sound: of the candidates one is free
  (`UniquePathIsFree`), since only two transfers ever take names. `DoneIsWhole`
  needs three facts more: what is copied and what is on disk agree (`Unpacking`);
  as long as no rival took the same name, what the download wrote is whole but for
  the file being written, and what it finished is there (`Unbroken`); the phone's
  answer follows the terminator (`Uploading`). `Unbroken` is conditional because
  of such a clash, in which a finished file does change: once two transfers share
  a name they share it for good (`ClashStays`).
- **PresenceProofs.** `RideHasEnd` rests on `OkHasEnd`: an ask is answered "ok"
  only after the sender of its end was parked, and senders are only replaced by
  being dropped. `AnswersOwn` needs `AskOrder` (asks are numbered as they are
  read), `OneAtATime` (what the app takes or answers is the ask presence waits
  for, or it was misled) and `AnswersMatch`.
- **ConnectProofs.** `ForwardsStand` needs the phases that can be left of each
  kind of connect (`Rests`), that with a drained app one connect follows the
  other (`Orderly`), whose session removes (`Sessions`), and which forwards a
  connect on its way has already (`Stands`). `BeaconBounded` follows
  from typing and from what ends an attempt.
- **PollersProofs.** `IInv` says what is left of a start or a stop (`Steps`),
  that no source has a past before it is spawned (`Unborn`), that a start which a
  call meets is remembered as such (`Overlap`), that otherwise the receiver in the
  slot or in the poll thread is the newest (`Newest`, `Prepared`), that a flag
  raised by nobody's stop is about to be cleared (`Flagged`), and that what is
  still in a channel has not been handed out (`Fresh`), which is what is left when
  starts and calls overlap. Under it every step is a step of `EventStream` or a
  stutter (`Implements`): the safety part of `StreamSpec`. Its fairness is
  checked by TLC.
- **ScreenProofs.** `VideoWhole` with `Unopened`, that a stream which has not
  come up has no frames.

Only model-checked: all liveness, with the fairness of `StreamSpec` (out of the
prover's reach). Every invariant of a passing run is a theorem.

## 6. Not modelled

- Cryptography, and the byte layout of messages (`pcsuite-proto`): pure
  functions that the repository tests with known answers.
- The cloud account's REST calls, configuration and device information: single
  requests without shared state. TCP and TLS wrappers are I/O.
- The command line, with the stand-alone mirror it alone uses (`Screen::open` and
  `control_loop`).
- Listing, search and thumbnails of the gateway; directories and the probes of
  vdfs behind environment variables.
- What verify codes and notifications say: their relay is the "feature" source of
  `Pollers`.
- The OS calls of the macOS clipboard backend, whose effect `ClipSync` states.
- The phone, the relay and adb, which are not part of the repository, beyond what
  the code relies on.
