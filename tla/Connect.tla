------------------------------ MODULE Connect ------------------------------
(***************************************************************************)
(* How a session comes up and goes: the four blocking connects of the FFI  *)
(* (pcsuite-ffi/src/lib.rs) with their cancel, the registration on 10191   *)
(* with its announcements (connect.rs, ssdp.rs, presence.rs), the adb      *)
(* forwards of a wired session (usb.rs, adb.rs) and QR pairing (pair.rs).  *)
(*                                                                         *)
(* A connect is a future made of phases; each may take as long as the      *)
(* network lets it, and a cancel drops the future between two of them.     *)
(***************************************************************************)
EXTENDS Naturals, Sequences

CONSTANTS
  MaxAttempt,  \* connects
  MaxCancel,   \* cancels of the user
  MaxPair      \* pairings begun

ASSUME AttemptAssumption == MaxAttempt \in Nat
ASSUME CancelAssumption == MaxCancel \in Nat
ASSUME PairAssumption == MaxPair \in Nat

Attempt == 1 .. MaxAttempt
Pair == 1 .. MaxPair
None == 0
Kind == {"lan", "token", "usb", "paired"}
Port == {"10380", "10381", "clip"}  \* "clip": the three of enable_clipboard

VARIABLES
  scene,    \* bound: "pairing" and the beacon, or the other connects
  drained,  \* the app waits until a session is dropped before it connects again
  kind,     \* per attempt, which connect it is
  todo,     \* per attempt, the phases still to come
  result,   \* per attempt: "none", "busy", "ok", "failed" or "cancelled"
  seen,     \* per attempt, the cancel generation it has seen
  gen,      \* the cancel generation
  beacon,   \* per attempt, presence_loop is announcing this PC to its phone
  sess,     \* per attempt: "none", "live", "released", "dropping" or "gone"
  remove,   \* per attempt, the forwards its Drop has yet to remove
  clip,     \* per attempt, the clipboard forwards are added
  forwards, \* the forwards adb has
  orphans,  \* forwards that an adb whose caller is gone is about to add
  mcast,    \* announce_loops that run: numbered by their start
  mslot,    \* the one in presence_slot
  mstarts   \* starts of the multicast beacon so far

connVars == <<kind, todo, result, seen, gen>>
sessVars == <<sess, remove, clip>>
adbVars == <<forwards, orphans>>
mcastVars == <<mcast, mslot, mstarts>>

VARIABLES
  pairs,    \* pairings begun
  wait,     \* per pairing: "idle", "top", "accept", "read", "paired" or "failed"
  pstop,    \* per pairing, its stop flag
  port,     \* the pairing whose listener has 9199
  scan,     \* the pairing whose QR code the phone has scanned and not reported yet
  trusts    \* the pairing whose token the phone trusts

pairVars == <<pairs, wait, pstop, port, scan, trusts>>
vars == <<scene, drained, connVars, beacon, sessVars, adbVars, mcastVars, pairVars>>

Init ==
  /\ scene \in {"pairing", "network"}
  /\ drained \in BOOLEAN
  /\ kind = [n \in Attempt |-> "lan"]
  /\ todo = [n \in Attempt |-> <<>>]
  /\ result = [n \in Attempt |-> "none"]
  /\ seen = [n \in Attempt |-> 0]
  /\ gen = 0
  /\ beacon = [n \in Attempt |-> FALSE]
  /\ sess = [n \in Attempt |-> "none"]
  /\ remove = [n \in Attempt |-> <<>>]
  /\ clip = [n \in Attempt |-> FALSE]
  /\ forwards = {}
  /\ orphans = {}
  /\ mcast = {}
  /\ mslot = None
  /\ mstarts = 0
  /\ pairs = 0
  /\ wait = [p \in Pair |-> "idle"]
  /\ pstop = [p \in Pair |-> FALSE]
  /\ port = None
  /\ scan = None
  /\ trusts = None

-----------------------------------------------------------------------------
(* The connect futures *)

Busy(n) == result[n] = "busy"

Phases ==
  [lan    |-> <<"seed", "announce", "greet", "confirm", "ws">>,
   token  |-> <<"probe", "ws">>,
   usb    |-> <<"devices", "10380", "10381", "launch", "version", "probe", "ws">>,
   paired |-> <<"ws">>]

\* The stored seed, the datagrams, starting the phone's app and the two calls
\* before the control WebSocket "are logged and never fatal".
BestEffort == {"seed", "announce", "launch", "probe"}

\* The steps of a registration that must succeed: 10191 answers the dial, and
\* 10380 opens in the end. A reply that does not come in its 8s is passed over.
Exchanges == {"greet", "confirm"}

\* Phases whose failure ends the connect.
Fatal == Exchanges \cup Port \cup {"devices", "version", "ws"}

\* One connect at a time, and one session. An app that is not "drained" lets go
\* of the old session and connects again while its poll threads still hold it.
MayBegin(n) ==
  /\ result[n] = "none"
  /\ \A m \in Attempt :
       m < n => /\ result[m] \notin {"none", "busy"}
                /\ sess[m] # "live"
                /\ drained => sess[m] \in {"none", "gone"}

\* block_on_cancellable: subscribes, and looks past the cancels sent before now.
Begins(n, k) ==
  /\ MayBegin(n)
  /\ kind' = [kind EXCEPT ![n] = k]
  /\ todo' = [todo EXCEPT ![n] = Phases[k]]
  /\ result' = [result EXCEPT ![n] = "busy"]
  /\ seen' = [seen EXCEPT ![n] = gen]
  /\ UNCHANGED <<scene, drained, gen, beacon, sessVars, adbVars, mcastVars, pairVars>>

\* A paired connect is for a pairing that has succeeded.
Connects(n) ==
  \E k \in Kind :
    /\ k = "paired" <=> scene = "pairing"
    /\ k = "paired" => \E p \in Pair : wait[p] = "paired"
    /\ Begins(n, k)

\* pcsuite_cancel_connect
Cancels ==
  /\ gen < MaxCancel
  /\ gen' = gen + 1
  /\ UNCHANGED <<scene, drained, kind, todo, result, seen, beacon, sessVars,
                 adbVars, mcastVars, pairVars>>

\* The phone lets the control WebSocket of a paired connect in if it has the
\* token of that pairing.
TokenTrusted(n) == kind[n] = "paired" => trusts # None /\ wait[trusts] = "paired"

\* register spawns presence_loop, which announces until it is aborted.
Announces(n, phase) == beacon' = [beacon EXCEPT ![n] = @ \/ phase = "announce"]

\* The last phase opens the control WebSocket: the session, which owns the
\* Registration of its connect, goes to the app.
ComesUp(n, phase) ==
  /\ phase = "ws" => TokenTrusted(n)
  /\ result' = [result EXCEPT ![n] = IF phase = "ws" THEN "ok" ELSE @]
  /\ sess' = [sess EXCEPT ![n] = IF phase = "ws" THEN "live" ELSE @]

\* The future moves on; prepare adds the forwards one by one.
Proceeds(n) ==
  /\ Busy(n)
  /\ LET phase == Head(todo[n]) IN
       /\ todo' = [todo EXCEPT ![n] = Tail(@)]
       /\ Announces(n, phase)
       /\ forwards' = forwards \cup ({phase} \cap Port)
       /\ ComesUp(n, phase)
  /\ UNCHANGED <<scene, drained, kind, seen, gen, remove, clip, orphans, mcastVars, pairVars>>

\* Mutant: a JoinHandle of its own only detaches the task.
DetachesBeacon(n) == UNCHANGED beacon

\* The future is dropped, by an error or by the select: the guard, or the
\* Registration, ends the announcements.
LetsGo(n) == beacon' = [beacon EXCEPT ![n] = FALSE]

Fails(n) ==
  /\ Busy(n)
  /\ Head(todo[n]) \in Fatal
  /\ result' = [result EXCEPT ![n] = "failed"]
  /\ todo' = [todo EXCEPT ![n] = <<>>]
  /\ LetsGo(n)
  /\ UNCHANGED <<scene, drained, kind, seen, gen, sessVars, adbVars, mcastVars, pairVars>>

\* The other branch of the select. An adb that runs for a forward is not killed
\* with the future that waits for it.
Cancelled(n) ==
  /\ Busy(n)
  /\ gen > seen[n]
  /\ result' = [result EXCEPT ![n] = "cancelled"]
  /\ todo' = [todo EXCEPT ![n] = <<>>]
  /\ LetsGo(n)
  /\ orphans' \in {orphans, orphans \cup ({Head(todo[n])} \cap Port)}
  /\ UNCHANGED <<scene, drained, kind, seen, gen, sessVars, forwards, mcastVars, pairVars>>

OrphanAdds(f) ==
  /\ f \in orphans
  /\ orphans' = orphans \ {f}
  /\ forwards' = forwards \cup {f}
  /\ UNCHANGED <<scene, drained, connVars, beacon, sessVars, mcastVars, pairVars>>

-----------------------------------------------------------------------------
(* The session *)

\* enable_clipboard over USB adds the forwards of the relay and of vdfs.
EnablesClipboard(n) ==
  /\ sess[n] = "live"
  /\ kind[n] = "usb"
  /\ clip' = [clip EXCEPT ![n] = TRUE]
  /\ forwards' = forwards \cup {"clip"}
  /\ UNCHANGED <<scene, drained, connVars, beacon, sess, remove, orphans, mcastVars, pairVars>>

\* The app lets go of the session; a poll thread may hold it for a while.
Releases(n) ==
  /\ sess[n] = "live"
  /\ sess' = [sess EXCEPT ![n] = "released"]
  /\ UNCHANGED <<scene, drained, connVars, beacon, remove, clip, adbVars, mcastVars, pairVars>>

\* Mutant: the removal is left to the runtime, and drop returns at once.
DropsInBackground(n) ==
  /\ sess[n] = "released"
  /\ sess' = [sess EXCEPT ![n] = "gone"]
  /\ remove' = [remove EXCEPT ![n] =
                  IF kind[n] = "usb" THEN <<"clip", "10380", "10381">> ELSE <<>>]
  /\ UNCHANGED <<scene, drained, connVars, beacon, clip, adbVars, mcastVars, pairVars>>

\* PcSession::drop begins: a wired one removes its forwards first.
Drops(n) ==
  /\ sess[n] = "released"
  /\ sess' = [sess EXCEPT ![n] = "dropping"]
  /\ remove' = [remove EXCEPT ![n] =
                  IF kind[n] = "usb" THEN <<"clip", "10380", "10381">> ELSE <<>>]
  /\ UNCHANGED <<scene, drained, connVars, beacon, clip, adbVars, mcastVars, pairVars>>

\* adb forward --remove, whoever added it.
Removes(n) ==
  /\ remove[n] # <<>>
  /\ forwards' = forwards \ {Head(remove[n])}
  /\ remove' = [remove EXCEPT ![n] = Tail(@)]
  /\ UNCHANGED <<scene, drained, connVars, beacon, sess, clip, orphans, mcastVars, pairVars>>

\* Then its fields go: the tasks of the session and the Registration.
Dropped(n) ==
  /\ sess[n] = "dropping"
  /\ remove[n] = <<>>
  /\ sess' = [sess EXCEPT ![n] = "gone"]
  /\ LetsGo(n)
  /\ UNCHANGED <<scene, drained, connVars, remove, clip, adbVars, mcastVars, pairVars>>

-----------------------------------------------------------------------------
(* The multicast beacon of the app *)

OnlyMcast == UNCHANGED <<scene, drained, connVars, beacon, sessVars, adbVars, pairVars>>

\* A beacon takes the slot; the one that was there is dropped, which aborts it.
TakesSlot(b) ==
  /\ mcast' = (mcast \ {mslot}) \cup {b}
  /\ mslot' = b

\* pcsuite_presence_start: the new one is spawned first.
McastStarts ==
  /\ scene = "pairing"
  /\ mstarts < MaxPair
  /\ mstarts' = mstarts + 1
  /\ TakesSlot(mstarts + 1)
  /\ OnlyMcast

McastStops ==
  /\ mcast' = mcast \ {mslot}
  /\ mslot' = None
  /\ UNCHANGED mstarts
  /\ OnlyMcast

\* The loop ends by itself only where it cannot have a socket.
McastFails(b) ==
  /\ b \in mcast
  /\ mcast' = mcast \ {b}
  /\ UNCHANGED <<mslot, mstarts>>
  /\ OnlyMcast

-----------------------------------------------------------------------------
(* QR pairing *)

OnlyPair == UNCHANGED <<scene, drained, connVars, beacon, sessVars, adbVars, mcastVars>>

Shows ==
  /\ scene = "pairing"
  /\ pairs < MaxPair
  /\ pairs' = pairs + 1
  /\ UNCHANGED <<wait, pstop, port, scan, trusts>>
  /\ OnlyPair

PairCancels(p) ==
  /\ p <= pairs
  /\ pstop' = [pstop EXCEPT ![p] = TRUE]
  /\ UNCHANGED <<pairs, wait, port, scan, trusts>>
  /\ OnlyPair

\* wait_phone: binds 9199, or fails where another pairing still has it.
Binds(p) ==
  /\ p <= pairs
  /\ wait[p] = "idle"
  /\ wait' = [wait EXCEPT ![p] = IF port = None THEN "top" ELSE "failed"]
  /\ port' = IF port = None THEN p ELSE port
  /\ UNCHANGED <<pairs, pstop, scan, trusts>>
  /\ OnlyPair

\* The top of the loop: a stop or the deadline ends it and frees the port.
Gives(p) ==
  /\ wait[p] = "top"
  /\ \/ wait' = [wait EXCEPT ![p] = "failed"] /\ port' = None
     \/ ~pstop[p] /\ wait' = [wait EXCEPT ![p] = "accept"] /\ UNCHANGED port
  /\ UNCHANGED <<pairs, pstop, scan, trusts>>
  /\ OnlyPair

\* Mutant: accept waits for as long as the pairing may take.
NeverTicks(p) ==
  /\ wait[p] = "accept"
  /\ FALSE
  /\ UNCHANGED pairVars
  /\ OnlyPair

\* 300ms without a connection.
Ticks(p) ==
  /\ wait[p] = "accept"
  /\ wait' = [wait EXCEPT ![p] = "top"]
  /\ UNCHANGED <<pairs, pstop, port, scan, trusts>>
  /\ OnlyPair

\* A connection of somebody: it is read for 5s and answered 404.
StrayComes(p) ==
  /\ wait[p] = "accept"
  /\ wait' = [wait EXCEPT ![p] = "read"]
  /\ UNCHANGED <<pairs, pstop, port, scan, trusts>>
  /\ OnlyPair

StrayGoes(p) ==
  /\ wait[p] = "read"
  /\ wait' = [wait EXCEPT ![p] = "top"]
  /\ UNCHANGED <<pairs, pstop, port, scan, trusts>>
  /\ OnlyPair

\* The phone reports its address, its ids and its names: the request does not
\* say which code was scanned.
Reports == scan # None

Notified(p) ==
  /\ wait[p] = "accept"
  /\ Reports
  /\ wait' = [wait EXCEPT ![p] = "paired"]
  /\ port' = None
  /\ scan' = None
  /\ UNCHANGED <<pairs, pstop, trusts>>
  /\ OnlyPair

\* The user scans a code that is, or was, on the screen.
Scans(p) ==
  /\ p <= pairs
  /\ trusts = None
  /\ trusts' = p
  /\ scan' = p
  /\ UNCHANGED <<pairs, wait, pstop, port>>
  /\ OnlyPair

\* Nobody listens on 9199.
ScanLost ==
  /\ Reports
  /\ port = None
  /\ scan' = None
  /\ UNCHANGED <<pairs, wait, pstop, port, trusts>>
  /\ OnlyPair

Pairing ==
  \/ Shows \/ ScanLost
  \/ \E p \in Pair :
       PairCancels(p) \/ Binds(p) \/ Gives(p) \/ Ticks(p) \/ StrayComes(p)
       \/ StrayGoes(p) \/ Notified(p) \/ Scans(p)

Next ==
  \/ Cancels \/ McastStarts \/ McastStops \/ Pairing
  \/ \E b \in mcast : McastFails(b)
  \/ \E f \in Port : OrphanAdds(f)
  \/ \E n \in Attempt :
       Connects(n) \/ Proceeds(n) \/ Fails(n) \/ Cancelled(n)
       \/ EnablesClipboard(n) \/ Releases(n) \/ Drops(n) \/ Removes(n) \/ Dropped(n)

Spec == Init /\ [][Next]_vars

\* The select is polled when the generation changes; the slices of the wait for
\* the phone, and the reads in it, are bounded. Nothing is said of the network.
Fairness ==
  /\ \A n \in Attempt : WF_vars(Cancelled(n))
  /\ \A p \in Pair : WF_vars(Gives(p)) /\ WF_vars(StrayGoes(p)) /\ WF_vars(Ticks(p))

FairSpec == Spec /\ Fairness

-----------------------------------------------------------------------------
(* Properties *)

TypeOK ==
  /\ scene \in {"pairing", "network"}
  /\ drained \in BOOLEAN
  /\ kind \in [Attempt -> Kind]
  /\ todo \in [Attempt -> Seq(BestEffort \cup Fatal)]
  /\ result \in [Attempt -> {"none", "busy", "ok", "failed", "cancelled"}]
  /\ seen \in [Attempt -> 0 .. MaxCancel]
  /\ gen \in 0 .. MaxCancel
  /\ beacon \in [Attempt -> BOOLEAN]
  /\ sess \in [Attempt -> {"none", "live", "released", "dropping", "gone"}]
  /\ remove \in [Attempt -> Seq(Port)]
  /\ clip \in [Attempt -> BOOLEAN]
  /\ forwards \subseteq Port
  /\ orphans \subseteq Port
  /\ mcast \subseteq 1 .. MaxPair
  /\ mslot \in 0 .. MaxPair
  /\ mstarts \in 0 .. MaxPair
  /\ pairs \in 0 .. MaxPair
  /\ wait \in [Pair -> {"idle", "top", "accept", "read", "paired", "failed"}]
  /\ pstop \in [Pair -> BOOLEAN]
  /\ port \in Pair \cup {None}
  /\ scan \in Pair \cup {None}
  /\ trusts \in Pair \cup {None}

\* "Aborting on drop bounds it to the attempt": this PC is announced to a phone
\* only while the connect that began it is in flight or its session is there,
\* however the connect ends; and one multicast beacon runs at most, that of the
\* slot.
BeaconBounded ==
  /\ \A n \in Attempt : beacon[n] => Busy(n) \/ sess[n] \in {"live", "released", "dropping"}
  /\ mcast \subseteq {mslot}

\* Under an app that waits for the old session to be dropped before it connects
\* again, a live wired session has every forward it added. (An old session that
\* a poll thread drops late removes those of the next one.)
ForwardsStand ==
  drained =>
    \A n \in Attempt :
      sess[n] = "live" /\ kind[n] = "usb" =>
        /\ {"10380", "10381"} \subseteq forwards
        /\ clip[n] => "clip" \in forwards

\* "aborts the in-flight sockets and returns at once", and "a cancelled pairing
\* doesn't leave the port bound": both kinds of call return once cancelled, with
\* the phone silent or strangers on the port.
CancelReturns ==
  /\ \A n \in Attempt : Busy(n) /\ gen > seen[n] ~> ~Busy(n)
  /\ \A p \in Pair : pstop[p] /\ port = p ~> port # p
=============================================================================
