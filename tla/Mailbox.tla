------------------------------ MODULE Mailbox ------------------------------
(***************************************************************************)
(* What receiving over the relay comes to, in the words of cloudshare.rs:  *)
(* an upload waits until every file of it arrived; a failure "leaves the   *)
(* record on the server", which is "what makes a partial transfer          *)
(* resumable".                                                             *)
(***************************************************************************)
CONSTANTS
  Upload,  \* uploads
  File     \* files of one

VARIABLES
  record,     \* per upload: "none", "pending" (it waits) or "complete" (forgotten)
  delivered,  \* files the user has
  lost        \* files that the relay believes the user has, and the PC lost

vars == <<record, delivered, lost>>

Init ==
  /\ record = [u \in Upload |-> "none"]
  /\ delivered = {}
  /\ lost = {}

Post(u) ==
  /\ record[u] = "none"
  /\ record' = [record EXCEPT ![u] = "pending"]
  /\ UNCHANGED <<delivered, lost>>

\* Only of an upload that waits; the same file may come again.
Deliver(u, f) ==
  /\ record[u] = "pending"
  /\ delivered' = delivered \cup {<<u, f>>}
  /\ UNCHANGED <<record, lost>>

\* To a disk that is full, a failed rename or a stop.
Lose(u, f) ==
  /\ record[u] = "pending"
  /\ lost' = lost \cup {<<u, f>>}
  /\ UNCHANGED <<record, delivered>>

\* Once, and for good.
Forget(u) ==
  /\ record[u] = "pending"
  /\ {u} \X File \subseteq delivered \cup lost
  /\ record' = [record EXCEPT ![u] = "complete"]
  /\ UNCHANGED <<delivered, lost>>

Next ==
  \E u \in Upload :
    Post(u) \/ Forget(u) \/ \E f \in File : Deliver(u, f) \/ Lose(u, f)

Spec == Init /\ [][Next]_vars
=============================================================================
