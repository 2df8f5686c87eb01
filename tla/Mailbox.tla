------------------------------ MODULE Mailbox ------------------------------
(***************************************************************************)
(* What the last hop promises of the messages of one binding: a queue that *)
(* is read at least once.  Messages are queued in their order and leased   *)
(* oldest first; every lease lets the session see the message once, and    *)
(* not before it.  A message is settled only when it was seen, goes back   *)
(* to the queue when its lease lapses, and is dropped only at the end of   *)
(* the binding.  Who reads, and how many try to, is no part of it.         *)
(***************************************************************************)
EXTENDS Integers

CONSTANT Message    \* a set of integers: messages in their order

VARIABLES binding, box, leases, shown
vars == <<binding, box, leases, shown>>

Init ==
  /\ binding = "starting" /\ box = [m \in Message |-> "none"]
  /\ leases = [m \in Message |-> 0] /\ shown = [m \in Message |-> 0]

Open == binding = "starting" /\ binding' = "active" /\ UNCHANGED <<box, leases, shown>>

Accept(m) ==
  /\ binding = "active" /\ box[m] = "none" /\ \A k \in Message : k < m => box[k] # "none"
  /\ box' = [box EXCEPT ![m] = "enqueued"] /\ UNCHANGED <<binding, leases, shown>>

Lease(m) ==
  /\ binding = "active" /\ box[m] = "enqueued"
  /\ \A k \in Message : k < m => box[k] # "enqueued"
  /\ box' = [box EXCEPT ![m] = "leased"] /\ leases' = [leases EXCEPT ![m] = @ + 1]
  /\ UNCHANGED <<binding, shown>>

\* The reader of a lapsed lease may come late, in the worst case after the binding ended.
Show(m) ==
  /\ shown[m] < leases[m]
  /\ shown' = [shown EXCEPT ![m] = @ + 1] /\ UNCHANGED <<binding, box, leases>>

Settle(m) ==
  /\ box[m] = "leased" /\ shown[m] > 0
  /\ box' = [box EXCEPT ![m] = "emitted"] /\ UNCHANGED <<binding, leases, shown>>

Lapse(m) ==
  /\ box[m] = "leased"
  /\ box' = [box EXCEPT ![m] = IF binding = "active" THEN "enqueued" ELSE "dropped"]
  /\ UNCHANGED <<binding, leases, shown>>

Close ==
  /\ binding # "closed" /\ binding' = "closed"
  /\ box' = [m \in Message |-> IF box[m] = "enqueued" THEN "dropped" ELSE box[m]]
  /\ UNCHANGED <<leases, shown>>

Next ==
  \/ Open \/ Close
  \/ \E m \in Message : Accept(m) \/ Lease(m) \/ Show(m) \/ Settle(m) \/ Lapse(m)

Spec == Init /\ [][Next]_vars
=============================================================================
