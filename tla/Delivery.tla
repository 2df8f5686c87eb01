------------------------------ MODULE Delivery ------------------------------
(***************************************************************************)
(* The last hop of a message: the deliveries of one binding, which         *)
(* listeners print into the session (lib/listener_core.py) and whose       *)
(* leases the daemon takes back (lib/recovery.py).  Several listeners may  *)
(* run for one binding (a monitor that was armed twice, a restart); the    *)
(* row of the binding names the one that holds it, fenced by an epoch.     *)
(* Heartbeats grow old and leases run out whenever the code looks at them. *)
(***************************************************************************)
EXTENDS Integers, FiniteSets, FiniteSetsExt

CONSTANTS
  Listener,  \* processes, by (pid, start)
  Last,      \* messages of the binding, by delivery_seq 1..Last
  MaxSlips,  \* bounds the failed steps and the leases that run out in use
  None

ASSUME Shape ==
  None \notin Listener /\ IsFiniteSet(Listener) /\ Last \in Nat \ {0} /\ MaxSlips \in Nat

Seq == 1..Last

VARIABLES
  \* the row of the binding
  status, epoch, holder,
  fresh,     \* listener_beat_at is younger than HEARTBEAT_FRESH_MS
  \* deliveries
  delivery, attempts,
  \* listeners: what they do next, my_epoch, the row they read, the row they claimed
  pc, mine, seen, item,
  \* what reached the session, and how often a lease has run out
  printed, lapsed,
  slips

row   == <<status, epoch, holder, fresh>>
queue == <<delivery, attempts>>
local == <<pc, mine, seen, item>>
ghost == <<printed, lapsed>>
vars  == <<row, queue, local, ghost, slips>>

Idle == [seq |-> 0, lease |-> 0]

Init ==
  /\ status = "starting" /\ epoch = 0 /\ holder = None /\ fresh = FALSE
  /\ delivery = [d \in Seq |-> "none"] /\ attempts = [d \in Seq |-> 0]
  /\ pc = [l \in Listener |-> "read"] /\ mine = [l \in Listener |-> 0]
  /\ seen = [l \in Listener |-> [status |-> "starting", epoch |-> 0, holder |-> None, fresh |-> FALSE]]
  /\ item = [l \in Listener |-> Idle]
  /\ printed = [d \in Seq |-> 0] /\ lapsed = [d \in Seq |-> 0] /\ slips = 0

Live     == status \in {"starting", "active"}
Goto(l, where) == pc' = [pc EXCEPT ![l] = where]

-----------------------------------------------------------------------------
(* ListenerCore.step                                                         *)

\* The row is read outside of any transaction; a closed one ends the core.
Read(l) ==
  /\ pc[l] = "read"
  /\ seen' = [seen EXCEPT ![l] = [status |-> status, epoch |-> epoch, holder |-> holder, fresh |-> fresh]]
  /\ Goto(l, IF Live THEN "hold" ELSE "exit")
  /\ UNCHANGED <<row, queue, mine, item, ghost, slips>>

BugIsMine(l) == seen[l].holder = l /\ seen[l].epoch < mine[l]
IsMine(l)  == seen[l].holder = l /\ seen[l].epoch = mine[l]
Drain(l)   == Goto(l, IF seen[l].status = "active" THEN "claim" ELSE "read")

\* The core is given up; the follower builds a new one for a live binding.
GiveUp(l)  == Goto(l, "read") /\ mine' = [mine EXCEPT ![l] = 0]

\* The CAS on listener_epoch.
Beat(l) ==
  /\ pc[l] = "hold" /\ IsMine(l)
  /\ \/ epoch = mine[l] /\ fresh' = TRUE /\ Drain(l) /\ UNCHANGED mine
     \/ epoch # mine[l] /\ GiveUp(l) /\ UNCHANGED fresh
  /\ UNCHANGED <<status, epoch, holder, queue, seen, item, ghost, slips>>

\* _takeover: nobody holds the binding, or this process does, or its holder is
\* certainly dead.
MayTake(l) ==
  \/ seen[l].holder \in {None, l}
  \/ ~seen[l].fresh /\ \E k \in Listener : k = seen[l].holder /\ pc[k] = "dead"

BugUnmoved(l) == Live
Unmoved(l) == Live /\ epoch = seen[l].epoch /\ holder = seen[l].holder

Take(l) ==
  /\ pc[l] = "hold" /\ ~IsMine(l) /\ MayTake(l)
  /\ IF Unmoved(l)
     THEN /\ holder' = l /\ epoch' = seen[l].epoch + 1 /\ fresh' = TRUE
          /\ mine' = [mine EXCEPT ![l] = seen[l].epoch + 1] /\ Drain(l)
     ELSE Goto(l, "read") /\ UNCHANGED <<holder, epoch, fresh, mine>>
  /\ UNCHANGED <<status, queue, seen, item, ghost, slips>>

\* A copy too many goes when the holder's heartbeat is fresh, and waits when
\* the holder may be alive.
Yield(l) ==
  /\ pc[l] = "hold" /\ ~IsMine(l) /\ ~MayTake(l)
  /\ IF seen[l].fresh THEN GiveUp(l) ELSE Goto(l, "read") /\ UNCHANGED mine
  /\ UNCHANGED <<row, queue, seen, item, ghost, slips>>

-----------------------------------------------------------------------------
(* ListenerCore._drain                                                       *)

BugClaimable == {d \in Seq : delivery[d] \in {"enqueued", "leased"}}
Claimable == {d \in Seq : delivery[d] = "enqueued"}

\* _claim_one: one transaction; the token of a lease is the number of the attempt.
Claim(l) ==
  /\ pc[l] = "claim"
  /\ IF Claimable # {} /\ status = "active" /\ epoch = mine[l]
     THEN LET d == Min(Claimable)
          IN /\ delivery' = [delivery EXCEPT ![d] = "leased"]
             /\ attempts' = [attempts EXCEPT ![d] = @ + 1]
             /\ item' = [item EXCEPT ![l] = [seq |-> d, lease |-> attempts[d] + 1]]
             /\ Goto(l, "print")
     ELSE Goto(l, "read") /\ UNCHANGED <<queue, item>>
  /\ UNCHANGED <<row, mine, seen, ghost, slips>>

PrintLine(l) ==
  /\ pc[l] = "print"
  /\ printed' = [printed EXCEPT ![item[l].seq] = @ + 1]
  /\ Goto(l, "emit")
  /\ UNCHANGED <<row, queue, mine, seen, item, lapsed, slips>>

Leased(d, lease) == delivery[d] = "leased" /\ attempts[d] = lease

\* The CAS on the token: a lease that was taken back is not emitted.
Emit(l) ==
  LET d == item[l].seq
  IN /\ pc[l] = "emit"
     /\ delivery' = IF Leased(d, item[l].lease) THEN [delivery EXCEPT ![d] = "emitted"] ELSE delivery
     /\ item' = [item EXCEPT ![l] = Idle] /\ Goto(l, "claim")
     /\ UNCHANGED <<row, attempts, mine, seen, ghost, slips>>

\* An exception, such as a locked database: the loop goes on, the row stays leased.
StepFails(l) ==
  /\ slips < MaxSlips /\ slips' = slips + 1
  /\ pc[l] \in {"hold", "claim", "print", "emit"} /\ Goto(l, "read")
  /\ item' = [item EXCEPT ![l] = Idle]
  /\ UNCHANGED <<row, queue, mine, seen, ghost>>

\* A killed process, a broken pipe.
Die(l) ==
  /\ pc[l] \notin {"dead", "exit"} /\ Goto(l, "dead")
  /\ item' = [item EXCEPT ![l] = Idle]
  /\ UNCHANGED <<row, queue, mine, seen, ghost, slips>>

-----------------------------------------------------------------------------
(* The daemon.                                                               *)

\* _enqueue_in_tx
Enqueue(d) ==
  /\ status = "active" /\ delivery[d] = "none" /\ \A e \in 1..(d - 1) : delivery[e] # "none"
  /\ delivery' = [delivery EXCEPT ![d] = "enqueued"]
  /\ UNCHANGED <<row, attempts, local, ghost, slips>>

InUse(d) == \E l \in Listener : item[l].seq = d /\ Leased(d, item[l].lease)

BugTakeBack(d) == "enqueued"
TakeBack(d) == IF status = "active" THEN "enqueued" ELSE "dropped"

\* _reclaim_leases: a single statement.
BugReclaim(d) ==
  /\ delivery[d] = "leased" /\ (slips < MaxSlips \/ ~InUse(d)) /\ holder # None /\ pc[holder] # "dead"
  /\ slips' = IF InUse(d) THEN slips + 1 ELSE slips
  /\ delivery' = [delivery EXCEPT ![d] = TakeBack(d)]
  /\ lapsed' = [lapsed EXCEPT ![d] = @ + 1]
  /\ UNCHANGED <<row, attempts, local, printed>>

Reclaim(d) ==
  /\ delivery[d] = "leased" /\ (slips < MaxSlips \/ ~InUse(d))
  /\ slips' = IF InUse(d) THEN slips + 1 ELSE slips
  /\ delivery' = [delivery EXCEPT ![d] = TakeBack(d)]
  /\ lapsed' = [lapsed EXCEPT ![d] = @ + 1]
  /\ UNCHANGED <<row, attempts, local, printed>>

Activate ==
  /\ status = "starting" /\ holder # None /\ fresh /\ status' = "active"
  /\ UNCHANGED <<epoch, holder, fresh, queue, local, ghost, slips>>

\* Unbind, a new bind, the end of the session, the death scan.
Terminate ==
  /\ Live /\ status' = "closed"
  /\ delivery' = [d \in Seq |-> IF delivery[d] = "enqueued" THEN "dropped" ELSE delivery[d]]
  /\ UNCHANGED <<epoch, holder, fresh, attempts, local, ghost, slips>>

Silence ==
  /\ fresh /\ fresh' = FALSE
  /\ UNCHANGED <<status, epoch, holder, queue, local, ghost, slips>>

-----------------------------------------------------------------------------
Step(l) == Read(l) \/ Beat(l) \/ Take(l) \/ Yield(l) \/ Claim(l) \/ PrintLine(l) \/ Emit(l)

Next ==
  \/ \E l \in Listener : Step(l) \/ StepFails(l) \/ Die(l)
  \/ \E d \in Seq : Enqueue(d) \/ Reclaim(d)
  \/ Activate \/ Terminate \/ Silence

Spec == Init /\ [][Next]_vars

\* A listener steps every second, the daemon scans again and again, the
\* heartbeat of a dead holder grows old, and a binding whose listeners are all
\* dead is ended (LostIsReleased of Binding).
Fairness ==
  /\ \A l \in Listener : WF_vars(Step(l))
  /\ \A d \in Seq : WF_vars(Reclaim(d))
  /\ WF_vars((\E l \in Listener : holder = l /\ pc[l] = "dead") /\ Silence)
  /\ WF_vars((\A l \in Listener : pc[l] = "dead") /\ Terminate)

FairSpec == Spec /\ Fairness

-----------------------------------------------------------------------------
(* Properties.                                                               *)

\* The columns and the listeners' variables have their types, and a listener
\* prints nothing but what it has claimed.
TypeOK ==
  /\ status \in {"starting", "active", "closed"} /\ epoch \in 0..Cardinality(Listener)
  /\ holder \in Listener \cup {None} /\ fresh \in BOOLEAN
  /\ delivery \in [Seq -> {"none", "enqueued", "leased", "emitted", "dropped"}]
  /\ attempts \in [Seq -> Nat] /\ slips \in 0..MaxSlips
  /\ pc \in [Listener -> {"read", "hold", "claim", "print", "emit", "exit", "dead"}]
  /\ mine \in [Listener -> 0..Cardinality(Listener)]
  /\ \A l \in Listener : IF pc[l] \in {"print", "emit"} THEN item[l].seq \in Seq ELSE item[l] = Idle

\* Never do two listeners pass the fence of one epoch: at most one reads the
\* messages of a binding, however they were started, killed and restarted.
OneReader ==
  \A l, k \in Listener : mine[l] = mine[k] /\ l # k => mine[l] = 0

\* The session sees a message again only after a lease on it has run out.
RepeatNeedsLapse == \A d \in Seq : printed[d] <= 1 + lapsed[d]

\* No message is lost while the binding lives: "emitted" was printed, only the
\* end of the binding drops one, and then none is left behind to be claimed
\* (recovery.py:153 sweeps, "in theory there are none").
NoneLost ==
  \A d \in Seq : /\ delivery[d] = "emitted" => printed[d] > 0
                 /\ delivery[d] = "dropped" => status = "closed"
                 /\ delivery[d] = "enqueued" => status = "active"

\* Every message that was queued is printed and emitted in the end, or dropped
\* with its binding, whatever listeners die in the middle of it.
DeliverySettles ==
  \A d \in Seq : delivery[d] = "enqueued" ~> delivery[d] \in {"emitted", "dropped"}

\* Whatever listeners do to each other, the rows are a queue that is read at least once, in
\* order of delivery_seq: each claim shows a message at most once, none is marked unseen, a
\* mark is final, and a message is dropped only with its binding.
Mail == INSTANCE Mailbox WITH
          Message <- Seq, binding <- status, box <- delivery, leases <- attempts, shown <- printed
KeepsMail == Mail!Spec
=============================================================================
