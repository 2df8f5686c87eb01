--------------------------- MODULE DeliveryProofs ---------------------------
(***************************************************************************)
(* Delivery's fence and its losses, for any number of listeners, messages  *)
(* and slips.  The fence holds because an epoch never decreases, nobody is *)
(* ahead of it, and a take-over that the row has not overtaken raises it.  *)
(* Nothing is lost because every row that has begun its life knows how far *)
(* the binding has come.  A repeat needs a lapse because every print has a *)
(* claim of its own, and between two claims of a row its lease runs out.   *)
(* Types: the epoch counts the listeners that ever came to hold the        *)
(* binding, each of which comes in once, so their number bounds it.  And   *)
(* all of it together implements Mailbox.                                  *)
(***************************************************************************)
EXTENDS Delivery, FiniteSetTheorems, WellFoundedInduction, TLAPS

Pcs == {"read", "hold", "claim", "print", "emit", "exit", "dead"}

\* Nobody is ahead of the row of the binding.
Behind ==
  /\ epoch \in Nat /\ mine \in [Listener -> Nat]
  /\ pc \in [Listener -> Pcs]
  /\ \A l \in Listener : seen[l].epoch \in Nat /\ mine[l] <= epoch

FenceInv == Behind /\ OneReader

\* Between a claim and its mark the claimed row is at hand, and printed before the mark.
Held ==
  /\ pc \in [Listener -> Pcs]
  /\ \A l \in Listener : pc[l] \in {"print", "emit"} => item[l].seq \in Seq
  /\ \A l \in Listener : pc[l] = "emit" => printed[item[l].seq] > 0

\* What a row's state says of the binding.
LossInv ==
  /\ status \in {"starting", "active", "closed"}
  /\ delivery \in [Seq -> {"none", "enqueued", "leased", "emitted", "dropped"}]
  /\ printed \in [Seq -> Nat] /\ item \in [Listener -> [seq : Nat, lease : Nat]]
  /\ attempts \in [Seq -> Nat]
  /\ status = "starting" => \A d \in Seq : delivery[d] = "none"
  /\ Held /\ NoneLost

\* Who is about to print a row.
Printing(d) == {l \in Listener : pc[l] = "print" /\ item[l].seq = d}

\* Claims are counted by the leases that have ended and the one that stands.
Claims(d) == lapsed[d] + IF delivery[d] \in {"leased", "emitted"} THEN 1 ELSE 0

CountInv ==
  /\ LossInv /\ lapsed \in [Seq -> Nat]
  /\ \A d \in Seq : attempts[d] = Claims(d)
  /\ \A d \in Seq : printed[d] + Cardinality(Printing(d)) <= attempts[d]

-----------------------------------------------------------------------------
(* The fence.                                                                *)

LEMMA FenceInit == Init => FenceInv
  BY Shape DEF Init, FenceInv, Behind, OneReader, Pcs

\* The steps that move neither an epoch nor who knows it.
LEMMA FenceStill ==
  ASSUME FenceInv, UNCHANGED <<epoch, mine, seen>>, pc' \in [Listener -> Pcs]
  PROVE  FenceInv'
  BY DEF FenceInv, Behind, OneReader

LEMMA GotoTypes ==
  ASSUME pc \in [Listener -> Pcs], NEW l \in Listener, NEW where \in Pcs, Goto(l, where)
  PROVE  pc' \in [Listener -> Pcs]
  BY DEF Goto

\* A core that is given up knows no epoch.
LEMMA GiveUpFence ==
  ASSUME FenceInv, NEW l \in Listener, GiveUp(l), UNCHANGED <<epoch, seen>>
  PROVE  FenceInv'
<1>1. pc' \in [Listener -> Pcs]
  BY GotoTypes DEF GiveUp, FenceInv, Behind, Pcs
<1>2. /\ mine' \in [Listener -> Nat] /\ mine'[l] = 0
      /\ \A k \in Listener : k # l => mine'[k] = mine[k]
  BY DEF GiveUp, FenceInv, Behind
<1>3. Behind'
  BY <1>1, <1>2 DEF FenceInv, Behind
<1>4. OneReader'
  BY <1>2 DEF FenceInv, OneReader
<1> QED
  BY <1>3, <1>4 DEF FenceInv

\* The row has not moved since it was read, so nobody knows the next epoch yet.
LEMMA TakeFence == ASSUME FenceInv, NEW l \in Listener, Take(l) PROVE FenceInv'
<1>1. CASE Unmoved(l)
  <2>1. mine' = [mine EXCEPT ![l] = epoch + 1] /\ epoch' = epoch + 1 /\ UNCHANGED seen
    BY <1>1 DEF Take, Unmoved
  <2>2. pc' \in [Listener -> Pcs]
    BY <1>1, GotoTypes DEF Take, Drain, FenceInv, Behind, Pcs
  <2>3. /\ epoch' \in Nat /\ mine' \in [Listener -> Nat] /\ mine'[l] = epoch + 1
        /\ \A k \in Listener : k # l => mine'[k] = mine[k] /\ mine'[k] <= epoch
    BY <2>1 DEF FenceInv, Behind
  <2>4. Behind'
    BY <2>1, <2>2, <2>3 DEF FenceInv, Behind
  <2>5. OneReader'
    BY <2>3 DEF FenceInv, Behind, OneReader
  <2> QED
    BY <2>4, <2>5 DEF FenceInv
<1>2. CASE ~Unmoved(l)
  <2>1. pc' \in [Listener -> Pcs] /\ UNCHANGED <<epoch, mine, seen>>
    BY <1>2, GotoTypes DEF Take, FenceInv, Behind, Pcs
  <2> QED
    BY <2>1, FenceStill
<1> QED
  BY <1>1, <1>2

LEMMA StepFence == ASSUME FenceInv, NEW l \in Listener, Step(l) PROVE FenceInv'
<1>1. CASE Read(l)
  <2>1. pc' \in [Listener -> Pcs]
    BY <1>1, GotoTypes DEF Read, FenceInv, Behind, Pcs
  <2> QED
    BY <1>1, <2>1 DEF Read, row, FenceInv, Behind, OneReader
<1>2. CASE Beat(l)
  <2>1. CASE GiveUp(l)
    BY <1>2, <2>1, GiveUpFence DEF Beat
  <2>2. CASE Drain(l) /\ UNCHANGED mine
    BY <1>2, <2>2, GotoTypes, FenceStill DEF Beat, Drain, FenceInv, Behind, Pcs
  <2> QED
    BY <1>2, <2>1, <2>2 DEF Beat
<1>3. CASE Yield(l)
  <2>1. CASE GiveUp(l)
    BY <1>3, <2>1, GiveUpFence DEF Yield, row
  <2>2. CASE Goto(l, "read") /\ UNCHANGED mine
    BY <1>3, <2>2, GotoTypes, FenceStill DEF Yield, row, FenceInv, Behind, Pcs
  <2> QED
    BY <1>3, <2>1, <2>2 DEF Yield
<1>4. CASE Claim(l) \/ PrintLine(l) \/ Emit(l)
  <2>1. pc' \in [Listener -> Pcs]
    BY <1>4, GotoTypes DEF Claim, PrintLine, Emit, FenceInv, Behind, Pcs
  <2> QED
    BY <1>4, <2>1, FenceStill DEF Claim, PrintLine, Emit, row
<1> QED
  BY <1>1, <1>2, <1>3, <1>4, TakeFence DEF Step

LEMMA FenceNext == FenceInv /\ [Next]_vars => FenceInv'
<1> SUFFICES ASSUME FenceInv, [Next]_vars PROVE FenceInv'
  OBVIOUS
<1>1. ASSUME NEW l \in Listener, StepFails(l) \/ Die(l) PROVE FenceInv'
  <2>1. pc' \in [Listener -> Pcs]
    BY <1>1, GotoTypes DEF StepFails, Die, FenceInv, Behind, Pcs
  <2> QED
    BY <1>1, <2>1, FenceStill DEF StepFails, Die, row
<1>2. ASSUME (\E d \in Seq : Enqueue(d) \/ Reclaim(d)) \/ Activate \/ Terminate \/ Silence
      PROVE  FenceInv'
  BY <1>2, FenceStill DEF Enqueue, Reclaim, Activate, Terminate, Silence, row, local, FenceInv, Behind
<1>3. CASE UNCHANGED vars
  BY <1>3, FenceStill DEF vars, row, local, FenceInv, Behind
<1> QED
  BY <1>1, <1>2, <1>3, StepFence DEF Next

\* At most one listener passes the fence of an epoch, however many there are and
\* however they are started, delayed and killed.
THEOREM ReadsAlone == Spec => []OneReader
<1>1. FenceInv => OneReader
  BY DEF FenceInv
<1> QED
  BY <1>1, FenceInit, FenceNext, PTL DEF Spec

-----------------------------------------------------------------------------
(* Nothing is lost.                                                          *)

LEMMA OldestIsClaimable ==
  Claimable # {} => /\ Min(Claimable) \in Claimable
                    /\ \A e \in Claimable : Min(Claimable) <= e
<1> SUFFICES ASSUME Claimable # {}
             PROVE  Min(Claimable) \in Claimable /\ \A e \in Claimable : Min(Claimable) <= e
  OBVIOUS
<1> DEFINE R == {p \in Nat \X Nat : p[1] < p[2]}
<1>1. Claimable \subseteq Nat
  BY Shape DEF Claimable, Seq
<1>2. IsWellFoundedOn(R, Nat)
  BY NatLessThanWellFounded DEF OpToRel
<1>3. \A e, d \in Nat : e < d => <<e, d>> \in R
  OBVIOUS
<1> HIDE DEF R
<1>4. PICK d \in Claimable : \A e \in Claimable : <<e, d>> \notin R
  BY <1>1, <1>2, WFMin
<1>5. ASSUME NEW e \in Claimable PROVE d <= e
  <2>1. d \in Nat /\ e \in Nat
    BY <1>1
  <2>2. ~ (e < d)
    BY <2>1, <1>3, <1>4
  <2> QED
    BY <2>1, <2>2
<1> QED
  BY <1>5 DEF Min

LEMMA LossInit == Init => LossInv
  BY Shape DEF Init, LossInv, Held, NoneLost, Idle, Pcs, Seq

\* The steps that touch neither a delivery nor what was printed, and after
\* which their listener neither prints nor marks.
LEMMA LossStill ==
  ASSUME LossInv, UNCHANGED <<status, queue, item, printed>>,
         pc' \in [Listener -> Pcs],
         \A l \in Listener : pc'[l] \in {"print", "emit"} => pc'[l] = pc[l]
  PROVE  LossInv'
  BY DEF LossInv, Held, NoneLost, queue

\* A listener that drops what it had in hand.
LEMMA LossLetGo ==
  ASSUME LossInv, NEW l \in Listener, NEW where \in Pcs \ {"print", "emit"}, Goto(l, where),
         item' = [item EXCEPT ![l] = Idle], UNCHANGED <<status, queue, printed>>
  PROVE  LossInv'
<1>1. /\ pc' \in [Listener -> Pcs] /\ item' \in [Listener -> [seq : Nat, lease : Nat]]
      /\ pc'[l] \notin {"print", "emit"}
      /\ \A k \in Listener : k # l => pc'[k] = pc[k] /\ item'[k] = item[k]
  BY DEF Goto, LossInv, Held, Idle
<1>2. Held'
  BY <1>1 DEF LossInv, Held, queue
<1> QED
  BY <1>1, <1>2 DEF LossInv, NoneLost, queue

LEMMA ClaimLoss == ASSUME LossInv, NEW l \in Listener, Claim(l) PROVE LossInv'
<1>1. CASE Claimable # {} /\ status = "active" /\ epoch = mine[l]
  <2> DEFINE d == Min(Claimable)
  <2>1. d \in Seq /\ delivery[d] = "enqueued"
    BY <1>1, OldestIsClaimable DEF Claimable
  <2>2. /\ delivery' = [delivery EXCEPT ![d] = "leased"]
        /\ attempts' = [attempts EXCEPT ![d] = attempts[d] + 1]
        /\ item' = [item EXCEPT ![l] = [seq |-> d, lease |-> attempts[d] + 1]]
        /\ Goto(l, "print") /\ UNCHANGED <<status, printed>>
    BY <1>1 DEF Claim, row, ghost
  <2> HIDE DEF d
  <2>3. d \in Nat
    BY <2>1, Shape DEF Seq
  <2>4. /\ pc' \in [Listener -> Pcs] /\ item' \in [Listener -> [seq : Nat, lease : Nat]]
        /\ pc'[l] = "print" /\ item'[l].seq = d
        /\ \A k \in Listener : k # l => pc'[k] = pc[k] /\ item'[k] = item[k]
    BY <2>1, <2>2, <2>3 DEF Goto, LossInv, Held, Pcs
  <2>5. Held'
    BY <2>1, <2>2, <2>4 DEF LossInv, Held
  <2>6. attempts' \in [Seq -> Nat] /\ delivery' \in [Seq -> {"none", "enqueued", "leased", "emitted", "dropped"}]
    BY <2>1, <2>2 DEF LossInv
  <2>7. NoneLost'
    BY <1>1, <2>1, <2>2 DEF LossInv, NoneLost
  <2> QED
    BY <1>1, <2>2, <2>4, <2>5, <2>6, <2>7 DEF LossInv
<1>2. CASE ~(Claimable # {} /\ status = "active" /\ epoch = mine[l])
  BY <1>2, GotoTypes, LossStill DEF Claim, Goto, row, queue, ghost, LossInv, Held, Pcs
<1> QED
  BY <1>1, <1>2

LEMMA PrintLoss == ASSUME LossInv, NEW l \in Listener, PrintLine(l) PROVE LossInv'
<1>1. item[l].seq \in Seq /\ pc' \in [Listener -> Pcs] /\ pc' = [pc EXCEPT ![l] = "emit"]
  BY DEF PrintLine, Goto, LossInv, Held, Pcs
<1>2. /\ printed' \in [Seq -> Nat] /\ printed'[item[l].seq] > 0
      /\ \A d \in Seq : printed[d] > 0 => printed'[d] > 0
  BY <1>1 DEF PrintLine, LossInv
<1>3. Held'
  BY <1>1, <1>2 DEF PrintLine, LossInv, Held
<1> QED
  BY <1>1, <1>2, <1>3 DEF PrintLine, row, queue, LossInv, NoneLost

LEMMA EmitLoss == ASSUME LossInv, NEW l \in Listener, Emit(l) PROVE LossInv'
<1> DEFINE d == item[l].seq
<1>1. d \in Seq /\ printed[d] > 0
  BY DEF Emit, LossInv, Held
<1>2. CASE Leased(d, item[l].lease)
  <2>1. /\ delivery' = [delivery EXCEPT ![d] = "emitted"] /\ delivery[d] = "leased"
        /\ item' = [item EXCEPT ![l] = Idle] /\ Goto(l, "claim")
        /\ UNCHANGED <<status, attempts, printed>>
    BY <1>2 DEF Emit, Leased, row, ghost
  <2>2. /\ pc' \in [Listener -> Pcs] /\ item' \in [Listener -> [seq : Nat, lease : Nat]]
        /\ pc'[l] = "claim"
        /\ \A k \in Listener : k # l => pc'[k] = pc[k] /\ item'[k] = item[k]
    BY <2>1 DEF Goto, LossInv, Held, Idle, Pcs
  <2>3. Held'
    BY <2>1, <2>2 DEF LossInv, Held
  <2> HIDE DEF d
  <2>4. delivery' \in [Seq -> {"none", "enqueued", "leased", "emitted", "dropped"}]
    BY <1>1, <2>1 DEF LossInv
  <2>5. NoneLost' /\ status # "starting"
    BY <1>1, <2>1 DEF LossInv, NoneLost
  <2> QED
    BY <2>1, <2>2, <2>3, <2>4, <2>5 DEF LossInv
<1>3. CASE ~Leased(d, item[l].lease)
  BY <1>3, LossLetGo DEF Emit, row, queue, ghost, Pcs
<1> QED
  BY <1>2, <1>3

LEMMA StepLoss == ASSUME LossInv, NEW l \in Listener, Step(l) PROVE LossInv'
<1>1. CASE Read(l) \/ Beat(l) \/ Take(l) \/ Yield(l)
  <2>1. PICK where \in {"read", "hold", "claim", "exit"} : Goto(l, where)
    BY <1>1 DEF Read, Beat, Take, Yield, Drain, GiveUp
  <2>2. /\ pc' \in [Listener -> Pcs]
        /\ \A k \in Listener : pc'[k] \in {"print", "emit"} => pc'[k] = pc[k]
    BY <2>1 DEF Goto, LossInv, Held, Pcs
  <2>3. UNCHANGED <<status, queue, item, printed>>
    BY <1>1 DEF Read, Beat, Take, Yield, row, ghost
  <2> QED
    BY <2>2, <2>3, LossStill
<1> QED
  BY <1>1, ClaimLoss, PrintLoss, EmitLoss DEF Step

\* The steps of the daemon: no listener has a hand in them.
LEMMA QueueLoss ==
  ASSUME LossInv, UNCHANGED <<attempts, pc, item, printed>>,
         status' \in {"starting", "active", "closed"},
         delivery' \in [Seq -> {"none", "enqueued", "leased", "emitted", "dropped"}],
         status' = "starting" => \A d \in Seq : delivery'[d] = "none",
         NoneLost'
  PROVE  LossInv'
  BY DEF LossInv, Held

LEMMA LossNext == LossInv /\ [Next]_vars => LossInv'
<1> SUFFICES ASSUME LossInv, [Next]_vars PROVE LossInv'
  OBVIOUS
<1>1. ASSUME NEW l \in Listener, StepFails(l) \/ Die(l) PROVE LossInv'
  BY <1>1, LossLetGo DEF StepFails, Die, row, queue, ghost, Pcs
<1>2. ASSUME NEW d \in Seq, Enqueue(d) PROVE LossInv'
  <2>1. delivery' = [delivery EXCEPT ![d] = "enqueued"] /\ status = "active"
        /\ UNCHANGED <<status, attempts, pc, item, printed>>
    BY <1>2 DEF Enqueue, row, local, ghost
  <2> QED
    BY <2>1, QueueLoss DEF LossInv, NoneLost
<1>3. ASSUME NEW d \in Seq, Reclaim(d) PROVE LossInv'
  <2>1. delivery' = [delivery EXCEPT ![d] = TakeBack(d)] /\ delivery[d] = "leased"
        /\ UNCHANGED <<status, attempts, pc, item, printed>>
    BY <1>3 DEF Reclaim, row, local
  <2>2. status # "starting"
    BY <2>1 DEF LossInv
  <2> QED
    BY <2>1, <2>2, QueueLoss DEF LossInv, NoneLost, TakeBack
<1>4. CASE Activate
  BY <1>4, QueueLoss DEF Activate, LossInv, NoneLost, queue, local, ghost
<1>5. CASE Terminate
  <2>1. /\ delivery' = [d \in Seq |-> IF delivery[d] = "enqueued" THEN "dropped" ELSE delivery[d]]
        /\ status' = "closed" /\ UNCHANGED <<attempts, pc, item, printed>>
    BY <1>5 DEF Terminate, local, ghost
  <2> QED
    BY <2>1, QueueLoss DEF LossInv, NoneLost
<1>6. CASE Silence \/ UNCHANGED vars
  BY <1>6, QueueLoss DEF Silence, vars, row, queue, local, ghost, LossInv, NoneLost
<1> QED
  BY <1>1, <1>2, <1>3, <1>4, <1>5, <1>6, StepLoss DEF Next

\* No message of a live binding is lost, for any number of listeners and messages:
\* what is marked was printed, and what is dropped went with its binding.
THEOREM NothingLost == Spec => []NoneLost
<1>1. LossInv => NoneLost
  BY DEF LossInv
<1> QED
  BY <1>1, LossInit, LossNext, PTL DEF Spec
-----------------------------------------------------------------------------
(* A repeat needs a lapse.                                                   *)

LEMMA PrintingFinite ==
  \A d : IsFiniteSet(Printing(d)) /\ Cardinality(Printing(d)) \in Nat
<1> TAKE d
<1>1. Printing(d) \subseteq Listener
  BY DEF Printing
<1> QED
  BY <1>1, Shape, FS_Subset, FS_CardinalityType

LEMMA CountInit == Init => CountInv
<1> SUFFICES ASSUME Init PROVE CountInv
  OBVIOUS
<1>1. \A d \in Seq : Cardinality(Printing(d)) = 0
  <2> TAKE d \in Seq
  <2>1. Printing(d) = {}
    BY DEF Init, Printing
  <2> QED
    BY <2>1, FS_EmptySet
<1> QED
  BY <1>1, LossInit DEF Init, CountInv, Claims

\* The steps after which nobody is about to print who was not before.
LEMMA CountStill ==
  ASSUME CountInv, LossInv', UNCHANGED <<attempts, printed>>, lapsed' \in [Seq -> Nat],
         \A d \in Seq : Claims(d)' = Claims(d),
         \A l \in Listener : pc'[l] = "print" => pc[l] = "print" /\ item'[l] = item[l]
  PROVE  CountInv'
<1>1. ASSUME NEW d \in Seq PROVE printed'[d] + Cardinality(Printing(d)') <= attempts'[d]
  <2>1. Printing(d)' \subseteq Printing(d)
    BY DEF Printing
  <2>2. Cardinality(Printing(d)') \in Nat /\ Cardinality(Printing(d)') <= Cardinality(Printing(d))
    BY <2>1, PrintingFinite, FS_Subset, FS_CardinalityType
  <2> QED
    BY <2>2, PrintingFinite DEF CountInv, LossInv
<1> QED
  BY <1>1 DEF CountInv

LEMMA ClaimCount == ASSUME CountInv, NEW l \in Listener, Claim(l) PROVE CountInv'
<1>1. LossInv'
  BY ClaimLoss DEF CountInv
<1>2. CASE Claimable # {} /\ status = "active" /\ epoch = mine[l]
  <2> DEFINE d == Min(Claimable)
  <2>1. d \in Seq /\ delivery[d] = "enqueued"
    BY <1>2, OldestIsClaimable DEF Claimable
  <2>2. /\ delivery' = [delivery EXCEPT ![d] = "leased"]
        /\ attempts' = [attempts EXCEPT ![d] = attempts[d] + 1]
        /\ item' = [item EXCEPT ![l] = [seq |-> d, lease |-> attempts[d] + 1]]
        /\ pc[l] = "claim" /\ pc' = [pc EXCEPT ![l] = "print"] /\ UNCHANGED <<printed, lapsed>>
    BY <1>2 DEF Claim, Goto, ghost
  <2> HIDE DEF d
  <2>3. \A e \in Seq : attempts'[e] = Claims(e)'
    BY <2>1, <2>2 DEF CountInv, LossInv, Claims
  <2>4. ASSUME NEW e \in Seq PROVE printed'[e] + Cardinality(Printing(e)') <= attempts'[e]
    <3>1. CASE e = d
      <4>1. Printing(e)' = Printing(e) \cup {l} /\ l \notin Printing(e)
        BY <2>2, <3>1 DEF Printing, CountInv, LossInv, Held
      <4>2. Cardinality(Printing(e)') = Cardinality(Printing(e)) + 1
        BY <4>1, PrintingFinite, FS_AddElement
      <4> QED
        BY <2>1, <2>2, <3>1, <4>2, PrintingFinite DEF CountInv, LossInv
    <3>2. CASE e # d
      <4>1. Printing(e)' = Printing(e)
        BY <2>2, <3>2 DEF Printing, CountInv, LossInv, Held
      <4> QED
        BY <2>1, <2>2, <3>2, <4>1 DEF CountInv, LossInv
    <3> QED
      BY <3>1, <3>2
  <2> QED
    BY <1>1, <2>2, <2>3, <2>4 DEF CountInv
<1>3. CASE ~(Claimable # {} /\ status = "active" /\ epoch = mine[l])
  <2>1. /\ UNCHANGED <<queue, item, ghost>>
        /\ \A k \in Listener : pc'[k] = "print" => pc[k] = "print"
    BY <1>3 DEF Claim, Goto, CountInv, LossInv, Held
  <2> QED
    BY <1>1, <2>1, CountStill DEF queue, ghost, Claims, CountInv
<1> QED
  BY <1>2, <1>3

LEMMA PrintCount == ASSUME CountInv, NEW l \in Listener, PrintLine(l) PROVE CountInv'
<1> DEFINE d == item[l].seq
<1>1. LossInv'
  BY PrintLoss DEF CountInv
<1>2. /\ d \in Seq /\ printed' = [printed EXCEPT ![d] = printed[d] + 1]
      /\ pc[l] = "print" /\ pc' = [pc EXCEPT ![l] = "emit"] /\ UNCHANGED <<delivery, attempts, item, lapsed>>
  BY DEF PrintLine, Goto, queue, CountInv, LossInv, Held
<1>3. ASSUME NEW e \in Seq PROVE printed'[e] + Cardinality(Printing(e)') <= attempts'[e]
  <2>1. CASE e = d
    <3>1. Printing(e)' = Printing(e) \ {l} /\ l \in Printing(e)
      BY <1>2, <2>1 DEF Printing, CountInv, LossInv, Held
    <3>2. Cardinality(Printing(e)') = Cardinality(Printing(e)) - 1
      BY <3>1, PrintingFinite, FS_RemoveElement
    <3> QED
      BY <1>2, <2>1, <3>2, PrintingFinite DEF CountInv, LossInv
  <2>2. CASE e # d
    <3>1. Printing(e)' = Printing(e)
      BY <1>2, <2>2 DEF Printing, CountInv, LossInv, Held
    <3> QED
      BY <1>2, <2>2, <3>1 DEF CountInv, LossInv
  <2> QED
    BY <2>1, <2>2
<1> QED
  BY <1>1, <1>2, <1>3 DEF CountInv, Claims

\* The other steps of a listener: a mark keeps the claim that it marks.
LEMMA StepCount ==
  ASSUME CountInv, LossInv', NEW l \in Listener, Step(l) \/ StepFails(l) \/ Die(l)
  PROVE  CountInv'
<1>1. CASE Emit(l)
  <2>1. UNCHANGED <<attempts, printed, lapsed>>
    BY <1>1 DEF Emit, ghost
  <2>2. \A k \in Listener : pc'[k] = "print" => pc[k] = "print" /\ item'[k] = item[k]
    BY <1>1 DEF Emit, Goto, CountInv, LossInv, Held
  <2>3. item[l].seq \in Seq
    BY <1>1 DEF Emit, CountInv, LossInv, Held
  <2>4. \A d \in Seq : Claims(d)' = Claims(d)
    BY <1>1, <2>1, <2>3 DEF Emit, Leased, Claims, CountInv, LossInv
  <2> QED
    BY <2>1, <2>2, <2>4, CountStill DEF CountInv
<1>2. CASE Read(l) \/ Beat(l) \/ Take(l) \/ Yield(l) \/ StepFails(l) \/ Die(l)
  <2>1. UNCHANGED <<delivery, attempts, printed, lapsed>>
    BY <1>2 DEF Read, Beat, Take, Yield, StepFails, Die, queue, ghost
  <2>2. \E where \in Pcs \ {"print"} : Goto(l, where)
    BY <1>2 DEF Read, Beat, Take, Yield, StepFails, Die, Drain, GiveUp, Pcs
  <2>3. UNCHANGED item \/ item' = [item EXCEPT ![l] = Idle]
    BY <1>2 DEF Read, Beat, Take, Yield, StepFails, Die
  <2>4. \A k \in Listener : pc'[k] = "print" => pc[k] = "print" /\ item'[k] = item[k]
    BY <2>2, <2>3 DEF Goto, CountInv, LossInv, Held
  <2> QED
    BY <2>1, <2>4, CountStill DEF CountInv, Claims
<1> QED
  BY <1>1, <1>2, ClaimCount, PrintCount DEF Step

\* A lease that runs out was the one that stood.
LEMMA ReclaimCount == ASSUME CountInv, LossInv', NEW d \in Seq, Reclaim(d) PROVE CountInv'
<1>1. /\ delivery' = [delivery EXCEPT ![d] = TakeBack(d)] /\ delivery[d] = "leased"
      /\ lapsed' = [lapsed EXCEPT ![d] = lapsed[d] + 1] /\ UNCHANGED <<attempts, pc, item, printed>>
  BY DEF Reclaim, local
<1>2. TakeBack(d) \notin {"leased", "emitted"} /\ lapsed' \in [Seq -> Nat]
  BY <1>1 DEF TakeBack, CountInv
<1>3. \A e \in Seq : Claims(e)' = Claims(e)
  BY <1>1, <1>2 DEF Claims, CountInv, LossInv
<1> QED
  BY <1>1, <1>2, <1>3, CountStill

LEMMA CountNext == CountInv /\ [Next]_vars => CountInv'
<1> SUFFICES ASSUME CountInv, [Next]_vars PROVE CountInv'
  OBVIOUS
<1>1. LossInv'
  BY LossNext DEF CountInv
<1>2. CASE (\E d \in Seq : Enqueue(d)) \/ Activate \/ Terminate \/ Silence \/ UNCHANGED vars
  <2>1. UNCHANGED <<attempts, printed, lapsed, pc, item>>
    BY <1>2 DEF Enqueue, Activate, Terminate, Silence, vars, queue, local, ghost
  <2>2. \A d \in Seq : delivery'[d] = delivery[d] \/ {delivery[d], delivery'[d]} \cap {"leased", "emitted"} = {}
    BY <1>2 DEF Enqueue, Activate, Terminate, Silence, vars, queue, CountInv, LossInv
  <2>3. \A d \in Seq : Claims(d)' = Claims(d)
    BY <2>1, <2>2 DEF Claims
  <2> QED
    BY <1>1, <2>1, <2>3, CountStill DEF CountInv
<1> QED
  BY <1>1, <1>2, StepCount, ReclaimCount DEF Next

\* However many listeners claim, print, fail and die: a message is printed at most
\* once more than a lease on it has run out.
THEOREM RepeatsAreCounted == Spec => []RepeatNeedsLapse
<1>1. CountInv => RepeatNeedsLapse
  <2> SUFFICES ASSUME CountInv, NEW d \in Seq PROVE printed[d] <= 1 + lapsed[d]
    BY DEF RepeatNeedsLapse
  <2>1. attempts[d] <= 1 + lapsed[d]
    BY DEF CountInv, Claims
  <2> QED
    BY <2>1, PrintingFinite DEF CountInv, LossInv
<1> QED
  BY <1>1, CountInit, CountNext, PTL DEF Spec

-----------------------------------------------------------------------------
(* The types, and how far the epoch can go: a listener comes into the         *)
(* binding once, and remembers its epoch until it dies.                       *)

\* The listeners that came to hold the binding.
Came == {l \in Listener : mine[l] # 0}

\* Who came and lives holds the binding, and has not forgotten it since it looked.
InOffice(l) ==
  pc[l] # "dead" /\ mine[l] # 0 =>
    /\ holder = l /\ epoch = mine[l]
    /\ pc[l] = "hold" => seen[l].holder = l /\ seen[l].epoch = mine[l]

\* What a listener has at hand is what it has claimed.
AtHand(l) == IF pc[l] \in {"print", "emit"} THEN item[l].seq \in Seq ELSE item[l] = Idle

TermInv ==
  /\ FenceInv /\ LossInv
  /\ holder \in Listener \cup {None} /\ fresh \in BOOLEAN /\ slips \in 0..MaxSlips
  /\ seen \in [Listener -> [status : {"starting", "active", "closed"}, epoch : Nat,
                            holder : Listener \cup {None}, fresh : BOOLEAN]]
  /\ epoch = Cardinality(Came)
  /\ \A l \in Listener : InOffice(l) /\ AtHand(l)

\* What a step leaves alone when it neither looks at the row nor takes the binding.
NoTerm == UNCHANGED <<epoch, holder, mine, seen>>

LEMMA TermInit == Init => TermInv
<1> SUFFICES ASSUME Init PROVE TermInv
  OBVIOUS
<1>1. FenceInv /\ LossInv
  BY FenceInit, LossInit
<1>2. Came = {}
  BY DEF Init, Came
<1>3. epoch = Cardinality(Came)
  BY <1>2, FS_EmptySet DEF Init
<1>4. seen \in [Listener -> [status : {"starting", "active", "closed"}, epoch : Nat,
                            holder : Listener \cup {None}, fresh : BOOLEAN]]
  BY DEF Init
<1>5. \A l \in Listener : pc[l] = "read" /\ mine[l] = 0 /\ item[l] = Idle
  BY DEF Init
<1>6. holder = None /\ fresh = FALSE /\ slips \in 0..MaxSlips
  BY Shape DEF Init
<1> QED
  BY <1>1, <1>3, <1>4, <1>5, <1>6 DEF TermInv, InOffice, AtHand

LEMMA TermStill ==
  ASSUME TermInv, FenceInv', LossInv', NoTerm, fresh' \in BOOLEAN, slips' \in 0..MaxSlips,
         \A l \in Listener : /\ pc'[l] = "dead" \/ pc[l] # "dead"
                             /\ pc'[l] = "hold" => pc[l] = "hold"
                             /\ AtHand(l)'
  PROVE  TermInv'
<1>1. Came' = Came
  BY DEF NoTerm, Came
<1>2. \A l \in Listener : InOffice(l)'
  BY DEF TermInv, NoTerm, InOffice
<1> QED
  BY <1>1, <1>2 DEF TermInv, NoTerm

\* Nobody gives up a binding it holds.
LEMMA GiveUpIsIdle ==
  ASSUME TermInv, NEW l \in Listener, pc[l] = "hold", GiveUp(l), IsMine(l) => epoch # mine[l]
  PROVE  mine' = mine
<1>1. mine[l] = 0
  BY DEF TermInv, InOffice, IsMine
<1> QED
  BY <1>1 DEF GiveUp, TermInv, FenceInv, Behind

\* A step of one listener: where the others are, and what they have at hand.
LEMMA OthersAtHand ==
  ASSUME TermInv, NEW l \in Listener, NEW where \in Pcs, Goto(l, where),
         item' \in [Listener -> [seq : Nat, lease : Nat]], \A k \in Listener : k # l => item'[k] = item[k],
         IF where \in {"print", "emit"} THEN item'[l].seq \in Seq ELSE item'[l] = Idle
  PROVE  /\ \A k \in Listener : AtHand(k)'
         /\ pc'[l] = where /\ \A k \in Listener : k # l => pc'[k] = pc[k]
<1>1. pc'[l] = where /\ \A k \in Listener : k # l => pc'[k] = pc[k]
  BY DEF Goto, TermInv, FenceInv, Behind
<1> QED
  BY <1>1 DEF TermInv, AtHand, Idle

LEMMA TakeTerm == ASSUME TermInv, FenceInv', LossInv', NEW l \in Listener, Take(l) PROVE TermInv'
<1>1. /\ pc[l] = "hold" /\ ~IsMine(l) /\ MayTake(l) /\ UNCHANGED <<status, queue, seen, item, ghost, slips>>
      /\ item' = item /\ item[l] = Idle /\ item \in [Listener -> [seq : Nat, lease : Nat]]
  BY DEF Take, local, TermInv, AtHand, LossInv
<1>2. mine[l] = 0
  BY <1>1 DEF TermInv, InOffice, IsMine
<1>3. CASE Unmoved(l)
  <2>1. /\ holder' = l /\ epoch' = epoch + 1 /\ fresh' = TRUE /\ mine' = [mine EXCEPT ![l] = epoch + 1] /\ Drain(l)
        /\ epoch = seen[l].epoch /\ holder = seen[l].holder
    BY <1>3 DEF Take, Unmoved
  <2>2. PICK where \in {"claim", "read"} : Goto(l, where)
    BY <2>1 DEF Drain
  <2>3. (\A k \in Listener : AtHand(k)') /\ pc'[l] = where /\ \A k \in Listener : k # l => pc'[k] = pc[k]
    BY <1>1, <2>2, OthersAtHand DEF Pcs
  <2>4. /\ epoch \in Nat /\ mine'[l] = epoch + 1
        /\ \A k \in Listener : k # l => mine'[k] = mine[k]
    BY <2>1 DEF TermInv, FenceInv, Behind
  <2>5. \A k \in Listener : InOffice(k)'
    <3> SUFFICES ASSUME NEW k \in Listener, pc'[k] # "dead", mine'[k] # 0, k # l PROVE FALSE
      BY <2>1, <2>2, <2>3, <2>4 DEF InOffice
    <3>1. holder = k /\ pc[k] # "dead"
      BY <2>3, <2>4 DEF TermInv, InOffice
    <3> QED
      BY <1>1, <2>1, <3>1, Shape DEF MayTake
  <2>6. epoch' = Cardinality(Came')
    <3>1. Came' = Came \cup {l}
      BY <2>4 DEF Came
    <3>2. IsFiniteSet(Came) /\ l \notin Came
      BY <1>2, Shape, FS_Subset DEF Came
    <3>3. Cardinality(Came \cup {l}) = Cardinality(Came) + 1
      BY <3>2, FS_AddElement
    <3> QED
      BY <2>1, <3>1, <3>3 DEF TermInv
  <2> QED
    BY <1>1, <2>1, <2>3, <2>5, <2>6 DEF TermInv
<1>4. CASE ~Unmoved(l)
  <2>1. Goto(l, "read") /\ NoTerm /\ fresh' = fresh /\ slips' = slips
    BY <1>1, <1>4 DEF Take, NoTerm
  <2>2. (\A k \in Listener : AtHand(k)') /\ pc'[l] = "read" /\ \A k \in Listener : k # l => pc'[k] = pc[k]
    BY <1>1, <2>1, OthersAtHand DEF Pcs
  <2> QED
    BY <1>1, <2>1, <2>2, TermStill DEF TermInv
<1> QED
  BY <1>3, <1>4

\* What a listener reads of a binding it holds is that it holds it.
LEMMA ReadTerm == ASSUME TermInv, FenceInv', LossInv', NEW l \in Listener, Read(l) PROVE TermInv'
<1>1. /\ pc[l] = "read" /\ UNCHANGED <<row, queue, mine, item, ghost, slips>>
      /\ seen' = [seen EXCEPT ![l] = [status |-> status, epoch |-> epoch, holder |-> holder, fresh |-> fresh]]
  BY DEF Read
<1>2. PICK where \in {"hold", "exit"} : Goto(l, where)
  BY DEF Read
<1>3. item' = item /\ item[l] = Idle /\ item \in [Listener -> [seq : Nat, lease : Nat]]
  BY <1>1 DEF TermInv, AtHand, LossInv
<1>4. (\A k \in Listener : AtHand(k)') /\ pc'[l] = where /\ \A k \in Listener : k # l => pc'[k] = pc[k]
  BY <1>2, <1>3, OthersAtHand DEF Pcs
<1>5. UNCHANGED <<epoch, holder, fresh, mine, slips>> /\ Came' = Came
  BY <1>1 DEF row, Came
<1>6. seen' \in [Listener -> [status : {"starting", "active", "closed"}, epoch : Nat,
                              holder : Listener \cup {None}, fresh : BOOLEAN]]
  BY <1>1 DEF TermInv, LossInv, FenceInv, Behind
<1>7. seen'[l].holder = holder /\ seen'[l].epoch = epoch /\ \A k \in Listener : k # l => seen'[k] = seen[k]
  BY <1>1 DEF TermInv
<1>8. \A k \in Listener : InOffice(k)'
  BY <1>1, <1>4, <1>5, <1>7 DEF TermInv, InOffice
<1> QED
  BY <1>4, <1>5, <1>6, <1>8 DEF TermInv

LEMMA PassTerm ==
  ASSUME TermInv, FenceInv', LossInv', NEW l \in Listener, Beat(l) \/ Yield(l)
  PROVE  TermInv'
<1>1. /\ pc[l] = "hold" /\ UNCHANGED <<epoch, holder, seen, item, slips>> /\ fresh' \in BOOLEAN
      /\ item[l] = Idle /\ item \in [Listener -> [seq : Nat, lease : Nat]]
  BY DEF Beat, Yield, row, TermInv, AtHand, LossInv
<1>2. mine' = mine
  BY <1>1, GiveUpIsIdle DEF Beat, Yield, IsMine
<1>3. PICK where \in {"claim", "read"} : Goto(l, where)
  BY DEF Beat, Yield, GiveUp, Drain
<1>4. (\A k \in Listener : AtHand(k)') /\ pc'[l] = where /\ \A k \in Listener : k # l => pc'[k] = pc[k]
  BY <1>1, <1>3, OthersAtHand DEF Pcs
<1> QED
  BY <1>1, <1>2, <1>4, TermStill DEF NoTerm, TermInv

\* Claiming, printing, marking, failing and dying.
LEMMA WorkTerm ==
  ASSUME TermInv, FenceInv', LossInv', NEW l \in Listener,
         Claim(l) \/ PrintLine(l) \/ Emit(l) \/ StepFails(l) \/ Die(l)
  PROVE  TermInv'
<1>1. NoTerm /\ fresh' = fresh /\ slips' \in 0..MaxSlips /\ pc[l] # "dead"
  BY Shape DEF Claim, PrintLine, Emit, StepFails, Die, NoTerm, row, TermInv
<1>2. item' \in [Listener -> [seq : Nat, lease : Nat]]
  BY DEF LossInv
<1>3. PICK where \in Pcs \ {"hold"} :
        /\ Goto(l, where) /\ \A k \in Listener : k # l => item'[k] = item[k]
        /\ IF where \in {"print", "emit"} THEN item'[l].seq \in Seq ELSE item'[l] = Idle
  <2> USE DEF TermInv, LossInv, AtHand, Pcs
  <2>1. CASE Claim(l)
    <3>1. CASE Claimable # {} /\ status = "active" /\ epoch = mine[l]
      <4>1. PICK d \in Claimable : d = Min(Claimable)
        BY <3>1, OldestIsClaimable
      <4>2. item' = [item EXCEPT ![l] = [seq |-> d, lease |-> attempts[d] + 1]] /\ Goto(l, "print") /\ d \in Seq
        BY <2>1, <3>1, <4>1 DEF Claim, Claimable
      <4> QED
        BY <4>2
    <3> QED
      BY <2>1, <3>1 DEF Claim
  <2>2. CASE PrintLine(l)
    BY <2>2 DEF PrintLine
  <2>3. CASE Emit(l)
    BY <2>3 DEF Emit
  <2>4. CASE StepFails(l) \/ Die(l)
    BY <2>4 DEF StepFails, Die
  <2> QED
    BY <2>1, <2>2, <2>3, <2>4
<1>4. (\A k \in Listener : AtHand(k)') /\ pc'[l] = where /\ \A k \in Listener : k # l => pc'[k] = pc[k]
  BY <1>2, <1>3, OthersAtHand
<1> QED
  BY <1>1, <1>4, TermStill DEF TermInv

LEMMA TermNext == TermInv /\ FenceInv' /\ LossInv' /\ [Next]_vars => TermInv'
<1> SUFFICES ASSUME TermInv, FenceInv', LossInv', [Next]_vars PROVE TermInv'
  OBVIOUS
<1>1. ASSUME NEW l \in Listener, Step(l) \/ StepFails(l) \/ Die(l) PROVE TermInv'
  BY <1>1, TakeTerm, ReadTerm, PassTerm, WorkTerm DEF Step
<1>2. ASSUME (\E d \in Seq : Enqueue(d) \/ Reclaim(d)) \/ Activate \/ Terminate \/ Silence
      PROVE  TermInv'
  <2>1. NoTerm /\ fresh' \in BOOLEAN /\ pc' = pc /\ item' = item
    BY <1>2 DEF Enqueue, Reclaim, Activate, Terminate, Silence, row, local, NoTerm, TermInv
  <2>2. slips' \in 0..MaxSlips
    BY <1>2, Shape DEF Enqueue, Reclaim, Activate, Terminate, Silence, TermInv
  <2> QED
    BY <2>1, <2>2, TermStill DEF TermInv, AtHand
<1>3. CASE UNCHANGED vars
  <2>1. NoTerm /\ fresh' = fresh /\ pc' = pc /\ item' = item /\ slips' = slips
    BY <1>3 DEF vars, row, local, NoTerm
  <2> QED
    BY <2>1, TermStill DEF TermInv, AtHand
<1> QED
  BY <1>1, <1>2, <1>3 DEF Next

\* The types; above all, the epoch counts listeners: however often a binding changes
\* hands, it is held by every process once at most (listener_core.py, _takeover).
THEOREM DeliveryTyped == Spec => []TypeOK
<1>1. TermInv => TypeOK
  <2> SUFFICES ASSUME TermInv PROVE TypeOK
    OBVIOUS
  <2>1. Came \subseteq Listener /\ IsFiniteSet(Listener)
    BY Shape DEF Came
  <2>2. Cardinality(Came) <= Cardinality(Listener) /\ Cardinality(Listener) \in Nat
    BY <2>1, FS_Subset, FS_CardinalityType
  <2>3. epoch \in 0..Cardinality(Listener) /\ mine \in [Listener -> 0..Cardinality(Listener)]
    BY <2>2 DEF TermInv, FenceInv, Behind
  <2> QED
    BY <2>3 DEF TypeOK, TermInv, FenceInv, Behind, LossInv, AtHand, Pcs
<1> QED
  BY <1>1, FenceInit, FenceNext, LossInit, LossNext, TermInit, TermNext, PTL DEF Spec

-----------------------------------------------------------------------------
(* The queue that the listeners and the daemon make up between them.         *)

LEMMA ClaimMailed == ASSUME LossInv, NEW l \in Listener, Claim(l) PROVE [Mail!Next]_(Mail!vars)
<1>1. CASE Claimable # {} /\ status = "active" /\ epoch = mine[l]
  <2> DEFINE d == Min(Claimable)
  <2>1. d \in Claimable /\ \A e \in Claimable : d <= e
    BY <1>1, OldestIsClaimable
  <2>2. /\ delivery' = [delivery EXCEPT ![d] = "leased"] /\ UNCHANGED <<status, printed>>
        /\ attempts' = [attempts EXCEPT ![d] = @ + 1]
    BY <1>1 DEF Claim, row, ghost
  <2> HIDE DEF d
  <2>3. d \in Seq /\ delivery[d] = "enqueued" /\ \A e \in Seq : e < d => delivery[e] # "enqueued"
    BY <2>1, Shape DEF Claimable, Seq
  <2>4. Mail!Lease(d)
    BY <1>1, <2>2, <2>3 DEF Mail!Lease
  <2> QED
    BY <2>3, <2>4 DEF Mail!Next
<1>2. CASE ~(Claimable # {} /\ status = "active" /\ epoch = mine[l])
  BY <1>2 DEF Claim, row, queue, ghost, Mail!vars
<1> QED
  BY <1>1, <1>2

\* Whoever is about to print has a claim that was not printed yet.
LEMMA PrintMailed == ASSUME CountInv, NEW l \in Listener, PrintLine(l) PROVE Mail!Next
<1> DEFINE d == item[l].seq
<1>1. d \in Seq /\ l \in Printing(d)
  BY DEF PrintLine, CountInv, LossInv, Held, Printing
<1>2. printed' = [printed EXCEPT ![d] = @ + 1] /\ UNCHANGED <<status, delivery, attempts>>
  BY DEF PrintLine, row, queue
<1> HIDE DEF d
<1>3. Cardinality(Printing(d)) \in Nat /\ Cardinality(Printing(d)) # 0
  BY <1>1, PrintingFinite, FS_EmptySet
<1>4. printed[d] < attempts[d]
  BY <1>1, <1>3 DEF CountInv, LossInv
<1>5. Mail!Show(d)
  BY <1>2, <1>4 DEF Mail!Show
<1> QED
  BY <1>1, <1>5 DEF Mail!Next

LEMMA EmitMailed == ASSUME LossInv, NEW l \in Listener, Emit(l) PROVE [Mail!Next]_(Mail!vars)
<1> DEFINE d == item[l].seq
<1>1. d \in Seq /\ printed[d] > 0 /\ UNCHANGED <<status, attempts, printed>>
  BY DEF Emit, LossInv, Held, row, ghost
<1>2. CASE Leased(d, item[l].lease)
  <2>1. Mail!Settle(d)
    BY <1>1, <1>2 DEF Emit, Leased, Mail!Settle
  <2> QED
    BY <1>1, <2>1 DEF Mail!Next
<1>3. CASE ~Leased(d, item[l].lease)
  BY <1>1, <1>3 DEF Emit, Mail!vars
<1> QED
  BY <1>2, <1>3

LEMMA DaemonMailed ==
  ASSUME LossInv, Activate \/ Terminate \/ \E d \in Seq : Enqueue(d) \/ Reclaim(d)
  PROVE  Mail!Next
<1>1. CASE Activate
  BY <1>1 DEF Activate, queue, ghost, Mail!Next, Mail!Open
<1>2. CASE Terminate
  BY <1>2 DEF Terminate, Live, ghost, Mail!Next, Mail!Close
<1>3. ASSUME NEW d \in Seq, Enqueue(d) PROVE Mail!Accept(d)
  <2>1. \A e \in Seq : e < d => delivery[e] # "none"
    BY <1>3, Shape DEF Enqueue, Seq
  <2> QED
    BY <1>3, <2>1 DEF Enqueue, row, ghost, Mail!Accept
<1>4. ASSUME NEW d \in Seq, Reclaim(d) PROVE Mail!Lapse(d)
  BY <1>4 DEF Reclaim, TakeBack, row, Mail!Lapse
<1> QED
  BY <1>1, <1>2, <1>3, <1>4 DEF Mail!Next

LEMMA StepMailed == ASSUME CountInv, [Next]_vars PROVE [Mail!Next]_(Mail!vars)
<1>1. LossInv
  BY DEF CountInv
<1>2. ASSUME NEW l \in Listener, Read(l) \/ Beat(l) \/ Take(l) \/ Yield(l) \/ StepFails(l) \/ Die(l)
      PROVE  UNCHANGED Mail!vars
  BY <1>2 DEF Read, Beat, Take, Yield, StepFails, Die, row, queue, ghost, Mail!vars
<1>3. CASE Silence \/ UNCHANGED vars
  BY <1>3 DEF Silence, vars, row, queue, ghost, Mail!vars
<1> QED
  BY <1>1, <1>2, <1>3, ClaimMailed, PrintMailed, EmitMailed, DaemonMailed DEF Next, Step

\* Listeners that are started twice, killed and fooled by old reads, and a daemon that takes
\* leases back under them, implement a queue that is read at least once, oldest first.
THEOREM MailIsKept == Spec => KeepsMail
<1>1. Init => Mail!Init
  BY DEF Init, Mail!Init
<1>2. CountInv /\ [Next]_vars => [Mail!Next]_(Mail!vars)
  BY StepMailed
<1> QED
  BY <1>1, <1>2, CountInit, CountNext, PTL DEF Spec, Mail!Spec, KeepsMail
=============================================================================
