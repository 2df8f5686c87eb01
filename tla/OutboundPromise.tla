-------------------------- MODULE OutboundPromise --------------------------
(***************************************************************************)
(* What a reader of the chat may rely on, for every number of rows, every  *)
(* bound and every environment.  OutboundVerdicts says what the verdicts   *)
(* mean.  Here: a row only moves onward, so a verdict is final and the     *)
(* state machine implements Outbox; rows keep their order and every loss   *)
(* has its alert (OrderInv); nothing of a closed binding goes on the wire; *)
(* and the copies of a message have one form (FormInv).                    *)
(***************************************************************************)
EXTENDS OutboundVerdicts, FiniteSetTheorems

USE DEF Job, Post, Blind, Update, Turn, Notice, Told, Open, Terminal, Waiting, Refusals

\* A row appears as pending, does not disappear, and keeps its verdict.
Onward(k) == /\ st[k] \in Terminal => st'[k] = st[k]
             /\ st[k] = "none" => st'[k] \in {"none", "pending"}
             /\ st[k] \in Open => st'[k] \in Open \cup Terminal

LEMMA SettleOnward ==
  ASSUME TypeInv, NEW j \in Job, NEW v \in Terminal, Settle(j, v), st[j] \in Open
  PROVE  \A k \in Job : Onward(k)
<1>1. /\ st'[j] = v
      /\ \A k \in Job \ {j} : \/ st'[k] = st[k]
                              \/ st[k] = "pending" /\ st'[k] = "cancelled"
                              \/ st[k] = "none" /\ st'[k] = "pending"
  BY SettleMoves
<1> QED
  BY <1>1 DEF Onward

LEMMA HadOnward ==
  ASSUME TypeInv, NEW j \in Job, SettleByHad(j), st[j] \in Open
  PROVE  \A k \in Job : Onward(k)
<1>1. PICK v \in Terminal : Settle(j, v)
  BY DEF SettleByHad
<1> QED
  BY <1>1, SettleOnward

LEMMA MoveOnward ==
  ASSUME TypeInv, NEW j \in Job, NEW v \in Open \cup Terminal, st' = [st EXCEPT ![j] = v], st[j] \in Open
  PROVE  \A k \in Job : Onward(k)
BY DEF Onward, TypeInv, TypeOK, QueueOK

LEMMA StillOnward == UNCHANGED st => \A k \in Job : Onward(k)
BY DEF Onward

LEMMA CancelOnward ==
  ASSUME NEW rows, Cancel(rows), \A k \in rows : st[k] \in Open
  PROVE  \A k \in Job : Onward(k)
BY DEF Cancel, Onward

LEMMA PrepareOnward ==
  ASSUME Inv, NEW j \in Job, Prepare(j) PROVE \A k \in Job : Onward(k)
<1>1. TypeInv /\ st[j] \in Open
  BY DEF Inv, Prepare, PrepareCancelled, PrepareCapped, PrepareRefused, PrepareSend, Passes, Ready
<1>2. CASE PrepareCancelled(j)
  BY <1>1, <1>2, CancelOnward DEF PrepareCancelled
<1>3. CASE PrepareCapped(j) \/ PrepareRefused(j)
  BY <1>1, <1>3, SettleOnward, HadOnward DEF PrepareCapped, PrepareRefused
<1>4. CASE PrepareSend(j)
  BY <1>1, <1>4, MoveOnward DEF PrepareSend, ToSending
<1> QED
  BY <1>2, <1>3, <1>4 DEF Prepare

\* The guard state = 'sending' of every write of _finalize.
LEMMA FinalizeOnward == ASSUME Inv, Finalize PROVE \A k \in Job : Onward(k)
<1>1. cur \in Job /\ st[cur] \in Open /\ TypeInv
  BY DEF Inv, TypeInv, Working, Finalize, FinalizeSent, Identified, FinalizeFailed, FinalizeRejected,
         FinalizeRatelimited, FinalizeNotSent, FinalizeWait, FinalizeUnknown, Finalizing
<1>2. CASE \/ SettleByHad(cur) \/ Settle(cur, "failed") \/ Settle(cur, "unconfirmed")
  BY <1>1, <1>2, SettleOnward, HadOnward
<1>3. CASE \E v \in {"pending", "sent", "unknown"} : st' = [st EXCEPT ![cur] = v]
  BY <1>1, <1>3, MoveOnward
<1> QED
  BY <1>2, <1>3 DEF Finalize, FinalizeSent, Identified, FinalizeFailed, FinalizeRejected,
         FinalizeRatelimited, FinalizeNotSent, FinalizeWait, FinalizeUnknown, Retry

\* The guard state = 'unknown' of every write of _verify_unknown.
LEMMA VerifyOnward == ASSUME Inv, VerifyCommit PROVE \A k \in Job : Onward(k)
<1>1. CASE UNCHANGED st
  BY <1>1, StillOnward
<1>2. CASE st' # st
  <2>1. cur \in Job /\ st[cur] \in Open /\ TypeInv
    BY <1>2 DEF Inv, TypeInv, Working, VerifyCommit, VerifyStale, VerifyHit, VerifyAbsent, VerifyResend,
                VerifyGivesUp, VerifyThrottled, VerifyPermanent, VerifyError, Verifying, Unmoved, queue
  <2>2. CASE Settle(cur, "unconfirmed")
    BY <2>1, <2>2, SettleOnward
  <2>3. CASE \E v \in {"pending", "sent"} : st' = [st EXCEPT ![cur] = v]
    BY <2>1, <2>3, MoveOnward
  <2> QED
    BY <1>2, <2>2, <2>3 DEF VerifyCommit, VerifyStale, VerifyHit, VerifyAbsent, VerifyResend, NewRound,
                VerifyGivesUp, VerifyThrottled, VerifyPermanent, VerifyError, queue
<1> QED
  BY <1>1, <1>2

\* Everybody else matches rows that wait, or inserts.
LEMMA OutsidersOnward == ASSUME Inv, Outsiders PROVE \A k \in Job : Onward(k)
<1>1. TypeInv /\ Unborn
  BY DEF Inv
<1>2. CASE \E new \in SUBSET Job : /\ \A k \in new : st[k] = "none"
                                   /\ \A k \in Job : st'[k] = IF k \in new THEN "pending" ELSE st[k]
  BY <1>2 DEF Onward
<1>3. CASE Activate
  <2>1. \A k \in OpenNotice : st[k] = "none"
    BY <1>1, <1>3 DEF Activate, Unborn
  <2> QED
    BY <1>2, <1>3, <2>1 DEF Activate, Create
<1>4. CASE \E g \in Turns : StopHook(g)
  BY <1>4 DEF StopHook, Onward
<1>5. CASE \E c \in Card : AskApproval(c)
  <2>1. PICK c \in Card : AskApproval(c)
    BY <1>5
  <2>2. st[c] = "none"
    BY <1>1, <2>1 DEF AskApproval, Unborn
  <2> QED
    BY <2>1, <2>2 DEF AskApproval, Create, Onward
<1>6. CASE \E c \in Card : Decide(c) \/ Approve(c) \/ LateClick(c)
  <2>1. PICK c \in Card, new \in SUBSET Update : Click(c, new) /\ \A k \in new : st[k] = "none"
    <3>1. ASSUME NEW kind \in {Interim, Outcome}, NEW cards
          PROVE  Rows(kind, cards) \in SUBSET Update /\ \A k \in Rows(kind, cards) : st[k] = "none"
      BY NewsAreNew
    <3> QED
      BY <1>6, <3>1 DEF Decide, Approve, LateClick
  <2>2. \A k \in Proved(c) : st[k] \in Open
    BY DEF Proved
  <2> QED
    BY <2>1, <2>2 DEF Click, Onward
<1>7. CASE \E c \in Card : ExpirePending(c) \/ Loaded(c)
  BY <1>7, NewsAreNew DEF ExpirePending, Loaded, Create, Onward
<1>8. CASE \E r \in Reaction : QueueReceipt(r)
  BY <1>8 DEF QueueReceipt, Create, Onward
<1>9. CASE \E d \in SUBSET Reaction : Terminate(d)
  <2>1. \A k \in CloseNotice : st[k] = "none"
    BY <1>1, <1>9 DEF Terminate, Unborn
  <2> QED
    BY <1>9, <2>1, NewsAreNew DEF Terminate, Onward
<1>10. CASE Disallow \/ Recapability \/ GateTick \/ \E j \in Job : Deadline(j) \/ Arrive(j)
  BY <1>10, StillOnward DEF Disallow, Recapability, GateTick, Deadline, Arrive, queue
<1> QED
  BY <1>3, <1>4, <1>5, <1>6, <1>7, <1>8, <1>9, <1>10 DEF Outsiders

LEMMA NextOnward == ASSUME Inv, Next PROVE \A k \in Job : Onward(k)
<1>1. CASE (\E j \in Job, a \in Findings : VerifyQuery(j, a)) \/ Transmit \/ Crash
  BY <1>1, StillOnward DEF VerifyQuery, Seen, Transmit, TransmitOk, TransmitUnknown, TransmitRefused, Crash, queue
<1>2. CASE CancelDisallowed
  BY <1>2, CancelOnward DEF CancelDisallowed
<1>3. CASE StartupScan
  BY <1>3 DEF StartupScan, StartupWith, ScannedState, Onward
<1> QED
  BY <1>1, <1>2, <1>3, PrepareOnward, FinalizeOnward, VerifyOnward, OutsidersOnward DEF Next

-----------------------------------------------------------------------------
\* A verdict is never taken back: no late answer, stale verification, click, restart or
\* cancellation touches a row that has one.
THEOREM VerdictStays == Spec => VerdictIsFinal
<1>1. Inv /\ [Next]_vars => [\A j \in Job : st[j] \in Terminal => st'[j] = st[j]]_vars
  BY NextOnward DEF Onward, vars
<1> QED
  BY <1>1, Invariance, PTL DEF Spec, VerdictIsFinal

-----------------------------------------------------------------------------
\* A step that shows readers nothing new decides.
LEMMA DecideMapped ==
  ASSUME Inv, Inv', \A k \in Job : Onward(k), posted' = posted
  PROVE  Box!Decide
<1> DEFINE verdict(k) == IF st[k] \in Open THEN "open" ELSE st[k]
<1>1. ASSUME NEW k \in Post PROVE verdict(k)' \in Box!Successors(k)
  <2>1. /\ Onward(k) /\ st[k] \in States /\ posted[k] \in Nat /\ posted'[k] = posted[k]
        /\ RowOK(k)' /\ flight'[k] \in Nat
    BY <1>1, Numbers DEF Inv, CopiesInv, TypeInv, TypeOK, SlackOK, Counters
  <2>2. (st'[k] = "sent" => posted[k] > 0) /\ (st'[k] = "failed" => posted[k] = 0)
    BY <2>1 DEF RowOK, PastOK, Copies
  <2>3. CASE st[k] = "none"
    BY <2>1, <2>3 DEF Box!Successors, Onward
  <2>4. CASE st[k] \in Open
    BY <2>1, <2>2, <2>4 DEF Box!Successors, Onward
  <2>5. CASE st[k] \in Terminal
    BY <2>1, <2>5 DEF Box!Successors, Onward
  <2> QED
    BY <2>1, <2>3, <2>4, <2>5 DEF States
<1> QED
  BY <1>1 DEF Box!Decide

\* A step that does shows one copy more of a message that is not failed.
LEMMA AppearMapped ==
  ASSUME Inv, Inv', NEW j \in Post, st' = st, posted' = [posted EXCEPT ![j] = @ + 1],
         st[j] \notin {"none", "failed"}
  PROVE  Box!Appear(j)
<1>1. posted[j] \in Nat /\ posted'[j] = posted[j] + 1 /\ posted \in [Job -> Nat]
  BY DEF Inv, TypeInv, TypeOK, SlackOK, Counters
<1>2. posted[j] < 2
  <2>1. RowOK(j)' /\ flight'[j] \in Nat /\ resend'[j] \in Nat
    BY Numbers DEF Inv, CopiesInv, TypeInv, TypeOK, SlackOK, VerifyOK, Counters
  <2> QED
    BY <1>1, <2>1 DEF RowOK, PastOK, Copies
<1> QED
  BY <1>1, <1>2 DEF Box!Appear

\* Only a request, at once or late, shows readers a copy.
LEMMA PostedChanges ==
  ASSUME Inv, Next, posted' # posted
  PROVE  \E j \in Post : /\ st' = st /\ posted' = [posted EXCEPT ![j] = @ + 1]
                         /\ st[j] \notin {"none", "failed"}
<1>1. (\E j \in Post : Arrive(j)) \/ TransmitOk \/ TransmitUnknown
  <2>1. ASSUME NEW j \in Job, Prepare(j) PROVE posted' = posted
    BY <2>1 DEF Prepare, PrepareCancelled, PrepareCapped, PrepareRefused, PrepareSend, ToSending, slack
  <2>2. Finalize => posted' = posted
    BY DEF Finalize, FinalizeSent, Identified, FinalizeFailed, FinalizeRejected, FinalizeRatelimited,
           FinalizeNotSent, FinalizeWait, FinalizeUnknown, slack
  <2>3. VerifyCommit => posted' = posted
    BY DEF VerifyCommit, VerifyStale, VerifyHit, VerifyAbsent, VerifyResend, NewRound, VerifyGivesUp,
           VerifyThrottled, VerifyPermanent, VerifyError, slack
  <2>4. Outsiders => posted' = posted \/ \E j \in Post : Arrive(j)
    BY DEF Outsiders, Activate, StopHook, AskApproval, Decide, Approve, LateClick, Click, Loaded, ExpirePending, QueueReceipt,
           Terminate,
           Disallow, Recapability, GateTick, Deadline, slack
  <2>5. (\E j \in Job, a \in Findings : VerifyQuery(j, a)) \/ CancelDisallowed \/ Crash \/ StartupScan
          \/ (\E a \in Refusals : TransmitRefused(a)) => posted' = posted
    BY DEF VerifyQuery, Seen, CancelDisallowed, Crash, StartupScan, StartupWith, TransmitRefused, slack
  <2> QED
    BY <2>1, <2>2, <2>3, <2>4, <2>5 DEF Next, Transmit
<1>2. CASE TransmitOk \/ TransmitUnknown
  BY <1>2 DEF TransmitOk, TransmitUnknown, Appears, queue, slack, Inv, Owned
<1>3. ASSUME NEW j \in Post, Arrive(j)
      PROVE  /\ st' = st /\ posted' = [posted EXCEPT ![j] = @ + 1]
             /\ st[j] \notin {"none", "failed"}
  <2>1. /\ st' = st /\ posted' = [posted EXCEPT ![j] = @ + 1] /\ flight[j] > 0
    BY <1>3 DEF Arrive, Appears, queue
  <2>2. Copies(j) # 0
    BY <2>1, Numbers DEF Inv, Copies
  <2> QED
    BY <2>1, <2>2 DEF Inv, CopiesInv, RowOK, PastOK
<1> QED
  BY <1>1, <1>2, <1>3

LEMMA StepMapped ==
  ASSUME Inv, Inv', [Next]_vars
  PROVE  Box!Next \/ UNCHANGED <<st, posted>>
<1>1. CASE UNCHANGED vars
  BY <1>1 DEF vars
<1>2. CASE Next /\ posted' = posted
  BY <1>2, NextOnward, DecideMapped DEF Box!Next
<1>3. CASE Next /\ posted' # posted
  BY <1>3, PostedChanges, AppearMapped DEF Box!Next
<1> QED
  BY <1>1, <1>2, <1>3

\* The state machine implements its promise: a message gets one verdict, which is honest and
\* final, and readers see at most two copies of it.
THEOREM Implements == Spec => KeepsPromise
<1>1. Init => Box!Init
  BY DEF Init, Box!Init
<1>2. Inv /\ Inv' /\ [Next]_vars => [Box!Next]_(Box!vars)
  BY StepMapped DEF Box!vars
<1> QED
  BY <1>1, <1>2, Invariance, PTL DEF Spec, Box!Spec, KeepsPromise

-----------------------------------------------------------------------------
(* The order of the rows.  _order_gate looks one chunk back and at the open   *)
(* rows before it; OrderInv is what that adds up to.                          *)

\* The daemon has worked on j.
Reached(j) == Started(j) \/ st[j] = "failed"

Earlier(k, j) == Group[k] = Group[j] /\ Index[k] < Index[j]

Numbered == \A j \in Job : seq[j] <= last

\* All the chunks before one that was reached are out, not only the last of them.
Headed == \A j, k \in Chunk : Reached(j) /\ Earlier(k, j) => st[k] = "sent"

TurnsApart == \A j, k \in Turn : Reached(j) /\ Before(k, j) /\ ~SameGroup(j, k) => st[k] \in Terminal
NoticesApart == \A j, k \in Told : Reached(j) /\ Before(k, j) => st[k] \in Terminal

\* Only a row that exists is worked on.
Extant == \A k \in Turn \cup Told : Reached(k) => st[k] # "none"

\* A turn is inserted as a whole, and into an active binding.
Together == \A j, k \in Chunk : Group[k] = Group[j] /\ st[k] # "none" => st[j] # "none"
Early    == binding = "starting" => \A j \in Chunk : st[j] = "none"

EndsAll == \A j, k \in Chunk : Earlier(k, j) /\ st[k] = "unconfirmed" => st[j] \in Terminal

\* Within an allowed, active binding only a lost or doubtful chunk has others cancelled.
Cut == binding = "active" /\ allowed =>
         \A j \in Chunk : st[j] = "cancelled" =>
           \E k \in Chunk : Earlier(k, j) /\ st[k] \in {"failed", "unconfirmed"}

Cutter(g) == \E c, d \in Chunk : /\ Group[c] = g /\ Earlier(c, d)
                                 /\ st[c] = "unconfirmed" /\ st[d] = "cancelled"
Long      == {t \in Turns : Size[t] > 1}

ChunkAlerts == \A c \in Chunk : st[AlertOf[c]] # "none" <=> st[c] \in {"failed", "unconfirmed"}
TurnAlerts  == \A g \in Long : /\ st[AlertOf[g]] # "none" => Cutter(g)
                               /\ binding = "active" /\ allowed /\ Cutter(g) => st[AlertOf[g]] # "none"

QueueInv == Numbered /\ Extant /\ Headed /\ TurnsApart /\ NoticesApart
TurnInv  == Together /\ Early /\ EndsAll /\ Cut /\ ChunkAlerts /\ TurnAlerts
OrderInv == QueueInv /\ TurnInv

\* What a step does to the order: new rows come last,
SeqStep(k) == /\ seq'[k] <= last'
              /\ seq'[k] = seq[k] \/ (st[k] = "none" /\ seq'[k] > last)
              /\ st[k] = "none" /\ st'[k] # "none" => seq'[k] > last

\* and a row is reached only when it is its turn.
Reach(k) == Reached(k)' => st[k] # "none" /\ (Reached(k) \/ InOrder(k))

\* A step gives no verdict that loses a chunk,
Calm ==
  /\ \A c \in Chunk : st'[c] \in {"failed", "unconfirmed"} => st'[c] = st[c]
  /\ \A a \in Alert : st[a] = "none" => st'[a] = "none"
  /\ \A c \in Chunk : st'[c] = "cancelled" => \/ st[c] = "cancelled" \/ PrevLost(c)
                                              \/ ~(binding' = "active" /\ allowed')
  /\ \A c, d \in Chunk : st[c] = "none" /\ st'[c] # "none" =>
                           /\ binding' = "active"
                           /\ Group[d] = Group[c] => st'[d] # "none"
  /\ binding' = "starting" => binding = "starting"
  /\ binding' = "active" /\ allowed' => binding \in {"starting", "active"} /\ allowed

\* or it gives just one.
Settles(j, v) == /\ Settle(j, v) /\ st[j] \in Open /\ UNCHANGED <<binding, allowed>>
                 /\ v \in {"failed", "unconfirmed"} /\ (v = "unconfirmed" => Reached(j))

Orderly == /\ \A k \in Job : SeqStep(k)
           /\ \A k \in Turn \cup Told : Reach(k)
           /\ Calm \/ \E j \in Job, v \in Terminal : Settles(j, v)

LEMMA OrderInit == Init => OrderInv
<1> SUFFICES ASSUME Init PROVE OrderInv
  OBVIOUS
<1>1. /\ \A j \in Job : st[j] = "none" /\ seq[j] = 0 /\ had[j] = FALSE /\ posted[j] = 0 /\ flight[j] = 0
      /\ last = 0
  BY DEF Init
<1>2. \A j \in Job : ~Reached(j)
  BY <1>1 DEF Reached, Started, Copies
<1>3. \A x \in Chunk \cup Long : AlertOf[x] \in Job /\ AlertOf[x] \in Alert
  BY GroupShape DEF Long
<1>4. QueueInv
  BY <1>1, <1>2 DEF QueueInv, Numbered, Extant, Headed, TurnsApart, NoticesApart
<1>5. \A g \in Long : ~Cutter(g)
  BY <1>1 DEF Cutter
<1>6. TurnInv
  BY <1>1, <1>3, <1>5 DEF TurnInv, Together, Early, EndsAll, Cut, ChunkAlerts, TurnAlerts
<1> QED
  BY <1>4, <1>6 DEF OrderInv

\* The chunks before one whose predecessor is out are out.
LEMMA HeadedBefore ==
  ASSUME Headed, NEW j \in Chunk, NEW k \in Chunk, ~PrevNotSent(j), Earlier(k, j)
  PROVE  st[k] = "sent"
<1>1. Index[j] \in Nat /\ Index[k] \in Nat /\ Index[k] < Index[j] /\ Group[k] = Group[j]
  BY GroupShape DEF Earlier
<1>2. PICK p \in Chunk : Group[p] = Group[j] /\ Index[p] = Index[j] - 1
  <2>1. Index[j] - 1 \in 0 .. Index[j] - 1
    BY <1>1
  <2> QED
    BY <2>1, ChunkOrder
<1>3. p \in Prev(j)
  BY <1>1, <1>2 DEF Prev
<1>4. st[p] = "sent" /\ Reached(p)
  BY <1>3 DEF PrevNotSent, Reached, Started
<1>5. CASE Index[k] = Index[p]
  <2>1. k = p
    BY <1>1, <1>2, <1>5, ChunkOrder
  <2> QED
    BY <1>4, <2>1
<1>6. CASE Index[k] < Index[p]
  BY <1>1, <1>2, <1>4, <1>6 DEF Headed, Earlier
<1> QED
  BY <1>1, <1>2, <1>5, <1>6

LEMMA QueueKept ==
  ASSUME Inv, TypeInv', QueueInv, \A k \in Job : Onward(k) /\ SeqStep(k), \A k \in Turn \cup Told : Reach(k)
  PROVE  QueueInv'
<1>1. last \in Nat /\ \A k \in Job : seq[k] \in Nat /\ seq'[k] \in Nat
  BY DEF Inv, TypeInv, TypeOK, QueueOK, Counters
<1>2. Numbered'
  BY DEF SeqStep, Numbered
<1>3. Headed'
  <2> SUFFICES ASSUME NEW j \in Chunk, NEW k \in Chunk, Reached(j)', Earlier(k, j) PROVE st'[k] = "sent"
    BY DEF Headed, Earlier
  <2>1. Reached(j) \/ ~PrevNotSent(j)
    BY DEF Reach, InOrder
  <2>2. st[k] = "sent"
    BY <2>1, HeadedBefore DEF QueueInv, Headed
  <2> QED
    BY <2>2 DEF Onward
<1>4. ASSUME NEW j \in Turn \cup Told, Reached(j)', NEW k \in Turn \cup Told, Before(k, j)'
      PROVE  Before(k, j) /\ st[k] # "none" /\ (Reached(j) \/ InOrder(j))
  <2>1. st[j] # "none" /\ (Reached(j) \/ InOrder(j)) /\ seq'[j] = seq[j] /\ seq[j] <= last
    BY <1>4 DEF Reach, SeqStep, QueueInv, Numbered
  <2>2. st'[k] # "none" /\ seq'[k] < seq[j]
    BY <1>4, <2>1 DEF Before
  <2>3. st[k] # "none" /\ seq'[k] = seq[k]
    BY <1>1, <2>1, <2>2 DEF SeqStep
  <2> QED
    BY <2>1, <2>2, <2>3 DEF Before
<1>5. TurnsApart'
  <2> SUFFICES ASSUME NEW j \in Turn, NEW k \in Turn, Reached(j)', Before(k, j)', ~SameGroup(j, k)
               PROVE  st'[k] \in Terminal
    BY DEF TurnsApart, SameGroup
  <2>1. Before(k, j) /\ st[k] # "none" /\ (Reached(j) \/ InOrder(j)) /\ st[k] \in States
    BY <1>4, Numbers DEF Inv
  <2>2. st[k] \in Terminal
    BY <2>1 DEF QueueInv, TurnsApart, InOrder, EarlierTurn, Before, States
  <2> QED
    BY <2>2 DEF Onward
<1>6. NoticesApart'
  <2> SUFFICES ASSUME NEW j \in Told, NEW k \in Told, Reached(j)', Before(k, j)' PROVE st'[k] \in Terminal
    BY DEF NoticesApart
  <2>1. Before(k, j) /\ st[k] # "none" /\ (Reached(j) \/ InOrder(j)) /\ st[k] \in States
    BY <1>4, Numbers DEF Inv
  <2>2. st[k] \in Terminal
    BY <2>1 DEF QueueInv, NoticesApart, InOrder, EarlierNotice, Before, States
  <2> QED
    BY <2>2 DEF Onward
<1>7. Extant'
  BY Numbers DEF Extant, Reach, Onward, Inv, States
<1> QED
  BY <1>2, <1>3, <1>5, <1>6, <1>7 DEF QueueInv

LEMMA CalmKept ==
  ASSUME Inv, TurnInv, \A k \in Job : Onward(k), Calm
  PROVE  TurnInv'
<1>1. \A k \in Job : st[k] \in States /\ (st[k] # "none" => st'[k] # "none")
  BY Numbers DEF Inv, Onward, States
<1>2. \A x \in Chunk \cup Long : AlertOf[x] \in Alert
  BY GroupShape DEF Long
<1>3. Together' /\ Early'
  BY <1>1 DEF Calm, TurnInv, Together, Early
<1>4. EndsAll'
  BY DEF Calm, TurnInv, EndsAll, Onward, Earlier
<1>5. Cut'
  <2> SUFFICES ASSUME binding' = "active", allowed', NEW j \in Chunk, st'[j] = "cancelled"
               PROVE  \E k \in Chunk : Earlier(k, j) /\ st'[k] \in {"failed", "unconfirmed"}
    BY DEF Cut, Earlier
  <2>1. st[j] = "cancelled" \/ PrevLost(j)
    BY DEF Calm
  <2>2. ASSUME NEW i \in Chunk, st[i] = "cancelled"
        PROVE  \E k \in Chunk : Earlier(k, i) /\ st'[k] \in {"failed", "unconfirmed"}
    <3>1. binding = "active" /\ allowed
      BY <2>2 DEF Calm, TurnInv, Early
    <3>2. PICK k \in Chunk : Earlier(k, i) /\ st[k] \in {"failed", "unconfirmed"}
      BY <2>2, <3>1 DEF TurnInv, Cut
    <3> QED
      BY <3>2 DEF Onward
  <2>3. CASE PrevLost(j)
    <3>1. PICK p \in Chunk : Earlier(p, j) /\ st[p] \in {"failed", "cancelled"}
      BY <2>3, GroupShape DEF PrevLost, Prev, Earlier
    <3>2. CASE st[p] = "failed"
      BY <3>1, <3>2 DEF Onward
    <3>3. CASE st[p] = "cancelled"
      <4>1. PICK k \in Chunk : Earlier(k, p) /\ st'[k] \in {"failed", "unconfirmed"}
        BY <2>2, <3>3
      <4>2. Earlier(k, j)
        BY <3>1, <4>1, GroupShape DEF Earlier
      <4> QED
        BY <4>1, <4>2
    <3> QED
      BY <3>1, <3>2, <3>3
  <2> QED
    BY <2>1, <2>2, <2>3
<1>6. ChunkAlerts'
  BY <1>1, <1>2 DEF Calm, TurnInv, ChunkAlerts, Onward
<1>7. TurnAlerts'
  <2> SUFFICES ASSUME NEW g \in Long
               PROVE  /\ st'[AlertOf[g]] # "none" => Cutter(g)'
                      /\ binding' = "active" /\ allowed' /\ Cutter(g)' => st'[AlertOf[g]] # "none"
    BY DEF TurnAlerts
  <2>1. Cutter(g) => Cutter(g)'
    BY DEF Cutter, Earlier, Onward
  <2>2. ASSUME binding' = "active", allowed', Cutter(g)' PROVE Cutter(g) /\ binding = "active" /\ allowed
    <3>1. PICK c \in Chunk, d \in Chunk : /\ Group[c] = g /\ Earlier(c, d)
                                          /\ st'[c] = "unconfirmed" /\ st'[d] = "cancelled"
      BY <2>2 DEF Cutter, Earlier
    <3>2. st[c] = "unconfirmed"
      BY <3>1 DEF Calm
    <3>3. st[d] = "cancelled"
      BY <3>1, <3>2 DEF TurnInv, EndsAll, Onward
    <3>4. binding = "active" /\ allowed
      BY <2>2, <3>2 DEF Calm, TurnInv, Early
    <3> QED
      BY <3>1, <3>2, <3>3, <3>4 DEF Cutter
  <2> QED
    BY <1>1, <1>2, <2>1, <2>2 DEF Calm, TurnInv, TurnAlerts
<1> QED
  BY <1>3, <1>4, <1>5, <1>6, <1>7 DEF TurnInv

-----------------------------------------------------------------------------
(* A verdict: what it does to the chunks and to the alerts.                   *)

LEMMA SettleRows ==
  ASSUME NEW j \in Job, NEW v \in Terminal, Settles(j, v)
  PROVE  /\ st'[j] = v /\ \A k \in Job : st[k] # "none" => st'[k] # "none"
         /\ \A c \in Chunk : c # j => st'[c] = IF v = "unconfirmed" /\ c \in Later(j) THEN "cancelled" ELSE st[c]
         /\ \A a \in Alert : st'[a] # "none" <=> st[a] # "none" \/ a \in OwnAlert(j) \cup GroupAlert(j, v)
<1> DEFINE tail == IF v = "unconfirmed" THEN Later(j) ELSE {}
           new  == OwnAlert(j) \cup GroupAlert(j, v)
<1>1. \A k \in Job : st'[k] = IF k = j THEN v ELSE IF k \in tail THEN "cancelled"
                              ELSE IF k \in new THEN "pending" ELSE st[k]
  BY DEF Settles, Settle, SettleWith
<1>2. st[j] # "none" /\ v # "none"
  BY DEF Settles
<1>3. \A k \in tail : k \in Chunk /\ st[k] = "pending"
  BY DEF Later
<1>4. \A a \in new : a \in Alert
  BY GroupShape DEF OwnAlert, GroupAlert, Fresh
<1>5. \A k \in Job : st[k] # "none" => st'[k] # "none"
  BY <1>1, <1>2
<1>6. ASSUME NEW c \in Chunk, c # j PROVE st'[c] = IF c \in tail THEN "cancelled" ELSE st[c]
  <2>1. c \notin new
    BY <1>4, JobKinds
  <2> QED
    BY <1>1, <1>6, <2>1
<1>7. ASSUME NEW a \in Alert PROVE st'[a] # "none" <=> st[a] # "none" \/ a \in new
  <2>1. a \notin tail
    BY <1>3, JobKinds
  <2>2. a \in new => st'[a] # "none"
    BY <1>1, <1>2, <2>1
  <2>3. a \notin new /\ st[a] = "none" => st'[a] = "none"
    BY <1>1, <1>2, <2>1
  <2> QED
    BY <1>5, <2>2, <2>3
<1> QED
  BY <1>1, <1>5, <1>6, <1>7

\* Which alerts those are: a chunk's own, and the one of the turn that is cut short.
LEMMA WhoseAlert ==
  ASSUME NEW j \in Job, NEW v
  PROVE  /\ \A c \in Chunk : AlertOf[c] \in OwnAlert(j) \cup GroupAlert(j, v) =>
                               c = j /\ AlertOf[c] \in OwnAlert(j)
         /\ \A g \in Long : AlertOf[g] \in OwnAlert(j) \cup GroupAlert(j, v) =>
                              /\ j \in Chunk /\ g = Group[j] /\ Truncates(j, v)
         /\ j \in Chunk => AlertOf[j] \in OwnAlert(j) \/ st[AlertOf[j]] # "none"
         /\ j \in Chunk /\ Truncates(j, v) =>
              /\ Group[j] \in Long
              /\ AlertOf[Group[j]] \in GroupAlert(j, v) \/ st[AlertOf[Group[j]]] # "none"
<1>1. ASSUME j \in Chunk, Truncates(j, v) PROVE Group[j] \in Long
  <2>1. PICK k \in Chunk : Group[k] = Group[j] /\ Index[k] > Index[j]
    BY <1>1 DEF Truncates, Later
  <2>2. Index[j] \in Nat /\ Index[k] \in Nat /\ Group[j] \in Turns /\ Size[Group[j]] \in Nat /\ Index[k] < Size[Group[j]]
    BY <1>1, <2>1, GroupShape
  <2> QED
    BY <2>1, <2>2 DEF Long
<1>2. \A a \in OwnAlert(j) : j \in Chunk /\ a = AlertOf[j]
  BY DEF OwnAlert, Fresh
<1>3. \A a \in GroupAlert(j, v) : j \in Chunk /\ a = AlertOf[Group[j]] /\ Truncates(j, v)
  BY DEF GroupAlert, Fresh
<1>4. \A x, y \in Chunk \cup Long : AlertOf[x] = AlertOf[y] => x = y
  BY GroupShape DEF Long
<1>5. \A c \in Chunk : c \notin Long
  BY GroupShape DEF Long
<1>6. ASSUME NEW c \in Chunk, AlertOf[c] \in OwnAlert(j) \cup GroupAlert(j, v)
      PROVE  c = j /\ AlertOf[c] \in OwnAlert(j)
  <2>1. AlertOf[c] \notin GroupAlert(j, v)
    BY <1>1, <1>3, <1>4, <1>5
  <2> QED
    BY <1>2, <1>4, <1>6, <2>1
<1>7. ASSUME NEW g \in Long, AlertOf[g] \in OwnAlert(j) \cup GroupAlert(j, v)
      PROVE  j \in Chunk /\ g = Group[j] /\ Truncates(j, v)
  <2>1. AlertOf[g] \notin OwnAlert(j)
    BY <1>2, <1>4, <1>5
  <2> QED
    BY <1>1, <1>3, <1>4, <1>7, <2>1
<1>8. j \in Chunk => AlertOf[j] \in OwnAlert(j) \/ st[AlertOf[j]] # "none"
  BY DEF OwnAlert, Fresh
<1>9. j \in Chunk /\ Truncates(j, v) => AlertOf[Group[j]] \in GroupAlert(j, v) \/ st[AlertOf[Group[j]]] # "none"
  BY DEF GroupAlert, Fresh
<1> QED
  BY <1>1, <1>6, <1>7, <1>8, <1>9

\* Behind an open chunk that was reached nobody else was reached, so nobody there was
\* lost; what waits there is what the verdict cancels.
LEMMA BehindOpen ==
  ASSUME Inv, OrderInv, NEW j \in Chunk, st[j] \in Open, NEW d \in Chunk, Earlier(j, d)
  PROVE  /\ st[d] \in {"pending", "sent", "failed", "cancelled", "unconfirmed", "sending", "unknown"}
         /\ st[d] \in {"pending", "cancelled"}
         /\ st[d] = "pending" => d \in Later(j)
<1>1. st[d] \in States /\ st[d] # "none"
  BY Numbers DEF Inv, OrderInv, TurnInv, Together, Earlier
<1>2. ~Reached(d)
  BY DEF OrderInv, QueueInv, Headed
<1>3. Group[d] = Group[j] /\ Index[d] > Index[j]
  BY GroupShape DEF Earlier
<1> QED
  BY <1>1, <1>2, <1>3 DEF States, Reached, Started, Later

LEMMA SettleKept ==
  ASSUME Inv, OrderInv, \A k \in Job : Onward(k), NEW j \in Job, NEW v \in Terminal, Settles(j, v)
  PROVE  TurnInv'
<1>1. /\ st'[j] = v /\ \A k \in Job : st[k] # "none" => st'[k] # "none"
      /\ \A c \in Chunk : c # j => st'[c] = IF v = "unconfirmed" /\ c \in Later(j) THEN "cancelled" ELSE st[c]
      /\ \A a \in Alert : st'[a] # "none" <=> st[a] # "none" \/ a \in OwnAlert(j) \cup GroupAlert(j, v)
  BY SettleRows
<1>2. /\ st[j] \in Open /\ v \in {"failed", "unconfirmed"} /\ (v = "unconfirmed" => Reached(j))
      /\ binding' = binding /\ allowed' = allowed
  BY DEF Settles
<1>3. \A x \in Chunk \cup Long : AlertOf[x] \in Alert
  BY GroupShape DEF Long
<1>4. \A c \in Later(j) : c \in Chunk /\ j \in Chunk /\ Earlier(j, c) /\ st[c] = "pending"
  BY GroupShape DEF Later, Earlier
<1>5. ASSUME NEW c \in Chunk, c # j
      PROVE  /\ st'[c] \in {"failed", "unconfirmed"} <=> st[c] \in {"failed", "unconfirmed"}
             /\ st'[c] = "unconfirmed" => st[c] = "unconfirmed"
             /\ st'[c] = "cancelled" => st[c] = "cancelled" \/ (v = "unconfirmed" /\ c \in Later(j))
  BY <1>1, <1>4, <1>5
<1>6. Together' /\ Early'
  <2>1. ASSUME NEW c \in Chunk PROVE st'[c] = "none" <=> st[c] = "none"
    <3>1. c \in Later(j) => st[c] = "pending"
      BY <1>4
    <3>2. CASE c = j
      BY <1>1, <1>2, <3>2
    <3>3. CASE c # j
      BY <1>1, <3>1, <3>3
    <3> QED
      BY <3>2, <3>3
  <2> QED
    BY <1>2, <2>1 DEF OrderInv, TurnInv, Together, Early
<1>7. EndsAll'
  <2> SUFFICES ASSUME NEW d \in Chunk, NEW c \in Chunk, Earlier(c, d), st'[c] = "unconfirmed"
               PROVE  st'[d] \in Terminal
    BY DEF EndsAll, Earlier
  <2>1. CASE c = j
    <3>1. st[d] \in {"pending", "cancelled"} /\ (st[d] = "pending" => d \in Later(j)) /\ v = "unconfirmed"
      BY <1>1, <1>2, <2>1, BehindOpen
    <3>2. d # j
      BY <2>1, GroupShape DEF Earlier
    <3> QED
      BY <1>1, <3>1, <3>2
  <2>2. CASE c # j
    <3>1. st[d] \in Terminal
      BY <1>5, <2>2 DEF OrderInv, TurnInv, EndsAll
    <3> QED
      BY <3>1 DEF Onward
  <2> QED
    BY <2>1, <2>2
<1>8. Cut'
  <2> SUFFICES ASSUME binding = "active", allowed, NEW d \in Chunk, st'[d] = "cancelled"
               PROVE  \E k \in Chunk : Earlier(k, d) /\ st'[k] \in {"failed", "unconfirmed"}
    BY <1>2 DEF Cut, Earlier
  <2>1. st[d] = "cancelled" \/ (v = "unconfirmed" /\ d \in Later(j))
    BY <1>1, <1>2, <1>5
  <2>2. CASE st[d] = "cancelled"
    <3>1. PICK k \in Chunk : Earlier(k, d) /\ st[k] \in {"failed", "unconfirmed"}
      BY <2>2 DEF OrderInv, TurnInv, Cut
    <3> QED
      BY <3>1 DEF Onward
  <2> QED
    BY <1>1, <1>4, <2>1, <2>2
<1>9. ChunkAlerts'
  <2> SUFFICES ASSUME NEW c \in Chunk PROVE st'[AlertOf[c]] # "none" <=> st'[c] \in {"failed", "unconfirmed"}
    BY DEF ChunkAlerts
  <2>1. CASE c = j
    <3>1. AlertOf[j] \in OwnAlert(j) \/ st[AlertOf[j]] # "none"
      BY <2>1, WhoseAlert
    <3> QED
      BY <1>1, <1>2, <1>3, <2>1, <3>1
  <2>2. CASE c # j
    <3>1. AlertOf[c] \notin OwnAlert(j) \cup GroupAlert(j, v)
      BY <2>2, WhoseAlert
    <3>2. st'[AlertOf[c]] # "none" <=> st[AlertOf[c]] # "none"
      BY <1>1, <1>3, <3>1
    <3> QED
      BY <1>5, <2>2, <3>2 DEF OrderInv, TurnInv, ChunkAlerts
  <2> QED
    BY <2>1, <2>2
<1>10. TurnAlerts'
  <2> SUFFICES ASSUME NEW g \in Long
               PROVE  /\ st'[AlertOf[g]] # "none" => Cutter(g)'
                      /\ binding = "active" /\ allowed /\ Cutter(g)' => st'[AlertOf[g]] # "none"
    BY <1>2 DEF TurnAlerts
  <2>1. ASSUME st'[AlertOf[g]] # "none" PROVE Cutter(g)'
    <3>1. CASE st[AlertOf[g]] # "none"
      <4>1. Cutter(g)
        BY <3>1 DEF OrderInv, TurnInv, TurnAlerts
      <4> QED
        BY <4>1 DEF Cutter, Earlier, Onward
    <3>2. CASE st[AlertOf[g]] = "none"
      <4>1. AlertOf[g] \in OwnAlert(j) \cup GroupAlert(j, v)
        BY <1>1, <1>3, <2>1, <3>2
      <4>2. j \in Chunk /\ g = Group[j] /\ Truncates(j, v)
        BY <4>1, WhoseAlert
      <4>3. PICK d \in Later(j) : TRUE
        BY <4>2 DEF Truncates
      <4>4. v = "unconfirmed" /\ d # j /\ Earlier(j, d) /\ d \in Chunk
        <5>1. v = "unconfirmed" /\ Earlier(j, d) /\ d \in Chunk
          BY <1>4, <4>2, <4>3 DEF Truncates
        <5> QED
          BY <4>2, <5>1, GroupShape DEF Earlier
      <4>5. st'[d] = "cancelled"
        BY <1>1, <4>3, <4>4
      <4> QED
        BY <1>1, <4>2, <4>4, <4>5 DEF Cutter, Earlier
    <3> QED
      BY <3>1, <3>2
  <2>2. ASSUME binding = "active", allowed, Cutter(g)' PROVE st'[AlertOf[g]] # "none"
    <3>1. PICK c \in Chunk, d \in Chunk : /\ Group[c] = g /\ Earlier(c, d)
                                          /\ st'[c] = "unconfirmed" /\ st'[d] = "cancelled"
      BY <2>2 DEF Cutter, Earlier
    <3>2. CASE c = j
      <4>1. v = "unconfirmed" /\ Reached(j) /\ j \in Chunk /\ d # j
        BY <1>1, <1>2, <3>1, <3>2, GroupShape DEF Earlier
      <4>2. st[d] # "cancelled"
        <5> SUFFICES ASSUME st[d] = "cancelled" PROVE FALSE
          OBVIOUS
        <5>1. PICK e \in Chunk : Earlier(e, d) /\ st[e] \in {"failed", "unconfirmed"}
          BY <2>2 DEF OrderInv, TurnInv, Cut
        <5>2. e # j /\ Reached(e) /\ Group[e] = Group[j]
          BY <1>2, <3>1, <3>2, <5>1 DEF Reached, Started, Earlier
        <5>3. Earlier(e, j) \/ Earlier(j, e)
          BY <4>1, <5>2, ChunkOrder, GroupShape DEF Earlier
        <5> QED
          BY <1>2, <4>1, <5>1, <5>2, <5>3 DEF OrderInv, QueueInv, Headed
      <4>3. d \in Later(j)
        BY <3>1, <3>2, <4>1, <4>2, <1>2, BehindOpen
      <4>4. Truncates(j, v)
        BY <4>1, <4>3 DEF Truncates
      <4>5. AlertOf[g] \in GroupAlert(j, v) \/ st[AlertOf[g]] # "none"
        BY <3>1, <3>2, <4>1, <4>4, WhoseAlert
      <4> QED
        BY <1>1, <1>3, <4>5
    <3>3. CASE c # j
      <4>1. st[c] = "unconfirmed"
        BY <1>5, <3>1, <3>3
      <4>2. st[d] \in Terminal
        BY <3>1, <4>1 DEF OrderInv, TurnInv, EndsAll
      <4>3. st[d] = "cancelled"
        BY <3>1, <4>2 DEF Onward
      <4>4. st[AlertOf[g]] # "none"
        BY <2>2, <3>1, <4>1, <4>3 DEF OrderInv, TurnInv, TurnAlerts, Cutter
      <4> QED
        BY <1>1, <1>3, <4>4
    <3> QED
      BY <3>2, <3>3
  <2> QED
    BY <2>1, <2>2
<1> QED
  BY <1>6, <1>7, <1>8, <1>9, <1>10 DEF TurnInv

-----------------------------------------------------------------------------
(* Every step is orderly.                                                     *)

LEMMA SettleOrderly ==
  ASSUME Inv, QueueInv, NEW j \in Job, NEW v \in {"failed", "unconfirmed"}, Settle(j, v), st[j] \in Open,
         v = "unconfirmed" => Reached(j), Reached(j) \/ InOrder(j),
         UNCHANGED <<had, posted, flight, binding, allowed>>
  PROVE  Orderly
<1>1. TypeInv /\ last \in Nat /\ \A k \in Job : seq[k] \in Nat /\ seq[k] <= last
  BY DEF Inv, TypeInv, TypeOK, QueueOK, Counters, QueueInv, Numbered
<1>2. PICK own \in SUBSET Alert, group \in SUBSET Alert, tail \in SUBSET Job :
        /\ \A k \in own \cup group : st[k] = "none"
        /\ SettleWith(j, v, tail, own, group)
  <2>1. \A k \in OwnAlert(j) \cup GroupAlert(j, v) : st[k] = "none" /\ k \in Alert
    BY GroupShape DEF OwnAlert, GroupAlert, Fresh
  <2>2. Later(j) \subseteq Job
    BY DEF Later
  <2> QED
    BY <2>1, <2>2 DEF Settle
<1>3. ASSUME NEW k \in Job PROVE SeqStep(k)
  <2>1. /\ seq'[k] = IF k \in own THEN last + 1 ELSE IF k \in group THEN last + 2 ELSE seq[k]
        /\ last' = last + 2
    BY <1>2 DEF SettleWith
  <2>2. /\ st'[k] = IF k = j THEN v ELSE IF k \in tail THEN "cancelled"
                    ELSE IF k \in own \cup group THEN "pending" ELSE st[k]
    BY <1>2 DEF SettleWith
  <2>3. k \in own \cup group => st[k] = "none"
    BY <1>2
  <2>4. k # j => st'[k] = st[k] \/ st[k] = "pending" \/ (st[k] = "none" /\ st'[k] = "pending")
    BY <1>1, SettleMoves
  <2>5. st[k] = "none" /\ st'[k] # "none" => k \in own \cup group
    <3> SUFFICES ASSUME st[k] = "none", st'[k] # "none" PROVE k \in own \cup group
      OBVIOUS
    <3>1. k # j /\ st'[k] = "pending"
      BY <2>4
    <3> QED
      BY <2>2, <3>1
  <2> QED
    BY <1>1, <2>1, <2>3, <2>5 DEF SeqStep
<1>4. ASSUME NEW k \in Turn \cup Told PROVE Reach(k)
  <2>1. Copies(k)' = Copies(k) /\ had'[k] = had[k]
    BY DEF Copies
  <2>2. CASE k = j
    BY <2>2 DEF Reach
  <2>3. CASE k # j
    <3>1. st'[k] = st[k] \/ st'[k] \in {"cancelled", "pending"}
      BY <1>1, <2>3, SettleMoves
    <3>2. Reached(k)' => Reached(k)
      BY <2>1, <3>1 DEF Reached, Started
    <3> QED
      BY <3>2 DEF Reach, QueueInv, Extant
  <2> QED
    BY <2>2, <2>3
<1>5. Settles(j, v) /\ v \in Terminal
  BY DEF Settles
<1> QED
  BY <1>3, <1>4, <1>5 DEF Orderly

LEMMA HadOrderly ==
  ASSUME Inv, QueueInv, NEW j \in Job, SettleByHad(j), st[j] \in Open,
         Reached(j) \/ InOrder(j), UNCHANGED <<had, posted, flight, binding, allowed>>
  PROVE  Orderly
  BY SettleOrderly DEF SettleByHad, Reached, Started

\* The moves of a row that lose nothing and make no row.
Slips(k) ==
  \/ st'[k] = st[k]
  \/ st[k] \in {"sending", "unknown"} /\ st'[k] \in {"pending", "unknown", "sent"}
  \/ st[k] \in Open /\ st'[k] = "cancelled" /\ (k \in Chunk => PrevLost(k) \/ binding' # "active" \/ ~allowed')
  \/ st[k] \in Open /\ st'[k] = "sending" /\ InOrder(k)
  \/ st[k] # "none" /\ k \in Card \cup Reaction
  \/ st[k] = "sending" /\ st'[k] = "failed" /\ k \in Blind

LEMMA SlipOrderly ==
  ASSUME Inv, QueueInv, UNCHANGED <<seq, last>>, \A k \in Job : Slips(k),
         \A k \in Job : had'[k] => had[k] \/ st[k] \in {"sending", "unknown"},
         \A k \in Job : Copies(k)' > 0 => Copies(k) > 0 \/ st[k] = "sending",
         binding' \in {binding, "closed"}, allowed' => allowed
  PROVE  Orderly
<1>1. last \in Nat /\ \A k \in Job : seq[k] \in Nat /\ seq[k] <= last
  BY DEF Inv, TypeInv, TypeOK, QueueOK, Counters, QueueInv, Numbered
<1>2. \A k \in Job : st[k] = "none" => st'[k] = "none"
  BY DEF Slips
<1>3. \A k \in Job : SeqStep(k)
  BY <1>1, <1>2 DEF SeqStep
<1>4. ASSUME NEW k \in Turn \cup Told, Reached(k)' PROVE st[k] # "none" /\ (Reached(k) \/ InOrder(k))
  <2>1. k \notin Card \cup Reaction /\ k \in Job
    BY JobKinds
  <2>2. Reached(k) \/ (st[k] \in Open /\ InOrder(k))
    BY <1>4, <2>1 DEF Reached, Started, Slips
  <2> QED
    BY <2>2 DEF QueueInv, Extant
<1>5. \A k \in Turn \cup Told : Reach(k)
  BY <1>4 DEF Reach
<1>6. Calm
  <2>1. \A c \in Chunk : c \notin Card \cup Blind
    BY JobKinds
  <2>2. /\ \A c \in Chunk : st'[c] \in {"failed", "unconfirmed"} => st'[c] = st[c]
        /\ \A c \in Chunk : st'[c] = "cancelled" => \/ st[c] = "cancelled" \/ PrevLost(c)
                                                    \/ ~(binding' = "active" /\ allowed')
    BY <2>1 DEF Slips
  <2> QED
    BY <1>2, <2>2 DEF Calm
<1> QED
  BY <1>3, <1>5, <1>6 DEF Orderly

\* New rows, numbered from last + 1 on.
LEMMA CreateOrderly ==
  ASSUME Inv, QueueInv, TypeInv', NEW new \in SUBSET Job, \A k \in new : st[k] = "none",
         \A k \in Job : \/ k \in new /\ st'[k] = "pending" /\ seq'[k] > last /\ seq'[k] <= last'
                        \/ k \notin new /\ seq'[k] = seq[k] /\ Slips(k),
         last' >= last, UNCHANGED <<had, posted, flight>>, binding' \in {binding, "active", "closed"}, allowed' = allowed,
         binding' = "active" => binding # "closed",
         \A a \in Alert : a \notin new,
         \A c, d \in Chunk : c \in new /\ Group[c] = Group[d] => d \in new,
         Chunk \cap new # {} => binding' = "active"
  PROVE  Orderly
<1>1. last \in Nat /\ last' \in Nat /\ \A k \in Job : seq[k] \in Nat /\ seq'[k] \in Nat /\ seq[k] <= last
  BY DEF Inv, TypeInv, TypeOK, QueueOK, Counters, QueueInv, Numbered
<1>2. \A k \in Job : st[k] = "none" => st'[k] = "none" \/ k \in new
  BY DEF Slips
<1>3. \A k \in Job : SeqStep(k)
  BY <1>1, <1>2 DEF SeqStep
<1>4. ASSUME NEW k \in Turn \cup Told, Reached(k)' PROVE st[k] # "none" /\ (Reached(k) \/ InOrder(k))
  <2>1. k \notin Card \cup Reaction /\ k \in Job /\ Copies(k)' = Copies(k)
    BY JobKinds DEF Copies
  <2>2. Reached(k) \/ (st[k] \in Open /\ InOrder(k))
    BY <1>4, <2>1 DEF Reached, Started, Slips
  <2> QED
    BY <2>2 DEF QueueInv, Extant
<1>5. \A k \in Turn \cup Told : Reach(k)
  BY <1>4 DEF Reach
<1>6. Calm
  <2>1. \A c \in Chunk : c \notin Card \cup Blind
    BY JobKinds
  <2>2. /\ \A c \in Chunk : st'[c] \in {"failed", "unconfirmed"} => st'[c] = st[c]
        /\ \A c \in Chunk : st'[c] = "cancelled" => \/ st[c] = "cancelled" \/ PrevLost(c)
                                                    \/ ~(binding' = "active" /\ allowed')
    BY <2>1 DEF Slips
  <2>3. \A a \in Alert : st[a] = "none" => st'[a] = "none"
    BY <1>2
  <2>4. \A c, d \in Chunk : st[c] = "none" /\ st'[c] # "none" =>
          binding' = "active" /\ (Group[d] = Group[c] => st'[d] # "none")
    <3> SUFFICES ASSUME NEW c \in Chunk, NEW d \in Chunk, st[c] = "none", st'[c] # "none"
                 PROVE  binding' = "active" /\ (Group[d] = Group[c] => st'[d] # "none")
      OBVIOUS
    <3>1. c \in new
      BY <1>2
    <3>2. d \in new => st'[d] # "none"
      OBVIOUS
    <3> QED
      BY <3>1, <3>2
  <2>5. binding \in {"starting", "active", "closed"}
    BY DEF Inv, TypeInv, TypeOK, WorldOK
  <2> QED
    BY <2>2, <2>3, <2>4, <2>5 DEF Calm
<1> QED
  BY <1>3, <1>5, <1>6 DEF Orderly

\* _prepare: what is cancelled has lost its predecessor or its binding, what is sent or
\* judged had its turn.
LEMMA PrepareOrderly ==
  ASSUME Inv, QueueInv, NEW j \in Job, Prepare(j) PROVE Orderly
<1>1. /\ TypeInv /\ st[j] \in Open /\ UNCHANGED <<had, posted, flight, binding, allowed>>
      /\ \A k \in Job : Copies(k)' = Copies(k)
  BY DEF Inv, Prepare, PrepareCancelled, PrepareCapped, PrepareRefused, PrepareSend, Passes, Ready, ToSending,
         attempt, world, slack, Copies
<1>2. CASE PrepareCancelled(j)
  <2>1. Cancel({j}) /\ (j \in Chunk => PrevLost(j) \/ binding' # "active" \/ ~allowed')
    <3>1. j \in Chunk /\ ~GuardOK(j) => binding # "active"
      <4>1. j \in Chunk => j \notin Card \cup Notice \cup Blind
        BY JobKinds
      <4> QED
        BY <1>1, <4>1 DEF GuardOK, TypeInv, TypeOK, WorldOK
    <3> QED
      BY <1>1, <1>2, <3>1 DEF PrepareCancelled
  <2>2. \A k \in Job : Slips(k)
    BY <1>1, <2>1 DEF Cancel, Slips
  <2> QED
    BY <1>1, <2>1, <2>2, SlipOrderly DEF Cancel
<1>3. CASE PrepareCapped(j)
  BY <1>1, <1>3, HadOrderly, SettleOrderly DEF PrepareCapped, Passes
<1>4. CASE PrepareRefused(j)
  BY <1>1, <1>4, SettleOrderly DEF PrepareRefused, Passes, Reached, Started
<1>5. CASE PrepareSend(j)
  <2>1. st' = [st EXCEPT ![j] = "sending"] /\ UNCHANGED <<seq, last>> /\ InOrder(j)
    BY <1>5 DEF PrepareSend, ToSending, Passes
  <2>2. \A k \in Job : Slips(k)
    BY <1>1, <2>1 DEF Slips, TypeInv, TypeOK, QueueOK
  <2> QED
    BY <1>1, <2>1, <2>2, SlipOrderly
<1> QED
  BY <1>2, <1>3, <1>4, <1>5 DEF Prepare

\* A request for the row in sending, and the late arrival of an earlier one.
LEMMA WireOrderly ==
  ASSUME Inv, QueueInv, Transmit \/ \E j \in Job : Arrive(j) PROVE Orderly
<1>1. UNCHANGED <<st, seq, last, had, binding, allowed>>
  BY DEF Transmit, TransmitOk, TransmitUnknown, TransmitRefused, Arrive, queue, attempt, world
<1>2. \A k \in Job : Copies(k)' > 0 => Copies(k) > 0 \/ st[k] = "sending"
  <2>1. posted \in [Job -> Nat] /\ flight \in [Job -> Nat]
    BY DEF Inv, TypeInv, TypeOK, SlackOK, Counters
  <2>2. CASE Transmit
    <3>1. cur \in Job /\ st[cur] = "sending"
      BY <2>2 DEF Transmit, TransmitOk, TransmitUnknown, TransmitRefused, Inv, Owned, TypeInv, Working
    <3>2. \A k \in Job : k # cur => posted'[k] = posted[k] /\ flight'[k] = flight[k]
      BY <2>1, <2>2, <3>1 DEF Transmit, TransmitOk, TransmitUnknown, TransmitRefused, Appears, slack
    <3> QED
      BY <3>1, <3>2 DEF Copies
  <2>3. CASE \E j \in Job : Arrive(j)
    BY <2>1, <2>3 DEF Arrive, Appears, Copies
  <2> QED
    BY <2>2, <2>3
<1> QED
  BY <1>1, <1>2, SlipOrderly DEF Slips

LEMMA FinalizeOrderly == ASSUME Inv, QueueInv, Finalize PROVE Orderly
<1>1. /\ TypeInv /\ cur \in Job /\ st[cur] = "sending" /\ UNCHANGED <<posted, flight, binding, allowed>>
      /\ \A k \in Job : Copies(k)' = Copies(k)
  BY DEF Inv, TypeInv, Working, Finalize, FinalizeSent, FinalizeFailed, FinalizeRejected,
         FinalizeRatelimited, FinalizeNotSent, FinalizeWait, FinalizeUnknown, Finalizing, world, slack, Copies
<1>2. \A k \in Job : had'[k] => had[k] \/ st[k] = "sending"
  BY <1>1 DEF Finalize, FinalizeSent, FinalizeFailed, FinalizeRejected, FinalizeRatelimited, FinalizeNotSent,
         FinalizeWait, FinalizeUnknown, attempt, TypeInv, TypeOK, AttemptOK
<1>3. CASE (SettleByHad(cur) \/ Settle(cur, "failed") \/ Settle(cur, "unconfirmed")) /\ had' = had
  BY <1>1, <1>3, HadOrderly, SettleOrderly DEF Reached, Started
<1>4. CASE (\E v \in {"pending", "sent", "unknown"} : st' = [st EXCEPT ![cur] = v]) /\ UNCHANGED <<seq, last>>
  <2>1. \A k \in Job : Slips(k)
    BY <1>1, <1>4 DEF Slips, TypeInv, TypeOK, QueueOK
  <2> QED
    BY <1>1, <1>2, <1>4, <2>1, SlipOrderly
<1> QED
  BY <1>3, <1>4 DEF Finalize, FinalizeSent, FinalizeFailed, FinalizeRejected,
         FinalizeRatelimited, FinalizeNotSent, FinalizeWait, FinalizeUnknown, Retry, attempt

LEMMA VerifyOrderly == ASSUME Inv, QueueInv, VerifyCommit PROVE Orderly
<1>1. /\ TypeInv /\ UNCHANGED <<had, posted, flight, binding, allowed>>
      /\ \A k \in Job : Copies(k)' = Copies(k)
  BY DEF Inv, VerifyCommit, VerifyStale, VerifyHit, VerifyAbsent, VerifyResend, NewRound, VerifyGivesUp,
         VerifyThrottled, VerifyPermanent, VerifyError, attempt, world, slack, Copies
<1>2. CASE UNCHANGED queue
  BY <1>1, <1>2, SlipOrderly DEF queue, Slips
<1>3. CASE ~UNCHANGED queue
  <2>1. cur \in Job /\ st[cur] = "unknown"
    BY <1>3 DEF Inv, TypeInv, Working, VerifyCommit, VerifyStale, VerifyHit, VerifyAbsent, VerifyResend,
           VerifyGivesUp, VerifyThrottled, VerifyPermanent, VerifyError, Verifying, Unmoved
  <2>2. CASE Settle(cur, "unconfirmed")
    BY <1>1, <2>1, <2>2, SettleOrderly DEF Reached, Started
  <2>3. CASE (\E v \in {"pending", "sent"} : st' = [st EXCEPT ![cur] = v]) /\ UNCHANGED <<seq, last>>
    <3>1. \A k \in Job : Slips(k)
      BY <2>1, <2>3, <1>1 DEF Slips, TypeInv, TypeOK, QueueOK
    <3> QED
      BY <1>1, <2>3, <3>1, SlipOrderly
  <2> QED
    BY <1>3, <2>2, <2>3 DEF VerifyCommit, VerifyStale, VerifyHit, VerifyAbsent, VerifyResend, NewRound,
           VerifyGivesUp, VerifyThrottled, VerifyPermanent, VerifyError
<1> QED
  BY <1>2, <1>3

\* The rows that others insert, and those they cancel.
LEMMA OutsidersOrderly == ASSUME Inv, TypeInv', QueueInv, TurnInv, Outsiders PROVE Orderly
<1>1. TypeInv /\ Unborn /\ last \in Nat /\ binding \in {"starting", "active", "closed"} /\ st \in [Job -> States]
  BY DEF Inv, TypeInv, TypeOK, QueueOK, WorldOK
<1>2. CASE Activate
  <2>1. \A k \in OpenNotice : st[k] = "none" /\ k \notin Chunk \cup Alert
    BY <1>1, <1>2, JobKinds DEF Activate, Unborn
  <2>2. UNCHANGED <<had, posted, flight, allowed>> /\ binding = "starting" /\ binding' = "active" /\ last' = last + 1
    BY <1>2 DEF Activate, Create, attempt, slack
  <2>3. \A k \in Job : \/ k \in OpenNotice /\ st'[k] = "pending" /\ seq'[k] > last /\ seq'[k] <= last'
                       \/ k \notin OpenNotice /\ seq'[k] = seq[k] /\ Slips(k)
    BY <1>1, <1>2, <2>2 DEF Activate, Create, Slips
  <2> QED
    BY <1>1, <2>1, <2>2, <2>3, CreateOrderly
<1>3. CASE \E g \in Turns : StopHook(g)
  <2>1. PICK g \in Turns : StopHook(g)
    BY <1>3
  <2> DEFINE new == {c \in Chunk : Group[c] = g}
  <2>2. new \in SUBSET Job /\ (\A k \in new : st[k] = "none") /\ \A a \in Alert : a \notin new
    BY <2>1, JobKinds DEF StopHook
  <2>3. /\ UNCHANGED <<had, posted, flight, allowed, binding>> /\ binding = "active" /\ last' = last + Size[g]
    BY <2>1 DEF StopHook, attempt, slack, world
  <2>4. Size[g] \in Nat /\ \A c \in new : Index[c] \in Nat /\ Index[c] < Size[g]
    BY GroupShape
  <2>5. \A k \in Job : \/ k \in new /\ st'[k] = "pending" /\ seq'[k] > last /\ seq'[k] <= last'
                       \/ k \notin new /\ seq'[k] = seq[k] /\ Slips(k)
    <3> SUFFICES ASSUME NEW k \in Job
                 PROVE  \/ k \in new /\ st'[k] = "pending" /\ seq'[k] > last /\ seq'[k] <= last'
                        \/ k \notin new /\ seq'[k] = seq[k] /\ Slips(k)
      OBVIOUS
    <3>1. /\ st'[k] = IF k \in new THEN "pending" ELSE st[k]
          /\ seq'[k] = IF k \in new THEN last + 1 + Index[k] ELSE seq[k]
      BY <2>1 DEF StopHook
    <3> HIDE DEF new
    <3> QED
      BY <1>1, <2>3, <2>4, <3>1 DEF Slips
  <2>6. last' >= last /\ \A c, d \in Chunk : c \in new /\ Group[c] = Group[d] => d \in new
    BY <1>1, <2>3, <2>4
  <2> HIDE DEF new
  <2> QED
    BY <2>2, <2>3, <2>5, <2>6, CreateOrderly
<1>4. ASSUME NEW k \in Card \cup Reaction, Create({k}), st[k] = "none",
             UNCHANGED <<had, posted, flight, binding, allowed>>
      PROVE  Orderly
  <2>1. k \in Job /\ k \notin Chunk \cup Alert
    BY JobKinds
  <2>2. last' = last + 1 /\ \A i \in Job : \/ i \in {k} /\ st'[i] = "pending" /\ seq'[i] > last /\ seq'[i] <= last'
                                           \/ i \notin {k} /\ seq'[i] = seq[i] /\ Slips(i)
    BY <1>1, <1>4 DEF Create, Slips
  <2>3. binding' = "active" => binding # "closed"
    BY <1>4
  <2> QED
    BY <1>1, <1>4, <2>1, <2>2, <2>3, CreateOrderly
<1>5. CASE \E c \in Card : AskApproval(c)
  BY <1>1, <1>4, <1>5 DEF AskApproval, Unborn, attempt, slack
<1>6. CASE \E r \in Reaction : QueueReceipt(r)
  BY <1>4, <1>6 DEF QueueReceipt, attempt, slack, world
<1>7. CASE \E c \in Card : Decide(c) \/ Approve(c) \/ LateClick(c) \/ Loaded(c) \/ ExpirePending(c)
  <2> DEFINE Adds(c, new) ==
          /\ \A k \in new : st[k] = "none" /\ k \notin Post
          /\ \A k \in Job \ new : st'[k] = st[k] \/ (k = c /\ st[k] \in Open)
          /\ \A k \in new : st'[k] = "pending"
          /\ seq' = [k \in Job |-> IF k \in new THEN last + 1 ELSE seq[k]]
          /\ last' = last + 1
  <2>1. PICK c \in Card, new \in SUBSET Update : Adds(c, new)
    <3>1. PICK c \in Card : Decide(c) \/ Approve(c) \/ LateClick(c) \/ Loaded(c) \/ ExpirePending(c)
      BY <1>7
    <3>2. ASSUME NEW kind \in {Interim, Outcome}, NEW cards
          PROVE  /\ Rows(kind, cards) \in SUBSET Update
                 /\ \A k \in Rows(kind, cards) : st[k] = "none" /\ k \notin Post
      BY JobKinds DEF Rows, Fresh
    <3>3. ASSUME NEW new \in SUBSET Update, Click(c, new), \A k \in new : st[k] = "none" /\ k \notin Post
          PROVE  Adds(c, new)
      <4>1. \A k \in Proved(c) : k = c /\ st[k] \in Open
        BY DEF Proved
      <4> QED
        BY <3>3, <4>1 DEF Click
    <3>4. ASSUME Loaded(c) PROVE Adds(c, Rows(Outcome, {c}))
      BY <3>2, <3>4 DEF Loaded, Create
    <3>5. ASSUME ExpirePending(c) PROVE Adds(c, Rows(Outcome, {k \in {c} : cardId[k]}))
      <4> DEFINE news == Rows(Outcome, {k \in {c} : cardId[k]})
      <4>1. \A k \in news : st[k] = "none" /\ k \notin Post
        BY <3>2
      <4>2. st' = [k \in Job |-> IF k = c /\ st[k] \in Waiting THEN "cancelled"
                                 ELSE IF k \in news THEN "pending" ELSE st[k]]
        BY <3>5 DEF ExpirePending
      <4>3. seq' = [k \in Job |-> IF k \in news THEN last + 1 ELSE seq[k]] /\ last' = last + 1
        BY <3>5 DEF ExpirePending
      <4> HIDE DEF news
      <4>4. news \in SUBSET Job /\ c \notin news
        BY <3>2, <4>1 DEF news
      <4> QED
        BY <4>1, <4>2, <4>3, <4>4 DEF news
    <3>6. \A k \in {} : st[k] = "none" /\ k \notin Post
      OBVIOUS
    <3> HIDE DEF Adds
    <3>7. CASE Decide(c)
      BY <3>2, <3>3, <3>7 DEF Decide
    <3>8. CASE Approve(c)
      BY <3>2, <3>3, <3>8 DEF Approve
    <3>9. CASE LateClick(c)
      BY <3>3, <3>6, <3>9 DEF LateClick
    <3> QED
      BY <3>1, <3>2, <3>4, <3>5, <3>7, <3>8, <3>9
  <2>2. UNCHANGED <<had, posted, flight, binding, allowed>>
    BY <1>7 DEF Decide, Approve, LateClick, Click, Loaded, ExpirePending, attempt, slack
  <2>3. \A k \in Job : \/ k \in new /\ st'[k] = "pending" /\ seq'[k] > last /\ seq'[k] <= last'
                       \/ k \notin new /\ seq'[k] = seq[k] /\ Slips(k)
    BY <1>1, <2>1 DEF Slips
  <2>4. last' >= last /\ Chunk \cap new = {} /\ (\A a \in Alert : a \notin new) /\ \A k \in new : st[k] = "none"
    BY <1>1, <2>1
  <2>5. binding' = "active" => binding # "closed"
    BY <2>2
  <2> QED
    BY <2>2, <2>3, <2>4, <2>5, CreateOrderly
<1>8. CASE \E d \in SUBSET Reaction : Terminate(d)
  <2>1. PICK d \in SUBSET Reaction : Terminate(d)
    BY <1>8
  <2>2. PICK told \in SUBSET Outcome, stopped \in SUBSET Job :
          /\ \A k \in told : st[k] = "none" /\ k \notin Post
          /\ \A k \in stopped : st[k] \in Waiting
          /\ st'  = [k \in Job |-> IF k \in stopped THEN "cancelled"
                                  ELSE IF k \in told \cup CloseNotice THEN "pending" ELSE st[k]]
          /\ seq' = [k \in Job |-> IF k \in told THEN last + Rank[k]
                                  ELSE IF k \in CloseNotice THEN last + Ranks + 1 ELSE seq[k]]
          /\ last' = last + Ranks + 1
    <3>1. ASSUME NEW cards
          PROVE  /\ Rows(Outcome, cards) \subseteq Outcome
                 /\ \A k \in Rows(Outcome, cards) : st[k] = "none" /\ k \notin Post
      BY JobKinds DEF Rows, Fresh
    <3> DEFINE told == Rows(Outcome, {c \in Card : pend[c] = "loading" \/ (pend[c] = "pending" /\ cardId[c])})
               stopped == {k \in Job : /\ st[k] \in Waiting
                                       /\ \/ k \in Turn \cup Reaction \cup Interim
                                          \/ k \in Card /\ pend[k] = "pending"}
    <3>2. told \in SUBSET Outcome /\ \A k \in told : st[k] = "none" /\ k \notin Post
      BY <3>1
    <3>3. stopped \in SUBSET Job /\ \A k \in stopped : st[k] \in Waiting
      OBVIOUS
    <3>4. /\ st'  = [k \in Job |-> IF k \in stopped THEN "cancelled"
                                  ELSE IF k \in told \cup CloseNotice THEN "pending" ELSE st[k]]
          /\ seq' = [k \in Job |-> IF k \in told THEN last + Rank[k]
                                  ELSE IF k \in CloseNotice THEN last + Ranks + 1 ELSE seq[k]]
          /\ last' = last + Ranks + 1
      BY <2>1 DEF Terminate
    <3> HIDE DEF told, stopped
    <3> QED
      BY <3>2, <3>3, <3>4
  <2>3. /\ UNCHANGED <<had, posted, flight, allowed>> /\ binding' = "closed" /\ binding # "closed"
        /\ \A k \in CloseNotice : st[k] = "none" /\ k \notin Chunk \cup Alert
    BY <1>1, <2>1, JobKinds DEF Terminate, Unborn, attempt, slack
  <2>4. Ranks \in Nat /\ \A k \in told : Rank[k] \in Nat /\ 1 <= Rank[k] /\ Rank[k] <= Ranks
    BY CardRows
  <2> DEFINE new == told \cup CloseNotice
  <2>5. \A k \in new : st[k] = "none" /\ k \notin Chunk \cup Alert
    BY <2>2, <2>3
  <2>6. ASSUME NEW k \in Job
        PROVE  \/ k \in new /\ st'[k] = "pending" /\ seq'[k] > last /\ seq'[k] <= last'
               \/ k \notin new /\ seq'[k] = seq[k] /\ Slips(k)
    <3>1. CASE k \in new
      <4>1. k \notin stopped
        BY <2>2, <2>5, <3>1
      <4>2. seq'[k] = last + Rank[k] \/ seq'[k] = last + Ranks + 1
        BY <2>2, <3>1
      <4> QED
        BY <1>1, <2>2, <2>4, <3>1, <4>1, <4>2
    <3>2. CASE k \notin new
      <4>1. seq'[k] = seq[k] /\ (st'[k] = st[k] \/ (st[k] \in Open /\ st'[k] = "cancelled"))
        BY <2>2, <3>2
      <4> QED
        BY <2>3, <3>2, <4>1 DEF Slips
    <3> QED
      BY <3>1, <3>2
  <2>7. last' >= last /\ new \in SUBSET Job /\ Chunk \cap new = {} /\ \A a \in Alert : a \notin new
    BY <1>1, <2>2, <2>4, <2>5
  <2> HIDE DEF new
  <2> QED
    BY <2>3, <2>5, <2>6, <2>7, CreateOrderly
<1>9. CASE Disallow \/ Recapability \/ GateTick \/ \E j \in Job : Deadline(j)
  <2>1. /\ UNCHANGED <<st, seq, last, had, posted, flight, binding>> /\ (allowed' => allowed)
        /\ \A k \in Job : Copies(k)' = Copies(k)
    BY <1>9 DEF Disallow, Recapability, GateTick, Deadline, queue, attempt, world, slack, Copies
  <2> QED
    BY <2>1, SlipOrderly DEF Slips
<1> QED
  BY <1>2, <1>3, <1>5, <1>6, <1>7, <1>8, <1>9, WireOrderly DEF Outsiders

LEMMA NextOrderly == ASSUME Inv, TypeInv', QueueInv, TurnInv, Next PROVE Orderly
<1>1. CASE (\E j \in Job, a \in Findings : VerifyQuery(j, a)) \/ Crash
  <2>1. /\ UNCHANGED <<st, seq, last, had, posted, flight, binding, allowed>>
        /\ \A k \in Job : Copies(k)' = Copies(k)
    BY <1>1 DEF VerifyQuery, Crash, queue, attempt, world, slack, Copies
  <2> QED
    BY <2>1, SlipOrderly DEF Slips
<1>2. CASE CancelDisallowed
  <2>1. /\ UNCHANGED <<seq, last, had, posted, flight, binding, allowed>> /\ ~allowed
        /\ \A k \in Job : Copies(k)' = Copies(k)
    BY <1>2 DEF CancelDisallowed, Cancel, attempt, world, slack, Copies
  <2>2. \A k \in Job : Slips(k)
    BY <1>2, <2>1 DEF CancelDisallowed, Cancel, Slips
  <2> QED
    BY <2>1, <2>2, SlipOrderly
<1>3. CASE StartupScan
  <2>1. /\ UNCHANGED <<seq, last, posted, flight, binding, allowed>>
        /\ \A k \in Job : Copies(k)' = Copies(k)
    BY <1>3 DEF StartupScan, StartupWith, world, slack, Copies
  <2>2. \A k \in Job : had'[k] => had[k] \/ st[k] = "sending"
    BY <1>3 DEF StartupScan, StartupWith, InDoubt
  <2>3. \A k \in Job : Slips(k)
    BY <1>3 DEF StartupScan, StartupWith, ScannedState, Slips
  <2> QED
    BY <2>1, <2>2, <2>3, SlipOrderly
<1> QED
  BY <1>1, <1>2, <1>3, PrepareOrderly, WireOrderly, FinalizeOrderly, VerifyOrderly, OutsidersOrderly DEF Next

LEMMA OrderNext == Inv /\ TypeInv' /\ OrderInv /\ [Next]_vars => OrderInv'
<1> SUFFICES ASSUME Inv, TypeInv', OrderInv, [Next]_vars PROVE OrderInv'
  OBVIOUS
<1>1. CASE Next
  <2>1. Orderly /\ \A k \in Job : Onward(k)
    BY <1>1, NextOrderly, NextOnward DEF OrderInv
  <2>2. QueueInv'
    BY <2>1, QueueKept DEF Orderly, OrderInv
  <2>3. TurnInv'
    BY <2>1, CalmKept, SettleKept DEF Orderly, OrderInv
  <2> QED
    BY <2>2, <2>3 DEF OrderInv
<1>2. CASE UNCHANGED vars
  <2>1. UNCHANGED <<st, seq, last, had, posted, flight, binding, allowed>>
    BY <1>2 DEF vars
  <2>2. QueueInv'
    BY <2>1 DEF OrderInv, QueueInv, Numbered, Extant, Headed, TurnsApart, NoticesApart, Reached, Started, Copies, Before
  <2>3. TurnInv'
    BY <2>1 DEF OrderInv, TurnInv, Together, Early, EndsAll, Cut, ChunkAlerts, TurnAlerts, Cutter
  <2> QED
    BY <2>2, <2>3 DEF OrderInv
<1> QED
  BY <1>1, <1>2

LEMMA OrderInvariance == Spec => []OrderInv
<1>1. Inv /\ Inv' /\ OrderInv /\ [Next]_vars => OrderInv'
  BY OrderNext DEF Inv
<1> QED
  BY <1>1, OrderInit, Invariance, PTL DEF Spec

LEMMA PrevIsEarlier == \A j \in Chunk : \A k \in Prev(j) : k \in Chunk /\ Earlier(k, j)
  BY GroupShape DEF Prev, Earlier

\* No chunk leaves before the one before it is confirmed, and no turn overtakes another,
\* however its rows are delayed, resent, restarted or cancelled (_order_gate).
THEOREM TurnsKeepOrder == Spec => []TurnsInOrder
<1>1. OrderInv => TurnsInOrder
  BY PrevIsEarlier DEF OrderInv, QueueInv, Headed, TurnsApart, Reached, TurnsInOrder
<1> QED
  BY <1>1, OrderInvariance, PTL

\* The opening and the closing notice of a chat and the updates of its cards appear in the
\* order they were queued, so that no card is left showing what is outdated.
THEOREM NoticesKeepOrder == Spec => []NoticesInOrder
<1>1. OrderInv => NoticesInOrder
  BY DEF OrderInv, QueueInv, NoticesApart, Reached, NoticesInOrder
<1> QED
  BY <1>1, OrderInvariance, PTL

\* A doubtful chunk ends the whole rest of its turn
\* (_cancel_group_after_unconfirmed).
THEOREM DoubtEndsTurn == Spec => []UnconfirmedEndsTurn
<1>1. OrderInv => UnconfirmedEndsTurn
  BY PrevIsEarlier DEF OrderInv, TurnInv, EndsAll, UnconfirmedEndsTurn
<1> QED
  BY <1>1, OrderInvariance, PTL

\* Every lost or doubtful chunk, and every turn cut short by one, has its alert in the
\* same transaction, and nothing else has (_set_failed, _set_unconfirmed).
THEOREM LossesAreReported == Spec => []LossIsReported
<1>1. OrderInv => LossIsReported
  <2>1. \A g \in Turns : Cutter(g) <=> \E c, d \in Chunk : /\ Group[c] = g /\ Group[d] = g /\ Index[c] < Index[d]
                                                          /\ st[c] = "unconfirmed" /\ st[d] = "cancelled"
    BY DEF Cutter, Earlier
  <2> QED
    BY <2>1 DEF OrderInv, TurnInv, ChunkAlerts, TurnAlerts, Long, LossIsReported
<1> QED
  BY <1>1, OrderInvariance, PTL

-----------------------------------------------------------------------------
(* What goes on the wire: nothing that _prepare has not let through, and      *)
(* always in the same form.                                                   *)

LEMMA OnlyPrepareSends ==
  ASSUME Inv, Next, NEW k \in Job, st'[k] = "sending", st[k] # "sending"
  PROVE  PrepareSend(k)
<1>1. TypeInv /\ st \in [Job -> States]
  BY DEF Inv, TypeInv, TypeOK, QueueOK
<1>2. ASSUME NEW j \in Job, NEW v \in Terminal, Settle(j, v), st[j] \in Open PROVE FALSE
  BY <1>1, <1>2, SettleMoves
<1>3. ASSUME NEW j \in Job, SettleByHad(j), st[j] \in Open PROVE FALSE
  BY <1>2, <1>3 DEF SettleByHad
<1>4. ASSUME NEW j \in Job, Prepare(j) PROVE PrepareSend(k)
  <2>1. st[j] \in Open
    BY <1>4 DEF Prepare, PrepareCancelled, PrepareCapped, PrepareRefused, PrepareSend, Passes, Ready
  <2>2. CASE PrepareSend(j)
    BY <1>1, <2>2 DEF PrepareSend, ToSending
  <2>3. CASE PrepareCancelled(j)
    BY <2>3 DEF PrepareCancelled, Cancel
  <2> QED
    BY <1>2, <1>3, <1>4, <2>1, <2>2, <2>3 DEF Prepare, PrepareCapped, PrepareRefused
<1>5. CASE Finalize
  <2>1. cur \in Job /\ st[cur] \in Open
    BY <1>5 DEF Inv, TypeInv, Working, Finalize, FinalizeSent, FinalizeFailed, FinalizeRejected,
           FinalizeRatelimited, FinalizeNotSent, FinalizeWait, FinalizeUnknown, Finalizing
  <2>2. CASE \E v \in {"pending", "sent", "unknown"} : st' = [st EXCEPT ![cur] = v]
    BY <1>1, <2>1, <2>2
  <2> QED
    BY <1>2, <1>3, <1>5, <2>1, <2>2 DEF Finalize, FinalizeSent, FinalizeFailed, FinalizeRejected,
           FinalizeRatelimited, FinalizeNotSent, FinalizeWait, FinalizeUnknown, Retry
<1>6. CASE VerifyCommit
  <2>1. CASE UNCHANGED st
    BY <2>1
  <2>2. CASE st' # st
    <3>1. cur \in Job /\ st[cur] \in Open
      BY <1>6, <2>2 DEF Inv, TypeInv, Working, VerifyCommit, VerifyStale, VerifyHit, VerifyAbsent, VerifyResend,
             VerifyGivesUp, VerifyThrottled, VerifyPermanent, VerifyError, Verifying, Unmoved, queue
    <3>2. CASE \E v \in {"pending", "sent"} : st' = [st EXCEPT ![cur] = v]
      BY <1>1, <3>1, <3>2
    <3> QED
      BY <1>2, <1>6, <2>2, <3>1, <3>2 DEF VerifyCommit, VerifyStale, VerifyHit, VerifyAbsent, VerifyResend,
             NewRound, VerifyGivesUp, VerifyThrottled, VerifyPermanent, VerifyError, queue
  <2> QED
    BY <2>1, <2>2
<1>7. CASE \/ (\E j \in Job, a \in Findings : VerifyQuery(j, a)) \/ Transmit \/ Crash
           \/ Disallow \/ Recapability \/ GateTick \/ \E j \in Job : Deadline(j) \/ Arrive(j)
  <2>1. UNCHANGED st
    BY <1>7 DEF VerifyQuery, Transmit, TransmitOk, TransmitUnknown, TransmitRefused, Crash, Disallow, Recapability,
           GateTick, Deadline, Arrive, queue
  <2> QED
    BY <2>1
<1>8. CASE CancelDisallowed \/ StartupScan
  BY <1>8 DEF CancelDisallowed, Cancel, StartupScan, StartupWith, ScannedState
<1>9. CASE \/ Activate \/ (\E g \in Turns : StopHook(g)) \/ (\E c \in Card : AskApproval(c) \/ ExpirePending(c) \/ Loaded(c))
           \/ (\E r \in Reaction : QueueReceipt(r)) \/ (\E d \in SUBSET Reaction : Terminate(d))
  BY <1>9 DEF Activate, StopHook, AskApproval, ExpirePending, Loaded, QueueReceipt, Terminate, Create
<1>10. CASE \E c \in Card : Decide(c) \/ Approve(c) \/ LateClick(c)
  BY <1>10 DEF Decide, Approve, LateClick, Click
<1> QED
  BY <1>4, <1>5, <1>6, <1>7, <1>8, <1>9, <1>10 DEF Next, Outsiders

\* After the end of the binding nothing of the session goes on the wire: _prepare asks
\* again what _guard_ok asked, in the transaction that takes the row.
THEOREM ClosedStaysQuiet == Spec => ClosedIsQuiet
<1>1. Inv /\ [Next]_vars => [binding = "closed" => \A j \in Turn \cup Card \cup dropped :
                               st[j] # "sending" => st'[j] # "sending"]_vars
  <2> SUFFICES ASSUME Inv, Next, binding = "closed", NEW j \in Turn \cup Card \cup dropped,
                      st[j] # "sending", st'[j] = "sending"
               PROVE  FALSE
    BY DEF vars
  <2>1. j \in Job
    BY DEF Inv, TypeInv, TypeOK, WorldOK
  <2>2. PrepareSend(j)
    BY <2>1, OnlyPrepareSends
  <2> QED
    BY <2>2 DEF PrepareSend, Passes, GuardOK
<1> QED
  BY <1>1, Invariance, PTL DEF Spec, ClosedIsQuiet

\* The form of every copy is the one the row has frozen, which a row keeps from its
\* first copy on.
FormOK(j) == /\ forms[j] \subseteq {op[j]} \ {"none"}
             /\ forms[j] # {} => Copies(j) > 0
             /\ st[j] = "sending" => op[j] # "none"
FormInv == \A j \in Post : FormOK(j)

LEMMA FormInit == Init => FormInv
  BY DEF Init, FormInv, FormOK

\* A step that sends nothing new and reshapes nothing.
LEMMA FormStill ==
  ASSUME Inv, FormInv, Next, UNCHANGED <<op, forms>>, \A j \in Post : ~PrepareSend(j),
         \A j \in Post : Copies(j)' = Copies(j)
  PROVE  FormInv'
<1>1. \A j \in Post : st'[j] = "sending" => st[j] = "sending"
  BY OnlyPrepareSends
<1> QED
  BY <1>1 DEF FormInv, FormOK

LEMMA FormSend == ASSUME Inv, FormInv, NEW j \in Job, PrepareSend(j) PROVE FormInv'
<1>1. /\ op' = [op EXCEPT ![j] = OpFor(j)] /\ st' = [st EXCEPT ![j] = "sending"]
      /\ UNCHANGED <<posted, flight, forms>>
  BY DEF PrepareSend, ToSending, slack
<1>2. /\ op \in [Job -> Shapes] /\ st \in [Job -> States] /\ mode # "none"
  BY DEF Inv, TypeInv, TypeOK, AttemptOK, QueueOK, ConfigOK, Forms
<1>3. OpFor(j) # "none" /\ (op[j] # "none" => OpFor(j) = op[j])
  BY <1>2 DEF OpFor
<1>4. \A k \in Post : Copies(k)' = Copies(k)
  BY <1>1 DEF Copies
<1> SUFFICES ASSUME NEW k \in Post PROVE FormOK(k)'
  BY DEF FormInv
<1>5. FormOK(k)
  BY DEF FormInv
<1>6. CASE k = j
  BY <1>1, <1>2, <1>3, <1>4, <1>5, <1>6 DEF FormOK
<1>7. CASE k # j
  BY <1>1, <1>2, <1>4, <1>5, <1>7 DEF FormOK
<1> QED
  BY <1>6, <1>7

\* The request takes the frozen form, and its copy counts.
LEMMA FormTransmit == ASSUME Inv, FormInv, Transmit PROVE FormInv'
<1>1. cur \in Job /\ st[cur] = "sending" /\ UNCHANGED <<st, op>>
  BY DEF Transmit, TransmitOk, TransmitUnknown, TransmitRefused, Inv, Owned, TypeInv, Working, queue, attempt
<1>2. /\ posted \in [Job -> Nat] /\ flight \in [Job -> Nat] /\ forms \in [Job -> SUBSET Shapes]
  BY DEF Inv, TypeInv, TypeOK, SlackOK, Counters
<1>3. CASE UNCHANGED <<posted, flight, forms>>
  BY <1>1, <1>3 DEF FormInv, FormOK, Copies
<1>4. CASE /\ forms' = [forms EXCEPT ![cur] = @ \cup {op[cur]}]
           /\ \/ posted' = [posted EXCEPT ![cur] = @ + 1] /\ flight' = flight
              \/ flight' = [flight EXCEPT ![cur] = @ + 1] /\ posted' = posted
  <2> SUFFICES ASSUME NEW k \in Post PROVE FormOK(k)'
    BY DEF FormInv
  <2>1. FormOK(k) /\ posted[k] \in Nat /\ flight[k] \in Nat
    BY <1>2 DEF FormInv
  <2>2. CASE k = cur
    <3>1. forms'[k] = forms[k] \cup {op[k]} /\ op'[k] = op[k] /\ op[k] # "none" /\ st'[k] = st[k]
      BY <1>1, <1>2, <1>4, <2>1, <2>2 DEF FormOK
    <3>2. \/ posted'[k] = posted[k] + 1 /\ flight'[k] = flight[k]
          \/ posted'[k] = posted[k] /\ flight'[k] = flight[k] + 1
      BY <1>1, <1>2, <1>4, <2>2
    <3>3. Copies(k)' > 0
      BY <2>1, <3>2 DEF Copies
    <3> QED
      BY <2>1, <3>1, <3>3 DEF FormOK
  <2>3. CASE k # cur
    BY <1>1, <1>2, <1>4, <2>1, <2>3 DEF FormOK, Copies
  <2> QED
    BY <2>2, <2>3
<1> QED
  BY <1>3, <1>4 DEF Transmit, TransmitOk, TransmitUnknown, TransmitRefused, Accepted, Appears, slack

\* A rejected row gives up its form only while no copy can exist.
LEMMA FormRejected == ASSUME Inv, FormInv, FinalizeRejected PROVE FormInv'
<1>1. /\ cur \in Job /\ st[cur] = "sending" /\ phase = "answered" /\ ans = "markdown_rejected"
      /\ UNCHANGED <<posted, flight, forms>> /\ TypeInv
  BY DEF FinalizeRejected, Finalizing, Inv, TypeInv, Working, slack
<1>2. \A k \in Post : Copies(k)' = Copies(k)
  BY <1>1 DEF Copies
<1>3. CASE had[cur]
  <2>1. op' = op
    BY <1>3 DEF FinalizeRejected
  <2>2. \A k \in Post : ~PrepareSend(k)
    BY <1>1 DEF PrepareSend, Passes, Ready
  <2> QED
    BY <1>1, <1>2, <2>1, <2>2, FormStill DEF Next, Finalize
<1>4. CASE ~had[cur]
  <2>1. st' = [st EXCEPT ![cur] = "pending"] /\ op' = [op EXCEPT ![cur] = "none"]
    BY <1>4 DEF FinalizeRejected, Retry, Reshape
  <2>2. op \in [Job -> Shapes] /\ st \in [Job -> States]
    BY <1>1 DEF TypeInv, TypeOK, AttemptOK, QueueOK
  <2> SUFFICES ASSUME NEW k \in Post PROVE FormOK(k)'
    BY DEF FormInv
  <2>3. CASE k = cur
    <3>1. RowOK(k) /\ Copies(k) \in Nat /\ FormOK(k)
      BY <1>1, Numbers DEF Inv, CopiesInv, Copies, FormInv
    <3>2. Copies(k) <= 0
      BY <1>1, <1>4, <2>3, <3>1 DEF RowOK, PastOK, StepOK, Unsent, Refusals
    <3>3. forms[k] = {}
      BY <3>1, <3>2 DEF FormOK
    <3> QED
      BY <1>1, <1>2, <2>1, <2>2, <2>3, <3>3 DEF FormOK
  <2>4. CASE k # cur
    BY <1>1, <1>2, <2>1, <2>2, <2>4 DEF FormInv, FormOK
  <2> QED
    BY <2>3, <2>4
<1> QED
  BY <1>3, <1>4

\* A copy that arrives late was counted, with its form, when its request went out.
LEMMA FormArrive == ASSUME Inv, FormInv, NEW j \in Post, Arrive(j) PROVE FormInv'
<1>1. /\ posted \in [Job -> Nat] /\ flight \in [Job -> Nat]
  BY DEF Inv, TypeInv, TypeOK, SlackOK, Counters
<1>2. /\ flight' = [flight EXCEPT ![j] = @ - 1] /\ posted' = [posted EXCEPT ![j] = @ + 1]
      /\ UNCHANGED <<st, op, forms>>
  BY DEF Arrive, Appears, queue, attempt
<1>3. ASSUME NEW k \in Post PROVE Copies(k)' = Copies(k)
  <2>1. posted[k] \in Nat /\ flight[k] \in Nat
    BY <1>1
  <2>2. \/ posted'[k] = posted[k] /\ flight'[k] = flight[k]
        \/ posted'[k] = posted[k] + 1 /\ flight'[k] = flight[k] - 1
    BY <1>1, <1>2
  <2> QED
    BY <2>1, <2>2 DEF Copies
<1> QED
  BY <1>2, <1>3 DEF FormInv, FormOK

LEMMA FormNext == ASSUME Inv, FormInv, Next PROVE FormInv'
<1>1. CASE \E j \in Job : PrepareSend(j)
  BY <1>1, FormSend
<1>2. CASE Transmit
  BY <1>2, FormTransmit
<1>3. CASE FinalizeRejected
  BY <1>3, FormRejected
<1>4. CASE \E j \in Post : Arrive(j)
  BY <1>4, FormArrive
<1>5. CASE \A j \in Job : ~PrepareSend(j)
  <2> SUFFICES ASSUME UNCHANGED <<op, forms, posted, flight>> PROVE FormInv'
    <3>1. ASSUME NEW j \in Job, Prepare(j) PROVE UNCHANGED <<op, forms, posted, flight>>
      BY <1>5, <3>1 DEF Prepare, PrepareCancelled, PrepareCapped, PrepareRefused, attempt, slack
    <3>2. CASE Finalize /\ ~FinalizeRejected
      BY <3>2 DEF Finalize, FinalizeSent, FinalizeFailed, FinalizeRatelimited, FinalizeNotSent,
             FinalizeWait, FinalizeUnknown, attempt, slack
    <3>3. CASE VerifyCommit \/ \E j \in Job, a \in Findings : VerifyQuery(j, a)
      BY <3>3 DEF VerifyQuery, VerifyCommit, VerifyStale, VerifyHit, VerifyAbsent, VerifyResend,
             VerifyGivesUp, VerifyThrottled, VerifyPermanent, VerifyError, NewRound, attempt, slack
    <3>4. CASE CancelDisallowed \/ Crash \/ StartupScan
      BY <3>4 DEF CancelDisallowed, Crash, StartupScan, StartupWith, attempt, slack
    <3>5. CASE Outsiders /\ ~\E j \in Post : Arrive(j)
      BY <3>5 DEF Outsiders, Activate, StopHook, AskApproval, Decide, Approve, LateClick, Click, Loaded, ExpirePending, QueueReceipt,
           Terminate,
             Disallow, Recapability, GateTick, Deadline, attempt, slack
    <3> QED
      BY <1>2, <1>3, <1>4, <3>1, <3>2, <3>3, <3>4, <3>5 DEF Next
  <2>1. \A j \in Post : Copies(j)' = Copies(j)
    BY DEF Copies
  <2> QED
    BY <1>5, <2>1, FormStill
<1> QED
  BY <1>1, <1>5

LEMMA FormInvariance == Spec => []FormInv
<1>1. Inv /\ FormInv /\ [Next]_vars => FormInv'
  <2> SUFFICES ASSUME Inv, FormInv, [Next]_vars PROVE FormInv'
    OBVIOUS
  <2>1. CASE UNCHANGED vars
    BY <2>1 DEF vars, FormInv, FormOK, Copies
  <2> QED
    BY <2>1, FormNext
<1> QED
  BY <1>1, FormInit, Invariance, PTL DEF Spec

\* A reader who sees a message twice sees it twice in the same shape, whatever the probe
\* or a rejection did to the mode in between (op_for, which freezes op_* before a request).
THEOREM CopiesLookAlike == Spec => []OneForm
<1>1. Inv /\ FormInv => OneForm
  <2> SUFFICES ASSUME FormInv, NEW j \in Post PROVE Cardinality(forms[j]) <= 1
    BY DEF OneForm
  <2>1. forms[j] = {} \/ forms[j] = {op[j]}
    BY DEF FormInv, FormOK
  <2>2. Cardinality({}) = 0 /\ Cardinality({op[j]}) = 1
    BY FS_EmptySet, FS_Singleton
  <2> QED
    BY <2>1, <2>2
<1> QED
  BY <1>1, FormInvariance, Invariance, PTL

=============================================================================
