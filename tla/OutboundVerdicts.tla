-------------------------- MODULE OutboundVerdicts --------------------------
(***************************************************************************)
(* At most one resend, honest verdicts, and the promise of Outbox, for     *)
(* every number of rows, every bound and every environment.                *)
(*                                                                         *)
(* None of them is inductive.  RowOK is: it bounds the copies of a row by  *)
(* where the row stands, and so ties the row to the step the daemon is in: *)
(* a row in sending has one copy less to expect before its request and     *)
(* after a refusal than it has after an unclear answer or a crash.         *)
(***************************************************************************)
EXTENDS OutboundProofs

USE DEF Job, Post, Blind, Update, Turn, Notice, Open, Terminal, Waiting, Refusals

\* A row is in sending only while the daemon works on it, or after the daemon died, and
\* nobody else moves the row the daemon works on.
Owned ==
  /\ \A j \in Job :
       st[j] = "sending" => phase = "down" \/ (phase \in {"prepared", "answered"} /\ cur = j)
  /\ phase \in {"prepared", "answered"} => st[cur] = "sending"

\* Rows that another transaction inserts without looking do not exist before.
Unborn ==
  /\ binding = "starting" => \A j \in OpenNotice : st[j] = "none"
  /\ binding # "closed" => \A j \in CloseNotice : st[j] = "none"
  /\ \A c \in Card : pend[c] = "none" => st[c] = "none"

\* No copy of the row's current attempt can exist.
Unsent(j) == \/ st[j] = "pending"
             \/ st[j] = "sending" /\ phase # "down" /\ (phase = "answered" => ans \in Refusals)

\* What the row's past says of its copies.
PastOK(j) ==
  /\ resend[j] <= 1 /\ Copies(j) <= 1 + resend[j]
  /\ inWindow[j] => posted[j] > 0
  /\ st[j] = "none" => Copies(j) = 0 /\ ~had[j] /\ resend[j] = 0
  /\ st[j] \in {"pending", "sending"} => (had[j] => resend[j] = 1) /\ (~had[j] => resend[j] = 0)
  /\ st[j] = "unknown" => had[j]
  /\ st[j] = "failed" => Copies(j) = 0
  /\ st[j] = "sent" => posted[j] > 0

\* What the step the daemon is in says of them.
StepOK(j) ==
  /\ Unsent(j) => Copies(j) <= resend[j]
  /\ st[j] = "sending" /\ phase = "answered" /\ ans = "sent" => posted[j] > 0
  /\ st[j] = "unknown" /\ phase = "queried" /\ cur = j /\ ans = "hit" => posted[j] > 0

RowOK(j) == PastOK(j) /\ StepOK(j)

CopiesInv == \A j \in Post : RowOK(j)

Inv == TypeInv /\ Owned /\ Unborn /\ CopiesInv

LEMMA InvInit == Init => Inv
<1> SUFFICES ASSUME Init PROVE Inv
  OBVIOUS
<1>1. TypeInv
  BY TypeInit
<1>2. Owned /\ Unborn
  <2>1. \A j \in Job : st[j] = "none"
    BY DEF Init
  <2> QED
    BY <2>1 DEF Init, Owned, Unborn
<1>3. CopiesInv
  <2> SUFFICES ASSUME NEW j \in Post PROVE RowOK(j)
    BY DEF CopiesInv
  <2>1. /\ st[j] = "none" /\ had[j] = FALSE /\ resend[j] = 0 /\ posted[j] = 0 /\ flight[j] = 0
        /\ inWindow[j] = FALSE
    BY DEF Init
  <2> QED
    BY <2>1 DEF RowOK, PastOK, StepOK, Copies, Unsent
<1> QED
  BY <1>1, <1>2, <1>3 DEF Inv

LEMMA Numbers ==
  ASSUME TypeInv, NEW k \in Job
  PROVE  /\ posted[k] \in Nat /\ flight[k] \in Nat /\ resend[k] \in Nat
         /\ had[k] \in BOOLEAN /\ inWindow[k] \in BOOLEAN
         /\ st[k] \in States
BY DEF TypeInv, TypeOK, SlackOK, VerifyOK, AttemptOK, QueueOK, Counters

\* The moves of a row that need no request and no change of round.
Moves(k) ==
  \/ st'[k] \in {st[k], "cancelled", "unconfirmed"}
  \/ st[k] = "none" /\ st'[k] = "pending"
  \/ st'[k] = "failed" /\ Copies(k) = 0
  \/ st'[k] = "sent" /\ posted[k] > 0
  \/ st[k] = "sending" /\ Unsent(k) /\ st'[k] = "pending"
  \/ st[k] = "sending" /\ st'[k] = "unknown" /\ had'[k] = TRUE

\* A step that sends nothing for row k and learns nothing new of it keeps RowOK.
LEMMA QuietRow ==
  ASSUME NEW k \in Post, TypeInv, TypeInv', RowOK(k), Moves(k),
         posted'[k] = posted[k], flight'[k] = flight[k], resend'[k] = resend[k],
         inWindow'[k] => inWindow[k],
         had'[k] # had[k] => st'[k] = "unknown" /\ had'[k],
         st'[k] = "sending" => phase' = "down" \/ UNCHANGED daemon,
         st'[k] = "unknown" => phase' # "queried" \/ (st[k] = "unknown" /\ UNCHANGED daemon)
  PROVE  RowOK(k)'
<1>1. /\ posted[k] \in Nat /\ flight[k] \in Nat /\ resend[k] \in Nat /\ Copies(k)' = Copies(k)
      /\ had[k] \in BOOLEAN /\ had'[k] \in BOOLEAN
  BY Numbers DEF Copies, TypeInv, TypeOK, AttemptOK
<1>2. PastOK(k)'
  BY <1>1 DEF RowOK, PastOK, Moves, Unsent, StepOK
<1>3. StepOK(k)'
  <2>1. CASE st'[k] = "sending" /\ phase' = "down"
    BY <2>1 DEF StepOK, Unsent
  <2>2. CASE st'[k] = "sending" /\ UNCHANGED daemon
    <3>1. st[k] = "sending" /\ phase' = phase /\ ans' = ans
      BY <2>2 DEF Moves, daemon
    <3>2. Unsent(k)' = Unsent(k) /\ StepOK(k)
      BY <2>2, <3>1 DEF Unsent, RowOK
    <3> QED
      BY <1>1, <2>2, <3>1, <3>2 DEF StepOK
  <2>3. CASE st'[k] = "unknown"
    BY <1>1, <2>3 DEF RowOK, StepOK, Unsent, Moves, daemon
  <2>4. CASE st'[k] = "pending"
    BY <1>1, <2>4 DEF RowOK, PastOK, StepOK, Unsent, Moves
  <2> QED
    BY <2>1, <2>2, <2>3, <2>4 DEF StepOK, Unsent
<1> QED
  BY <1>2, <1>3 DEF RowOK

\* A step of which that holds for every row.
LEMMA QuietStep ==
  ASSUME Inv, TypeInv', \A k \in Post : Moves(k),
         UNCHANGED <<posted, flight, resend, had>>, \A k \in Post : inWindow'[k] => inWindow[k],
         \A k \in Post : st'[k] = "sending" => phase' = "down" \/ UNCHANGED daemon,
         \A k \in Post : st'[k] = "unknown" => phase' # "queried" \/ (st[k] = "unknown" /\ UNCHANGED daemon)
  PROVE  CopiesInv'
<1> SUFFICES ASSUME NEW k \in Post PROVE RowOK(k)'
  BY DEF CopiesInv
<1> QED
  BY QuietRow DEF Inv, CopiesInv

\* Between two rows nothing is in sending.
LEMMA IdleQuiet == Inv /\ phase \in {"idle", "queried"} => \A k \in Job : st[k] # "sending"
BY DEF Inv, Owned

LEMMA UnbornFrame ==
  ASSUME Unborn, UNCHANGED <<binding, pend>>,
         \A k \in Notice \cup Card : st[k] = "none" => st'[k] = "none"
  PROVE  Unborn'
BY DEF Unborn

-----------------------------------------------------------------------------
\* What Settle does to the other rows.
LEMMA SettleMoves ==
  ASSUME NEW j \in Job, NEW v, TypeInv, Settle(j, v), st[j] # "none"
  PROVE  /\ st'[j] = v
         /\ \A k \in Job \ {j} : \/ st'[k] = st[k]
                                 \/ st[k] = "pending" /\ st'[k] = "cancelled"
                                 \/ st[k] = "none" /\ st'[k] = "pending"
         /\ \A k \in Notice \cup Card : st[k] = "none" => st'[k] = "none"
<1>1. PICK tail \in SUBSET Job, own \in SUBSET Alert, group \in SUBSET Alert :
        /\ \A k \in tail : st[k] = "pending" /\ k # j
        /\ \A k \in own \cup group : st[k] = "none"
        /\ SettleWith(j, v, tail, own, group)
  <2>1. \A k \in Later(j) : k \in Job /\ st[k] = "pending" /\ k # j
    BY GroupShape DEF Later
  <2>2. \A k \in OwnAlert(j) \cup GroupAlert(j, v) : st[k] = "none" /\ k \in Alert
    BY GroupShape DEF OwnAlert, GroupAlert, Fresh
  <2> QED
    BY <2>1, <2>2 DEF Settle
<1>2. \A k \in Job : st'[k] = IF k = j THEN v ELSE IF k \in tail THEN "cancelled"
                                ELSE IF k \in own \cup group THEN "pending" ELSE st[k]
  BY <1>1 DEF SettleWith
<1>3. \A k \in Notice \cup Card : k \in Job /\ k \notin own \cup group
  BY <1>1, JobKinds
<1>4. \A k \in Notice \cup Card : st[k] = "none" => st'[k] = "none"
  BY <1>1, <1>2, <1>3
<1>5. \A k \in Job \ {j} : \/ st'[k] = st[k]
                           \/ st[k] = "pending" /\ st'[k] = "cancelled"
                           \/ st[k] = "none" /\ st'[k] = "pending"
  <2>1. ASSUME NEW k \in Job \ {j}
        PROVE  \/ st'[k] = st[k]
               \/ st[k] = "pending" /\ st'[k] = "cancelled"
               \/ st[k] = "none" /\ st'[k] = "pending"
    <3>1. st'[k] = IF k \in tail THEN "cancelled" ELSE IF k \in own \cup group THEN "pending" ELSE st[k]
      BY <1>2
    <3>2. (k \in tail => st[k] = "pending") /\ (k \in own \cup group => st[k] = "none")
      BY <1>1
    <3> QED
      BY <3>1, <3>2
  <2> QED
    BY <2>1
<1>6. st'[j] = v
  BY <1>2
<1> QED
  BY <1>4, <1>5, <1>6

\* "failed" is only given to a row without a copy.
LEMMA HonestSettle ==
  ASSUME NEW j \in Job, Inv, SettleByHad(j), Unsent(j)
  PROVE  \A k \in Post : Moves(k)
<1> SUFFICES ASSUME NEW k \in Post PROVE Moves(k)
  OBVIOUS
<1>1. st[j] \in {"pending", "sending"} /\ TypeInv
  BY DEF Unsent, Inv
<1>2. CASE k # j
  BY <1>1, <1>2, SettleMoves DEF SettleByHad, Moves
<1>3. CASE k = j /\ had[j]
  BY <1>1, <1>3, SettleMoves DEF SettleByHad, Moves
<1>4. CASE k = j /\ ~had[j]
  <2>1. st'[j] = "failed"
    BY <1>1, <1>4, SettleMoves DEF SettleByHad
  <2>2. Copies(j) <= 0 /\ Copies(j) \in Nat
    BY <1>1, <1>4, Numbers DEF Inv, CopiesInv, RowOK, PastOK, StepOK, Copies
  <2> QED
    BY <1>4, <2>1, <2>2 DEF Moves
<1> QED
  BY <1>2, <1>3, <1>4

LEMMA UnconfirmedSettle ==
  ASSUME NEW j \in Job, Inv, Settle(j, "unconfirmed"), st[j] # "none"
  PROVE  \A k \in Post : Moves(k)
BY SettleMoves DEF Inv, Moves

\* A verdict keeps the invariant, whether _prepare, _finalize or a verification gives it.
LEMMA SettleStep ==
  ASSUME Inv, TypeInv', NEW j \in Job, NEW v \in Terminal, Settle(j, v), st[j] # "none",
         \A k \in Post : Moves(k),
         phase' = "idle", \A k \in Job \ {j} : st[k] # "sending",
         UNCHANGED <<binding, pend, posted, flight, resend, had, inWindow>>
  PROVE  Owned' /\ Unborn' /\ CopiesInv'
<1>1. /\ st'[j] = v
      /\ \A k \in Job \ {j} : st'[k] = st[k] \/ st'[k] \in {"cancelled", "pending"}
      /\ \A k \in Notice \cup Card : st[k] = "none" => st'[k] = "none"
  BY SettleMoves DEF Inv
<1>2. \A k \in Job : st'[k] # "sending"
  BY <1>1
<1>3. Owned'
  BY <1>2 DEF Owned
<1>4. Unborn'
  BY <1>1, UnbornFrame DEF Inv
<1>5. CopiesInv'
  BY <1>2, QuietStep
<1> QED
  BY <1>3, <1>4, <1>5

\* Rows are cancelled and nothing else happens to them.
LEMMA CancelStep ==
  ASSUME Inv, TypeInv', NEW rows, Cancel(rows), \A k \in rows : st[k] \in Waiting,
         binding' = binding, pend' = pend \/ \A c \in Card : pend'[c] = "none" => pend[c] = "none",
         UNCHANGED <<daemon, posted, flight, resend, had, inWindow>>
  PROVE  Owned' /\ Unborn' /\ CopiesInv'
<1>1. \A k \in Job : st'[k] = st[k] \/ (st[k] \in Waiting /\ st'[k] = "cancelled")
  BY DEF Cancel
<1>2. Owned'
  <2>1. \A k \in Job : st'[k] = "sending" <=> st[k] = "sending"
    BY <1>1
  <2>2. phase \in {"prepared", "answered"} => cur \in Job
    BY DEF Inv, TypeInv, Working
  <2> QED
    BY <2>1, <2>2 DEF Inv, Owned, daemon
<1>3. Unborn'
  <2>1. \A k \in Notice \cup Card : st[k] = "none" => st'[k] = "none"
    BY <1>1
  <2>2. \A c \in Card : pend'[c] = "none" => pend[c] = "none"
    OBVIOUS
  <2> QED
    BY <2>1, <2>2 DEF Inv, Unborn
<1>4. CopiesInv'
  <2>1. \A k \in Post : Moves(k)
    BY <1>1 DEF Moves
  <2> QED
    BY <1>1, <2>1, QuietStep
<1> QED
  BY <1>2, <1>3, <1>4

-----------------------------------------------------------------------------
\* One lemma for each group of actions.
LEMMA PrepareSendInv ==
  ASSUME Inv, TypeInv', NEW j \in Job, PrepareSend(j)
  PROVE  Owned' /\ Unborn' /\ CopiesInv'
<1>1. /\ phase = "idle" /\ phase' = "prepared" /\ cur' = j /\ st' = [st EXCEPT ![j] = "sending"]
      /\ st[j] = "pending" \/ (st[j] = "unknown" /\ j \in Blind)
      /\ UNCHANGED <<binding, pend, posted, flight, resend, had>>
      /\ inWindow' \in {inWindow, [inWindow EXCEPT ![j] = FALSE]}
  BY DEF PrepareSend, ToSending, Passes, Ready, world
<1>2. TypeInv /\ CopiesInv /\ Unborn
  BY DEF Inv
<1>3. \A k \in Job : st'[k] = IF k = j THEN "sending" ELSE st[k]
  BY <1>1, <1>2 DEF TypeInv, TypeOK, QueueOK
<1>4. Owned'
  BY <1>1, <1>3, IdleQuiet DEF Owned
<1>5. Unborn'
  BY <1>1, <1>2, <1>3, UnbornFrame
<1>6. \A k \in Post : inWindow'[k] => inWindow[k]
  BY <1>1, <1>2 DEF TypeInv, TypeOK, SlackOK
<1>7. CopiesInv'
  <2> SUFFICES ASSUME NEW k \in Post PROVE RowOK(k)'
    BY DEF CopiesInv
  <2>1. RowOK(k) /\ Copies(k)' = Copies(k) /\ resend'[k] = resend[k] /\ had'[k] = had[k] /\ posted'[k] = posted[k]
    BY <1>1, <1>2 DEF CopiesInv, Copies
  <2>2. CASE k = j
    <3>1. st[k] = "pending" /\ st'[k] = "sending" /\ phase' = "prepared"
      BY <1>1, <1>3, <2>2, JobKinds
    <3>2. Copies(k) <= resend[k]
      BY <2>1, <3>1 DEF RowOK, StepOK, Unsent
    <3> QED
      BY <1>6, <2>1, <3>1, <3>2 DEF RowOK, PastOK, StepOK, Unsent
  <2>3. CASE k # j
    <3>1. st'[k] = st[k] /\ st[k] # "sending"
      BY <1>1, <1>3, <2>3, IdleQuiet
    <3> QED
      BY <1>1, <1>6, <2>1, <3>1 DEF RowOK, PastOK, StepOK, Unsent
  <2> QED
    BY <2>2, <2>3
<1> QED
  BY <1>4, <1>5, <1>7

LEMMA PrepareInv ==
  ASSUME Inv, TypeInv', NEW j \in Job, Prepare(j)
  PROVE  Owned' /\ Unborn' /\ CopiesInv'
<1>1. CASE PrepareCancelled(j)
  <2>1. Cancel({j}) /\ st[j] \in Waiting /\ UNCHANGED <<binding, pend, daemon, posted, flight, resend, had, inWindow>>
    BY <1>1 DEF PrepareCancelled, Ready, attempt, verify, world, slack
  <2> QED
    BY <2>1, CancelStep
<1>2. ASSUME PrepareCapped(j) \/ PrepareRefused(j)
      PROVE  /\ Ready(j) /\ phase = "idle" /\ phase' = "idle"
             /\ UNCHANGED <<binding, pend, posted, flight, resend, had, inWindow>>
             /\ \A k \in Job : st[k] # "sending"
  BY <1>2, IdleQuiet DEF PrepareCapped, PrepareRefused, Passes, Ready, attempt, verify, daemon, world, slack
<1>3. CASE PrepareCapped(j)
  <2>1. st[j] # "none" /\ (j \in Post => Unsent(j)) /\ TypeInv
    BY <1>2, <1>3, JobKinds DEF Ready, Unsent, Inv
  <2>2. CASE j \in Blind
    <3>1. Settle(j, "failed")
      BY <1>3, <2>2 DEF PrepareCapped
    <3>2. \A k \in Post : Moves(k)
      BY <2>1, <2>2, <3>1, SettleMoves, JobKinds DEF Moves
    <3> QED
      BY <1>2, <1>3, <2>1, <3>1, <3>2, SettleStep
  <2>3. CASE j \notin Blind
    <3>1. SettleByHad(j)
      BY <1>3, <2>3 DEF PrepareCapped
    <3>2. \A k \in Post : Moves(k)
      BY <2>1, <2>3, <3>1, HonestSettle
    <3>3. PICK v \in Terminal : Settle(j, v)
      BY <3>1 DEF SettleByHad
    <3> QED
      BY <1>2, <1>3, <2>1, <3>2, <3>3, SettleStep
  <2> QED
    BY <2>2, <2>3
<1>4. CASE PrepareRefused(j)
  <2>1. Settle(j, "unconfirmed") /\ st[j] # "none"
    BY <1>2, <1>4 DEF PrepareRefused, Ready
  <2> QED
    BY <1>2, <1>4, <2>1, UnconfirmedSettle, SettleStep
<1> QED
  BY <1>1, <1>3, <1>4, PrepareSendInv DEF Prepare

\* The request is made: at most one copy more, and none if Slack refused.
LEMMA TransmitInv ==
  ASSUME Inv, TypeInv', Transmit
  PROVE  Owned' /\ Unborn' /\ CopiesInv'
<1>1. /\ phase = "prepared" /\ phase' = "answered" /\ UNCHANGED <<st, cur, had, resend, binding, pend>>
      /\ cur \in Job /\ st[cur] = "sending" /\ TypeInv /\ CopiesInv
  BY DEF Transmit, TransmitOk, TransmitUnknown, TransmitRefused, Answer, queue, attempt, verify, world,
         Inv, TypeInv, Working, Owned
<1>2. Owned'
  BY <1>1 DEF Inv, Owned
<1>3. Unborn'
  BY <1>1, UnbornFrame DEF Inv
<1>4. \A k \in Post \ {cur} : /\ posted'[k] = posted[k] /\ flight'[k] = flight[k]
                              /\ inWindow'[k] = inWindow[k]
  BY <1>1 DEF Transmit, TransmitOk, TransmitUnknown, TransmitRefused, slack, Appears, TypeInv, TypeOK, SlackOK, Counters
<1>5. ASSUME cur \in Post
      PROVE  \/ /\ posted'[cur] = posted[cur] /\ flight'[cur] = flight[cur]
                /\ inWindow'[cur] = inWindow[cur] /\ ans' # "sent"
             \/ /\ posted'[cur] = posted[cur] + 1 /\ flight'[cur] = flight[cur] /\ ans' \notin Refusals
             \/ /\ posted'[cur] = posted[cur] /\ flight'[cur] = flight[cur] + 1
                /\ inWindow'[cur] = inWindow[cur] /\ ans' = "unknown"
  <2>1. CASE TransmitOk
    BY <1>1, <1>5, <2>1 DEF TransmitOk, Answer, Appears, TypeInv, TypeOK, SlackOK, Counters
  <2>2. CASE TransmitUnknown
    BY <1>1, <1>5, <2>2 DEF TransmitUnknown, Answer, Appears, slack, TypeInv, TypeOK, SlackOK, Counters
  <2>3. CASE \E a \in Refusals : TransmitRefused(a)
    BY <1>1, <1>5, <2>3 DEF TransmitRefused, Answer, slack
  <2> QED
    BY <2>1, <2>2, <2>3 DEF Transmit
<1>6. CopiesInv'
  <2> SUFFICES ASSUME NEW k \in Post PROVE RowOK(k)'
    BY DEF CopiesInv
  <2>1. /\ RowOK(k) /\ st'[k] = st[k] /\ had'[k] = had[k] /\ resend'[k] = resend[k]
        /\ posted[k] \in Nat /\ flight[k] \in Nat /\ resend[k] \in Nat
    BY <1>1, Numbers DEF CopiesInv
  <2>2. CASE k # cur
    <3>1. st[k] # "sending"
      BY <1>1, <2>2 DEF Inv, Owned
    <3> QED
      BY <1>1, <1>4, <2>1, <2>2, <3>1 DEF RowOK, PastOK, StepOK, Unsent, Copies
  <2>3. CASE k = cur
    <3>1. Copies(k) <= resend[k]
      BY <1>1, <2>1, <2>3 DEF RowOK, StepOK, Unsent
    <3>2. /\ posted'[k] + flight'[k] <= 1 + resend[k] /\ posted'[k] \in Nat
          /\ ans' \in Refusals => posted'[k] + flight'[k] <= resend[k]
          /\ ans' = "sent" => posted'[k] > 0
          /\ inWindow'[k] => inWindow[k] \/ posted'[k] > 0
          /\ posted'[k] >= posted[k]
      BY <1>5, <2>1, <2>3, <3>1 DEF Copies
    <3> QED
      BY <1>1, <2>1, <2>3, <3>2 DEF RowOK, PastOK, StepOK, Unsent, Copies
  <2> QED
    BY <2>2, <2>3
<1> QED
  BY <1>2, <1>3, <1>6

LEMMA ArriveInv ==
  ASSUME Inv, TypeInv', NEW j \in Job, Arrive(j)
  PROVE  Owned' /\ Unborn' /\ CopiesInv'
<1>1. /\ UNCHANGED <<st, had, resend, phase, cur, ans, binding, pend>> /\ TypeInv /\ CopiesInv
      /\ posted' = [posted EXCEPT ![j] = @ + 1] /\ flight' = [flight EXCEPT ![j] = @ - 1]
      /\ inWindow' = [inWindow EXCEPT ![j] = TRUE]
  BY DEF Arrive, Appears, queue, attempt, verify, daemon, world, Inv
<1>2. Owned' /\ Unborn'
  BY <1>1 DEF Inv, Owned, Unborn
<1>3. CopiesInv'
  <2> SUFFICES ASSUME NEW k \in Post PROVE RowOK(k)'
    BY DEF CopiesInv
  <2>1. /\ RowOK(k) /\ st'[k] = st[k] /\ had'[k] = had[k] /\ resend'[k] = resend[k]
        /\ posted[k] \in Nat /\ flight[k] \in Nat /\ resend[k] \in Nat
    BY <1>1, Numbers DEF CopiesInv
  <2>2. /\ posted'[k] \in Nat /\ flight'[k] \in Int
        /\ posted'[k] + flight'[k] = posted[k] + flight[k] /\ posted'[k] >= posted[k]
        /\ inWindow'[k] => inWindow[k] \/ posted'[k] > 0
    <3>1. posted \in [Job -> Nat] /\ flight \in [Job -> Nat] /\ inWindow \in [Job -> BOOLEAN]
      BY <1>1 DEF TypeInv, TypeOK, SlackOK, Counters
    <3>2. CASE k = j
      <4>1. posted'[k] = posted[k] + 1 /\ flight'[k] = flight[k] - 1
        BY <1>1, <3>1, <3>2
      <4> QED
        BY <2>1, <4>1
    <3>3. CASE k # j
      <4>1. posted'[k] = posted[k] /\ flight'[k] = flight[k] /\ inWindow'[k] = inWindow[k]
        BY <1>1, <3>1, <3>3
      <4> QED
        BY <2>1, <4>1
    <3> QED
      BY <3>2, <3>3
  <2>3. PastOK(k)'
    BY <2>1, <2>2 DEF RowOK, PastOK, Copies
  <2>4. StepOK(k)'
    BY <1>1, <2>1, <2>2 DEF RowOK, StepOK, Copies, Unsent
  <2> QED
    BY <2>3, <2>4 DEF RowOK
<1> QED
  BY <1>2, <1>3

-----------------------------------------------------------------------------
\* The daemon's row moves on, nothing else does.
LEMMA MoveStep ==
  ASSUME Inv, TypeInv', NEW j \in Job, NEW v \in {"sent", "pending", "unknown"},
         st' = [st EXCEPT ![j] = v], st[j] # "none", j \in Post => Moves(j),
         phase' = "idle", \A k \in Job \ {j} : st[k] # "sending",
         UNCHANGED <<binding, pend, posted, flight, resend, inWindow>>,
         \A k \in Post \ {j} : had'[k] = had[k],
         j \in Post /\ had'[j] # had[j] => v = "unknown" /\ had'[j]
  PROVE  Owned' /\ Unborn' /\ CopiesInv'
<1>1. \A k \in Job : st'[k] = IF k = j THEN v ELSE st[k]
  BY DEF Inv, TypeInv, TypeOK, QueueOK
<1>2. Owned' /\ Unborn'
  BY <1>1, UnbornFrame DEF Inv, Owned
<1>3. CopiesInv'
  <2> SUFFICES ASSUME NEW k \in Post PROVE RowOK(k)'
    BY DEF CopiesInv
  <2>1. Moves(k) /\ st'[k] # "sending" /\ (had'[k] # had[k] => st'[k] = "unknown" /\ had'[k])
    BY <1>1 DEF Moves
  <2> QED
    BY <2>1, QuietRow DEF Inv, CopiesInv
<1> QED
  BY <1>2, <1>3

LEMMA FinalizeInv ==
  ASSUME Inv, TypeInv', Finalize
  PROVE  Owned' /\ Unborn' /\ CopiesInv'
<1>1. /\ phase = "answered" /\ phase' = "idle" /\ cur \in Job /\ st[cur] = "sending" /\ TypeInv
      /\ \A k \in Job \ {cur} : st[k] # "sending"
      /\ UNCHANGED <<binding, pend, posted, flight, resend, inWindow>>
  <2>1. /\ phase = "answered" /\ phase' = "idle" /\ st[cur] = "sending"
        /\ UNCHANGED <<binding, pend, posted, flight, resend, inWindow>>
    BY DEF Finalize, FinalizeSent, Identified, FinalizeFailed, FinalizeRejected, FinalizeRatelimited, FinalizeNotSent,
           FinalizeWait, FinalizeUnknown, Finalizing, Idle, verify, world, slack
  <2> QED
    BY <2>1 DEF Inv, Owned, TypeInv, Working
<1>2. ASSUME ans \in Refusals PROVE Unsent(cur)
  BY <1>1, <1>2 DEF Unsent
<1>3. ASSUME ans \in Refusals, SettleByHad(cur), had' = had
      PROVE  Owned' /\ Unborn' /\ CopiesInv'
  <2>1. PICK v \in Terminal : Settle(cur, v)
    BY <1>3 DEF SettleByHad
  <2> QED
    BY <1>1, <1>2, <1>3, <2>1, HonestSettle, SettleStep
<1>4. ASSUME ans \in Refusals, Retry, had' = had
      PROVE  Owned' /\ Unborn' /\ CopiesInv'
  <2>1. st' = [st EXCEPT ![cur] = "pending"] /\ st'[cur] = "pending"
    BY <1>1, <1>4 DEF Retry, TypeInv, TypeOK, QueueOK
  <2>2. Moves(cur)
    BY <1>1, <1>2, <1>4, <2>1 DEF Moves
  <2> QED
    BY <1>1, <1>4, <2>1, <2>2, MoveStep
<1>5. CASE FinalizeSent
  <2>1. st' = [st EXCEPT ![cur] = "sent"] /\ st'[cur] = "sent" /\ had' = had /\ ans = "sent"
    BY <1>1, <1>5 DEF FinalizeSent, Identified, Finalizing, attempt, TypeInv, TypeOK, QueueOK
  <2>2. cur \in Post => Moves(cur)
    BY <1>1, <2>1 DEF Inv, CopiesInv, RowOK, StepOK, Moves
  <2> QED
    BY <1>1, <2>1, <2>2, MoveStep
<1>6. CASE FinalizeFailed
  <2>1. ans \in Refusals /\ had' = had
    BY <1>6 DEF FinalizeFailed, Finalizing, attempt
  <2>2. CASE cur \in Post
    BY <1>3, <1>6, <2>1, <2>2 DEF FinalizeFailed
  <2>3. CASE cur \notin Post
    <3>1. Settle(cur, "failed")
      BY <1>6, <2>3 DEF FinalizeFailed
    <3>2. \A k \in Post : Moves(k)
      BY <1>1, <2>3, <3>1, SettleMoves DEF Moves
    <3> QED
      BY <1>1, <2>1, <3>1, <3>2, SettleStep
  <2> QED
    BY <2>2, <2>3
<1>7. CASE FinalizeRejected
  <2>1. ans \in Refusals /\ had' = had
    BY <1>7 DEF FinalizeRejected, Finalizing
  <2>2. CASE Settle(cur, "unconfirmed")
    BY <1>1, <2>1, <2>2, UnconfirmedSettle, SettleStep
  <2>3. CASE Retry
    BY <1>4, <2>1, <2>3
  <2> QED
    BY <1>7, <2>2, <2>3 DEF FinalizeRejected
<1>8. CASE FinalizeRatelimited \/ FinalizeNotSent \/ FinalizeWait
  <2>1. ans \in Refusals /\ had' = had /\ (SettleByHad(cur) \/ Retry)
    BY <1>8 DEF FinalizeRatelimited, FinalizeNotSent, FinalizeWait, Finalizing
  <2> QED
    BY <1>3, <1>4, <2>1
<1>9. CASE FinalizeUnknown
  <2>1. /\ st' = [st EXCEPT ![cur] = "unknown"] /\ st'[cur] = "unknown"
        /\ \A k \in Post \ {cur} : had'[k] = had[k]
        /\ cur \in Post => had'[cur] = TRUE
    BY <1>1, <1>9 DEF FinalizeUnknown, TypeInv, TypeOK, QueueOK, AttemptOK
  <2>2. cur \in Post => Moves(cur)
    BY <1>1, <2>1 DEF Moves
  <2> QED
    BY <1>1, <2>1, <2>2, MoveStep
<1> QED
  BY <1>5, <1>6, <1>7, <1>8, <1>9 DEF Finalize

-----------------------------------------------------------------------------
\* Nothing happens that the invariant speaks of.
LEMMA StillStep ==
  ASSUME Inv, TypeInv', UNCHANGED <<st, binding, pend, posted, flight, resend, had, inWindow>>,
         UNCHANGED daemon \/ (phase = "queried" /\ phase' = "idle")
  PROVE  Owned' /\ Unborn' /\ CopiesInv'
<1>1. Owned'
  <2>1. CASE UNCHANGED daemon
    BY <2>1 DEF Inv, Owned, daemon
  <2>2. CASE phase = "queried" /\ phase' = "idle"
    BY <2>2, IdleQuiet DEF Owned
  <2> QED
    BY <2>1, <2>2
<1>2. Unborn'
  BY DEF Inv, Unborn
<1>3. CopiesInv'
  <2>1. \A k \in Post : Moves(k)
    BY DEF Moves
  <2>2. \A k \in Post : st[k] = "sending" => UNCHANGED daemon
    BY IdleQuiet
  <2> QED
    BY <2>1, <2>2, QuietStep
<1> QED
  BY <1>1, <1>2, <1>3

LEMMA VerifyQueryInv ==
  ASSUME Inv, TypeInv', NEW j \in Job, NEW a \in Findings, VerifyQuery(j, a)
  PROVE  Owned' /\ Unborn' /\ CopiesInv'
<1>1. /\ UNCHANGED <<st, had, resend, posted, flight, inWindow, binding, pend>>
      /\ phase = "idle" /\ phase' = "queried" /\ cur' = j /\ ans' = a /\ CopiesInv
      /\ a = "hit" => inWindow[j]
      /\ \A k \in Job : st[k] # "sending"
  BY IdleQuiet DEF VerifyQuery, Seen, queue, attempt, verify, world, slack, Inv
<1>2. Owned' /\ Unborn'
  BY <1>1 DEF Inv, Owned, Unborn
<1>3. CopiesInv'
  BY <1>1 DEF CopiesInv, RowOK, PastOK, StepOK, Unsent, Copies
<1> QED
  BY <1>2, <1>3

\* The one way back from unknown to pending is counted, so the copy it risks is, too.
LEMMA VerifyResendInv ==
  ASSUME Inv, TypeInv', VerifyResend
  PROVE  Owned' /\ Unborn' /\ CopiesInv'
<1>1. /\ phase = "queried" /\ phase' = "idle" /\ cur \in Post /\ st[cur] = "unknown" /\ resend[cur] = 0
      /\ UNCHANGED <<had, posted, flight, inWindow, binding, pend>> /\ TypeInv /\ CopiesInv /\ Unborn
      /\ st' = [st EXCEPT ![cur] = "pending"] /\ resend' = [resend EXCEPT ![cur] = @ + 1]
  BY DEF VerifyResend, NewRound, Verifying, Unmoved, Idle, Inv, TypeInv, Working, attempt, world, slack
<1>2. /\ \A k \in Job : st'[k] = IF k = cur THEN "pending" ELSE st[k]
      /\ \A k \in Job : resend'[k] = IF k = cur THEN 1 ELSE resend[k]
      /\ \A k \in Job : st[k] # "sending"
  BY <1>1, IdleQuiet DEF TypeInv, TypeOK, QueueOK, VerifyOK, Counters
<1>3. Owned' /\ Unborn'
  BY <1>1, <1>2, UnbornFrame DEF Owned
<1>4. CopiesInv'
  <2> SUFFICES ASSUME NEW k \in Post PROVE RowOK(k)'
    BY DEF CopiesInv
  <2>1. /\ RowOK(k) /\ Copies(k)' = Copies(k) /\ posted'[k] = posted[k] /\ had'[k] = had[k]
        /\ inWindow'[k] = inWindow[k] /\ Copies(k) \in Nat
    BY <1>1, Numbers DEF CopiesInv, Copies
  <2>2. CASE k = cur
    <3>1. had[k] /\ Copies(k) <= 1 /\ st'[k] = "pending" /\ resend'[k] = 1
      BY <1>1, <1>2, <2>1, <2>2 DEF RowOK, PastOK
    <3> QED
      BY <2>1, <3>1 DEF RowOK, PastOK, StepOK, Unsent
  <2>3. CASE k # cur
    <3>1. st'[k] = st[k] /\ resend'[k] = resend[k] /\ st[k] # "sending"
      BY <1>2, <2>3
    <3> QED
      BY <1>1, <2>1, <3>1 DEF RowOK, PastOK, StepOK, Unsent
  <2> QED
    BY <2>2, <2>3
<1> QED
  BY <1>3, <1>4

LEMMA VerifyInv ==
  ASSUME Inv, TypeInv', VerifyCommit
  PROVE  Owned' /\ Unborn' /\ CopiesInv'
<1>1. CASE VerifyStale \/ VerifyAbsent \/ VerifyThrottled
  <2>1. /\ phase = "queried" /\ phase' = "idle"
        /\ UNCHANGED <<st, binding, pend, posted, flight, resend, had, inWindow>>
    BY <1>1 DEF VerifyStale, VerifyAbsent, VerifyThrottled, Verifying, Idle, queue, attempt, verify, world, slack
  <2> QED
    BY <2>1, StillStep
<1>2. ASSUME VerifyHit \/ VerifyGivesUp \/ VerifyPermanent \/ VerifyError
      PROVE  /\ phase = "queried" /\ phase' = "idle" /\ cur \in Post /\ st[cur] = "unknown" /\ TypeInv
             /\ UNCHANGED <<binding, pend, posted, flight, resend, had, inWindow>>
             /\ \A k \in Job \ {cur} : st[k] # "sending"
  <2>1. /\ phase = "queried" /\ phase' = "idle" /\ st[cur] = "unknown"
        /\ UNCHANGED <<binding, pend, posted, flight, resend, had, inWindow>>
    BY <1>2 DEF VerifyHit, VerifyGivesUp, VerifyPermanent, VerifyError, Verifying, Unmoved, Idle,
                attempt, verify, world, slack
  <2> QED
    BY <2>1, IdleQuiet DEF Inv, TypeInv, Working
<1>3. CASE VerifyHit
  <2>1. st' = [st EXCEPT ![cur] = "sent"] /\ st'[cur] = "sent" /\ ans = "hit"
    BY <1>2, <1>3 DEF VerifyHit, Verifying, TypeInv, TypeOK, QueueOK
  <2>2. Moves(cur)
    BY <1>2, <1>3, <2>1 DEF Inv, CopiesInv, RowOK, StepOK, Moves
  <2> QED
    BY <1>2, <1>3, <2>1, <2>2, MoveStep
<1>4. CASE VerifyGivesUp \/ VerifyPermanent \/ (VerifyError /\ Settle(cur, "unconfirmed"))
  <2>1. Settle(cur, "unconfirmed")
    BY <1>4 DEF VerifyGivesUp, VerifyPermanent
  <2> QED
    BY <1>2, <1>4, <2>1, UnconfirmedSettle, SettleStep
<1>5. CASE VerifyError /\ UNCHANGED queue
  <2>1. st' = st
    BY <1>5 DEF queue
  <2> QED
    BY <1>2, <1>5, <2>1, StillStep
<1> QED
  BY <1>1, <1>3, <1>4, <1>5, VerifyResendInv DEF VerifyCommit, VerifyError

-----------------------------------------------------------------------------
\* Everybody else.
LEMMA CreateStep ==
  ASSUME Inv, TypeInv', NEW new, \A k \in new : st[k] = "none",
         \A k \in Job : st'[k] = IF k \in new THEN "pending" ELSE st[k],
         UNCHANGED <<daemon, posted, flight, resend, had, inWindow>>
  PROVE  Owned' /\ CopiesInv'
<1>1. Owned'
  <2>1. \A k \in Job : st'[k] = "sending" <=> st[k] = "sending"
    OBVIOUS
  <2>2. phase \in {"prepared", "answered"} => cur \in Job
    BY DEF Inv, TypeInv, Working
  <2> QED
    BY <2>1, <2>2 DEF Inv, Owned, daemon
<1>2. CopiesInv'
  <2>1. \A k \in Post : Moves(k)
    BY DEF Moves
  <2> QED
    BY <2>1, QuietStep
<1> QED
  BY <1>1, <1>2

LEMMA ActivateInv == ASSUME Inv, TypeInv', Activate PROVE Owned' /\ Unborn' /\ CopiesInv'
<1>1. /\ binding = "starting" /\ binding' = "active" /\ pend' = pend /\ Unborn
      /\ \A k \in Job : st'[k] = IF k \in OpenNotice THEN "pending" ELSE st[k]
      /\ UNCHANGED <<daemon, posted, flight, resend, had, inWindow>>
  BY DEF Activate, Create, attempt, verify, slack, Inv
<1>2. \A k \in OpenNotice : st[k] = "none"
  BY <1>1 DEF Unborn
<1>3. Unborn'
  BY <1>1, JobKinds DEF Unborn
<1> QED
  BY <1>1, <1>2, <1>3, CreateStep

LEMMA StopHookInv ==
  ASSUME Inv, TypeInv', NEW g \in Turns, StopHook(g) PROVE Owned' /\ Unborn' /\ CopiesInv'
<1> DEFINE chunks == {c \in Chunk : Group[c] = g}
<1>1. /\ \A k \in Job : st'[k] = IF k \in chunks THEN "pending" ELSE st[k]
      /\ \A k \in chunks : st[k] = "none"
      /\ UNCHANGED <<daemon, posted, flight, resend, had, inWindow, binding, pend>>
  BY DEF StopHook, attempt, verify, slack, world
<1>2. \A k \in Notice \cup Card : st'[k] = st[k]
  BY <1>1, JobKinds
<1>3. Unborn'
  BY <1>1, <1>2, UnbornFrame DEF Inv
<1> QED
  BY <1>1, <1>3, CreateStep

LEMMA AskApprovalInv ==
  ASSUME Inv, TypeInv', NEW c \in Card, AskApproval(c) PROVE Owned' /\ Unborn' /\ CopiesInv'
<1>1. /\ \A k \in Job : st'[k] = IF k \in {c} THEN "pending" ELSE st[k]
      /\ pend[c] = "none" /\ pend' = [pend EXCEPT ![c] = "pending"] /\ binding' = binding
      /\ UNCHANGED <<daemon, posted, flight, resend, had, inWindow>>
  BY DEF AskApproval, Create, attempt, verify, slack
<1>2. \A k \in {c} : st[k] = "none"
  BY <1>1 DEF Inv, Unborn
<1>3. Unborn'
  <2>1. \A d \in Card : pend'[d] = "none" => pend[d] = "none" /\ d # c
    BY <1>1 DEF Inv, TypeInv, TypeOK, WorldOK
  <2> QED
    BY <1>1, <2>1, JobKinds DEF Inv, Unborn
<1> QED
  BY <1>1, <1>2, <1>3, CreateStep

LEMMA QueueReceiptInv ==
  ASSUME Inv, TypeInv', NEW r \in Reaction, QueueReceipt(r) PROVE Owned' /\ Unborn' /\ CopiesInv'
<1>1. /\ \A k \in Job : st'[k] = IF k \in {r} THEN "pending" ELSE st[k]
      /\ \A k \in {r} : st[k] = "none"
      /\ UNCHANGED <<daemon, posted, flight, resend, had, inWindow, binding, pend>>
  BY DEF QueueReceipt, Create, attempt, verify, slack, world
<1>2. \A k \in Notice \cup Card : st'[k] = st[k]
  BY <1>1, JobKinds
<1>3. Unborn'
  BY <1>1, <1>2, UnbornFrame DEF Inv
<1> QED
  BY <1>1, <1>3, CreateStep

\* A transaction of somebody else inserts rows and cancels waiting ones, and so never
\* meets the daemon's current one.
LEMMA OutsiderStep ==
  ASSUME Inv, TypeInv',
         \A k \in Job : \/ st'[k] = st[k]
                        \/ st[k] \in Waiting /\ st'[k] = "cancelled"
                        \/ st[k] = "none" /\ st'[k] = "pending",
         UNCHANGED <<daemon, posted, flight, resend, had, inWindow>>
  PROVE  Owned' /\ CopiesInv'
<1>1. Owned'
  <2>1. \A k \in Job : st'[k] = "sending" <=> st[k] = "sending"
    OBVIOUS
  <2>2. phase \in {"prepared", "answered"} => cur \in Job
    BY DEF Inv, TypeInv, Working
  <2> QED
    BY <2>1, <2>2 DEF Inv, Owned, daemon
<1>2. CopiesInv'
  <2>1. \A k \in Post : Moves(k)
    BY DEF Moves
  <2>2. \A k \in Post : (st'[k] = "sending" => UNCHANGED daemon) /\ (st'[k] = "unknown" => st[k] = "unknown")
    OBVIOUS
  <2> QED
    BY <2>1, <2>2, QuietStep
<1> QED
  BY <1>1, <1>2

\* The news of a card are update rows that did not exist.
LEMMA NewsAreNew ==
  ASSUME NEW kind \in {Interim, Outcome}, NEW cards, NEW k \in Rows(kind, cards)
  PROVE  k \in Update /\ k \in Job /\ st[k] = "none" /\ k \notin Post
BY JobKinds DEF Rows, Fresh

LEMMA TerminateInv ==
  ASSUME Inv, TypeInv', NEW d \in SUBSET Reaction, Terminate(d) PROVE Owned' /\ Unborn' /\ CopiesInv'
<1> DEFINE stopped == {j \in Job : /\ st[j] \in Waiting
                                   /\ \/ j \in Turn \cup Reaction \cup Interim
                                      \/ j \in Card /\ pend[j] = "pending"}
           told == {c \in Card : pend[c] = "loading" \/ (pend[c] = "pending" /\ cardId[c])}
           news == Rows(Outcome, told)
<1>1. /\ \A k \in Job : st'[k] = IF k \in stopped THEN "cancelled"
                                 ELSE IF k \in news \cup CloseNotice THEN "pending" ELSE st[k]
      /\ binding # "closed" /\ binding' = "closed"
      /\ pend' = [c \in Card |-> IF pend[c] = "pending" THEN "expired"
                                 ELSE IF pend[c] = "loading" THEN "decided" ELSE pend[c]]
      /\ UNCHANGED <<daemon, posted, flight, resend, had, inWindow>>
  BY DEF Terminate, attempt, verify, slack
<1>2. \A k \in CloseNotice : st[k] = "none"
  BY <1>1 DEF Inv, Unborn
<1>3. \A k \in news : st[k] = "none" /\ k \notin Post
  BY NewsAreNew
<1>4. \A k \in stopped : st[k] \in Waiting
  OBVIOUS
<1> HIDE DEF stopped, told, news
<1>5. \A k \in Job : \/ st'[k] = st[k]
                     \/ st[k] \in Waiting /\ st'[k] = "cancelled"
                     \/ st[k] = "none" /\ st'[k] = "pending"
  BY <1>1, <1>2, <1>3, <1>4
<1>6. Unborn'
  <2>1. \A c \in Card : pend'[c] = "none" => pend[c] = "none"
    BY <1>1
  <2>2. \A c \in Card : st[c] = "none" => st'[c] = "none"
    BY <1>1, <1>3, <1>4, JobKinds
  <2> QED
    BY <1>1, <2>1, <2>2 DEF Inv, Unborn
<1> QED
  BY <1>1, <1>5, <1>6, OutsiderStep

LEMMA ClickInv ==
  ASSUME Inv, TypeInv', NEW c \in Card, Decide(c) \/ Approve(c) \/ LateClick(c)
  PROVE  Owned' /\ Unborn' /\ CopiesInv'
<1>1. PICK news : Click(c, news) /\ \A k \in news : st[k] = "none" /\ k \notin Post
  BY NewsAreNew DEF Decide, Approve, LateClick
<1>2. /\ phase = "idle" /\ posted[c] > 0 /\ binding' = binding
      /\ \A k \in Job : st'[k] = IF k = c /\ ~cardId[c] /\ st[c] \in Open THEN "sent"
                                 ELSE IF k \in news THEN "pending" ELSE st[k]
      /\ UNCHANGED <<daemon, posted, flight, resend, had, inWindow>>
  BY <1>1 DEF Click, Proved, attempt, verify, slack
<1>3. \A k \in Card : pend'[k] = "none" => pend[k] = "none"
  BY DEF Decide, Approve, LateClick, Inv, TypeInv, TypeOK, WorldOK
<1>4. \A k \in Job : \/ st'[k] = st[k]
                     \/ k = c /\ st'[k] = "sent" /\ st[k] # "none"
                     \/ k \notin Post /\ st'[k] = "pending"
  BY <1>1, <1>2
<1>5. Owned'
  BY <1>2, <1>4, IdleQuiet DEF Owned, daemon
<1>6. Unborn'
  BY <1>2, <1>3, <1>4 DEF Inv, Unborn
<1>7. CopiesInv'
  <2>1. \A k \in Post : Moves(k)
    BY <1>2, <1>4 DEF Moves
  <2>2. \A k \in Post : (st'[k] = "sending" => UNCHANGED daemon) /\ (st'[k] = "unknown" => st[k] = "unknown")
    BY <1>2, <1>4
  <2> QED
    BY <1>2, <2>1, <2>2, QuietStep
<1> QED
  BY <1>5, <1>6, <1>7

LEMMA LoadedInv ==
  ASSUME Inv, TypeInv', NEW c \in Card, Loaded(c) PROVE Owned' /\ Unborn' /\ CopiesInv'
<1>1. \A k \in Rows(Outcome, {c}) : st[k] = "none" /\ k \notin Post
  BY NewsAreNew
<1>2. /\ \A k \in Job : st'[k] = IF k \in Rows(Outcome, {c}) THEN "pending" ELSE st[k]
      /\ UNCHANGED <<binding, daemon, posted, flight, resend, had, inWindow>>
      /\ \A k \in Card : pend'[k] = "none" => pend[k] = "none"
  BY DEF Loaded, Create, attempt, verify, slack, Inv, TypeInv, TypeOK, WorldOK
<1>3. Unborn'
  BY <1>1, <1>2 DEF Inv, Unborn
<1> QED
  BY <1>1, <1>2, <1>3, OutsiderStep

LEMMA ExpirePendingInv ==
  ASSUME Inv, TypeInv', NEW c \in Card, ExpirePending(c) PROVE Owned' /\ Unborn' /\ CopiesInv'
<1> DEFINE news == Rows(Outcome, {k \in {c} : cardId[k]})
<1>1. \A k \in news : st[k] = "none" /\ k \notin Post
  BY NewsAreNew
<1>2. /\ \A k \in Job : st'[k] = IF k = c /\ st[k] \in Waiting THEN "cancelled"
                                 ELSE IF k \in news THEN "pending" ELSE st[k]
      /\ UNCHANGED <<binding, daemon, posted, flight, resend, had, inWindow>>
      /\ \A k \in Card : pend'[k] = "none" => pend[k] = "none"
  BY DEF ExpirePending, attempt, verify, slack, Inv, TypeInv, TypeOK, WorldOK
<1> HIDE DEF news
<1>3. Unborn'
  BY <1>1, <1>2 DEF Inv, Unborn
<1> QED
  BY <1>1, <1>2, <1>3, OutsiderStep

LEMMA OutsidersInv == ASSUME Inv, TypeInv', Outsiders PROVE Owned' /\ Unborn' /\ CopiesInv'
<1>1. CASE Disallow \/ Recapability \/ GateTick \/ \E j \in Job : Deadline(j)
  <2>1. UNCHANGED <<st, binding, pend, posted, flight, resend, had, inWindow, daemon>>
    BY <1>1 DEF Disallow, Recapability, GateTick, Deadline, queue, attempt, verify, world, slack
  <2> QED
    BY <2>1, StillStep
<1> QED
  BY <1>1, ActivateInv, StopHookInv, AskApprovalInv, ClickInv, LoadedInv, ExpirePendingInv,
     QueueReceiptInv, TerminateInv, ArriveInv DEF Outsiders

LEMMA CancelDisallowedInv == ASSUME Inv, TypeInv', CancelDisallowed PROVE Owned' /\ Unborn' /\ CopiesInv'
<1>1. /\ Cancel({j \in Job : st[j] \in Waiting})
      /\ UNCHANGED <<daemon, binding, pend, posted, flight, resend, had, inWindow>>
  BY DEF CancelDisallowed, attempt, verify, slack, world
<1> QED
  BY <1>1, CancelStep

LEMMA CrashInv == ASSUME Inv, TypeInv', Crash PROVE Owned' /\ Unborn' /\ CopiesInv'
<1>1. /\ phase' = "down" /\ UNCHANGED <<st, binding, pend, posted, flight, resend, had, inWindow>>
  BY DEF Crash, queue, attempt, verify, slack, world
<1>2. Owned' /\ Unborn'
  BY <1>1 DEF Inv, Owned, Unborn
<1>3. \A k \in Post : Moves(k)
  BY <1>1 DEF Moves
<1> QED
  BY <1>1, <1>2, <1>3, QuietStep

\* After the scan a row found in sending expects the copy it may have.
LEMMA StartupInv == ASSUME Inv, TypeInv', StartupScan PROVE Owned' /\ Unborn' /\ CopiesInv'
<1>1. /\ phase' = "idle" /\ UNCHANGED <<binding, pend, posted, flight, resend, inWindow>>
      /\ \A k \in Job : st'[k] = IF st[k] = "sending" THEN ScannedState[k] ELSE st[k]
      /\ \A k \in Job : had'[k] = (had[k] \/ k \in InDoubt)
      /\ \A k \in Job : ScannedState[k] # "sending"
  BY DEF StartupScan, StartupWith, verify, world, slack, ScannedState
<1>2. \A k \in Job : st'[k] # "sending"
  BY <1>1
<1>3. Owned' /\ Unborn'
  BY <1>1, <1>2, UnbornFrame DEF Inv, Owned
<1>4. CopiesInv'
  <2> SUFFICES ASSUME NEW k \in Post PROVE RowOK(k)'
    BY DEF CopiesInv
  <2>1. TypeInv /\ RowOK(k) /\ had[k] \in BOOLEAN /\ k \in Job
    BY Numbers DEF Inv, CopiesInv
  <2>2. CASE st[k] = "sending"
    <3>1. st'[k] = "unknown" /\ had'[k] = TRUE
      BY <1>1, <2>2, JobKinds DEF ScannedState, InDoubt
    <3>2. Moves(k)
      BY <2>2, <3>1 DEF Moves
    <3> QED
      BY <1>1, <2>1, <3>1, <3>2, QuietRow
  <2>3. CASE st[k] # "sending"
    <3>1. st'[k] = st[k] /\ had'[k] = had[k]
      BY <1>1, <2>1, <2>3 DEF InDoubt
    <3>2. Moves(k)
      BY <3>1 DEF Moves
    <3> QED
      BY <1>1, <2>1, <2>3, <3>1, <3>2, QuietRow
  <2> QED
    BY <2>2, <2>3
<1> QED
  BY <1>3, <1>4

-----------------------------------------------------------------------------
LEMMA InvNext == Inv /\ [Next]_vars => Inv'
<1> SUFFICES ASSUME Inv, [Next]_vars PROVE Inv'
  OBVIOUS
<1>1. TypeInv'
  BY TypeNext DEF Inv
<1>2. CASE UNCHANGED vars
  <2>1. UNCHANGED <<st, binding, pend, posted, flight, resend, had, inWindow, daemon>>
    BY <1>2 DEF vars, daemon
  <2> QED
    BY <1>1, <2>1, StillStep DEF Inv
<1>3. CASE Next
  <2>1. Owned' /\ Unborn' /\ CopiesInv'
    BY <1>1, <1>3, PrepareInv, VerifyQueryInv, TransmitInv, FinalizeInv, VerifyInv, CancelDisallowedInv,
       OutsidersInv, CrashInv, StartupInv DEF Next
  <2> QED
    BY <1>1, <2>1 DEF Inv
<1> QED
  BY <1>2, <1>3

LEMMA Invariance == Spec => []Inv
BY InvInit, InvNext, PTL DEF Spec

\* However the requests, the verifications, the crashes and everybody else's transactions
\* interleave, no message has more than one copy without its one resend, nor more than two
\* with it (I6 of docs/contracts.md; outbound._finalize and _verify_unknown).
THEOREM OneResendAtMost == Spec => []AtMostOneResend
<1>1. Inv => AtMostOneResend
  BY DEF Inv, CopiesInv, RowOK, PastOK, AtMostOneResend
<1> QED
  BY <1>1, Invariance, PTL

\* A row ends failed only if no copy of its message exists or can still appear: after a
\* doubtful attempt _terminal_by_had_unknown never says failed.  It ends sent, by an answer, by
\* a verification or by a click, only if its message is there.
THEOREM VerdictsAreHonest == Spec => []HonestVerdicts
<1>1. Inv => FailedMeansAbsent
  BY DEF Inv, CopiesInv, RowOK, PastOK, FailedMeansAbsent
<1>2. Inv => SentMeansPosted
  BY DEF Inv, CopiesInv, RowOK, PastOK, SentMeansPosted
<1>3. Inv => HonestVerdicts
  BY <1>1, <1>2 DEF HonestVerdicts
<1> QED
  BY <1>3, Invariance, PTL

\* Whatever brought a row back to pending, the daemon's retry or its restart, a copy it may
\* have makes it the counted resend.
THEOREM PendingIsResend == Spec => []PendingCopyIsResend
<1>1. Inv => PendingCopyIsResend
  <2> SUFFICES ASSUME Inv, NEW j \in Post, st[j] = "pending", Copies(j) > 0
               PROVE  had[j] /\ resend[j] = 1
    BY DEF PendingCopyIsResend
  <2>1. TypeInv /\ RowOK(j)
    BY DEF Inv, CopiesInv
  <2>2. Copies(j) \in Nat /\ resend[j] \in Nat /\ had[j] \in BOOLEAN
    BY <2>1, Numbers DEF Copies
  <2>3. resend[j] # 0
    BY <2>1, <2>2 DEF RowOK, StepOK, Unsent
  <2> QED
    BY <2>1, <2>2, <2>3 DEF RowOK, PastOK
<1> QED
  BY <1>1, Invariance, PTL
=============================================================================
