--------------------------- MODULE OutboundProofs ---------------------------
(***************************************************************************)
(* Outbound's types, for every number of rows, every bound and every       *)
(* environment.  The only subtraction of the code that could leave the     *)
(* naturals is attempt_count - 1, so the invariant says that a row in      *)
(* sending has been counted, and that the daemon's current row exists.     *)
(***************************************************************************)
EXTENDS Outbound, TLAPS

USE DEF Job, Post, Blind, Update, Turn, Notice, Open, Terminal, Waiting, Refusals

\* The daemon's current row exists, and its answer is one of the step it is in.
Working ==
  /\ phase \in {"prepared", "answered", "queried"} => cur \in Job
  /\ phase = "queried" => cur \in Post

\* A row in sending has been counted.
Counted == \A j \in Job : st[j] = "sending" => ac[j] > 0

TypeInv == TypeOK /\ Working /\ Counted

LEMMA TypeInit == Init => TypeInv
<1> SUFFICES ASSUME Init PROVE TypeInv
  OBVIOUS
<1> USE DEF Init
<1>1. QueueOK /\ AttemptOK
  BY DEF QueueOK, AttemptOK, Counters, States, Shapes, Forms
<1>2. VerifyOK /\ SlackOK
  BY DEF VerifyOK, SlackOK, Counters, States, Shapes, Forms
<1>3. DaemonOK /\ WorldOK /\ ConfigOK
  BY Caps DEF DaemonOK, WorldOK, ConfigOK, Findings
<1>4. Working /\ Counted
  BY DEF Working, Counted
<1> QED
  BY <1>1, <1>2, <1>3, <1>4 DEF TypeInv, TypeOK

-----------------------------------------------------------------------------
\* What a step leaves alone keeps its type.
LEMMA Frames ==
  ASSUME TypeInv
  PROVE  /\ UNCHANGED queue => QueueOK'
         /\ UNCHANGED attempt => AttemptOK'
         /\ UNCHANGED verify => VerifyOK'
         /\ UNCHANGED daemon => DaemonOK' /\ Working'
         /\ UNCHANGED world => WorldOK'
         /\ UNCHANGED config => ConfigOK'
         /\ UNCHANGED slack => SlackOK'
         /\ UNCHANGED queue /\ UNCHANGED attempt => Counted'
BY DEF TypeInv, TypeOK, QueueOK, AttemptOK, VerifyOK, DaemonOK, WorldOK, ConfigOK, SlackOK, Working,
       Counted, queue, attempt, verify, daemon, world, config, slack

LEMMA CreateTypes ==
  ASSUME TypeInv, NEW new, Create(new), UNCHANGED attempt
  PROVE  QueueOK' /\ Counted'
BY DEF TypeInv, TypeOK, QueueOK, AttemptOK, Create, Counters, States, Counted, attempt

LEMMA ActivateTypes == TypeInv /\ Activate => TypeInv'
BY Frames, CreateTypes DEF TypeInv, TypeOK, Activate, WorldOK

LEMMA SettleTypes ==
  ASSUME TypeInv, NEW j \in Job, NEW v \in Terminal, Settle(j, v), 
         \A k \in Job \ {j} : ac'[k] = ac[k]
  PROVE  QueueOK' /\ Counted'
BY DEF TypeInv, TypeOK, QueueOK, AttemptOK, Settle, SettleWith, Counters, States, Counted

LEMMA CancelTypes ==
  ASSUME TypeInv, NEW rows, Cancel(rows), UNCHANGED attempt
  PROVE  QueueOK' /\ Counted'
BY DEF TypeInv, TypeOK, QueueOK, Cancel, Counters, States, Counted, attempt

\* A verdict on a row, whichever it is; j's attempt may have been uncounted.
LEMMA SettleByHadTypes ==
  ASSUME TypeInv, NEW j \in Job, SettleByHad(j), \A k \in Job \ {j} : ac'[k] = ac[k]
  PROVE  QueueOK' /\ Counted'
<1>1. PICK v \in Terminal : Settle(j, v)
  BY DEF SettleByHad
<1> QED
  BY <1>1, SettleTypes

LEMMA IdleTypes == TypeInv /\ Idle => DaemonOK' /\ Working'
BY DEF TypeInv, TypeOK, DaemonOK, Working, Idle

LEMMA RetryTypes ==
  ASSUME TypeInv, Retry, \A k \in Job \ {cur} : ac'[k] = ac[k]
  PROVE  QueueOK' /\ Counted'
BY DEF TypeInv, TypeOK, QueueOK, Retry, States, Counted

\* Taking back an attempt that was counted leaves a natural number.
LEMMA UncountTypes ==
  ASSUME TypeInv, NEW a, Finalizing(a), Uncount
  PROVE  cur \in Job /\ ac' \in Counters /\ \A k \in Job \ {cur} : ac'[k] = ac[k]
<1>1. cur \in Job /\ ac[cur] > 0
  BY DEF TypeInv, Working, Counted, Finalizing
<1> QED
  BY <1>1 DEF TypeInv, TypeOK, AttemptOK, Counters, Uncount

LEMMA PrepareTypes == ASSUME TypeInv, NEW j \in Job, Prepare(j) PROVE TypeInv'
<1>1. CASE PrepareCancelled(j)
  BY <1>1, Frames, CancelTypes DEF PrepareCancelled, TypeInv, TypeOK, attempt
<1>2. CASE PrepareCapped(j)
  <2>1. \A k \in Job : ac'[k] = ac[k]
    BY <1>2 DEF PrepareCapped, attempt
  <2>2. QueueOK' /\ Counted'
    BY <1>2, <2>1, SettleTypes, SettleByHadTypes DEF PrepareCapped
  <2> QED
    BY <1>2, <2>2, Frames DEF PrepareCapped, TypeInv, TypeOK
<1>3. CASE PrepareRefused(j)
  <2>1. \A k \in Job : ac'[k] = ac[k]
    BY <1>3 DEF PrepareRefused, attempt
  <2>2. QueueOK' /\ Counted'
    BY <1>3, <2>1, SettleTypes DEF PrepareRefused
  <2> QED
    BY <1>3, <2>2, Frames DEF PrepareRefused, TypeInv, TypeOK
<1>4. CASE PrepareSend(j)
  <2> USE DEF TypeInv, TypeOK, PrepareSend, ToSending
  <2>1. QueueOK' /\ Counted'
    BY <1>4 DEF QueueOK, AttemptOK, Counters, States, Counted
  <2>2. OpFor(j) \in Shapes
    BY DEF OpFor, AttemptOK, ConfigOK, Shapes, Forms
  <2>3. AttemptOK'
    BY <1>4, <2>2 DEF AttemptOK, Counters
  <2>4. VerifyOK' /\ WorldOK' /\ ConfigOK'
    BY <1>4, Frames DEF VerifyOK, Counters, world, config
  <2>5. SlackOK'
    BY <1>4 DEF SlackOK
  <2>6. DaemonOK' /\ Working'
    BY <1>4 DEF DaemonOK, Working
  <2> QED
    BY <2>1, <2>3, <2>4, <2>5, <2>6
<1> QED
  BY <1>1, <1>2, <1>3, <1>4 DEF Prepare

LEMMA TransmitTypes == ASSUME TypeInv, Transmit PROVE TypeInv'
<1>1. PICK a \in Refusals \cup {"sent", "unknown"} : phase = "prepared" /\ Answer(a)
  BY DEF Transmit, TransmitOk, TransmitUnknown, TransmitRefused
<1>2. DaemonOK' /\ Working'
  BY <1>1 DEF TypeInv, TypeOK, DaemonOK, Working, Answer
<1>3. UNCHANGED <<queue, attempt, verify, world, config>>
  BY DEF Transmit, TransmitOk, TransmitUnknown, TransmitRefused
<1>4. \/ UNCHANGED slack
      \/ Accepted(cur) /\ Appears(cur) /\ UNCHANGED flight
      \/ Accepted(cur) /\ flight' = [flight EXCEPT ![cur] = @ + 1] /\ UNCHANGED <<posted, inWindow>>
  BY DEF Transmit, TransmitOk, TransmitUnknown, TransmitRefused
<1>5. cur \in Job
  BY <1>1 DEF TypeInv, Working
<1>6. SlackOK'
  <2> USE DEF TypeInv, TypeOK, SlackOK, Counters
  <2>1. CASE UNCHANGED slack
    BY <2>1, Frames
  <2>2. Accepted(cur) => forms' \in [Job -> SUBSET Shapes]
    <3>1. op[cur] \in Shapes
      BY <1>5 DEF AttemptOK
    <3>2. forms[cur] \cup {op[cur]} \in SUBSET Shapes
      BY <1>5, <3>1
    <3> QED
      BY <1>5, <3>2 DEF Accepted
  <2>3. Appears(cur) => posted' \in [Job -> Nat] /\ inWindow' \in [Job -> BOOLEAN]
    BY <1>5 DEF Appears
  <2>4. flight' = [flight EXCEPT ![cur] = @ + 1] => flight' \in [Job -> Nat]
    BY <1>5
  <2> QED
    BY <1>4, <2>1, <2>2, <2>3, <2>4
<1> QED
  BY <1>2, <1>3, <1>6, Frames DEF TypeInv, TypeOK

LEMMA FinalizeTypes == ASSUME TypeInv, Finalize PROVE TypeInv'
<1>1. PICK a : Finalizing(a)
  BY DEF Finalize, FinalizeSent, Identified, FinalizeFailed, FinalizeRejected, FinalizeRatelimited, FinalizeNotSent,
         FinalizeWait, FinalizeUnknown
<1>2. DaemonOK' /\ Working' /\ cur \in Job
  BY <1>1, IdleTypes DEF Finalizing, TypeInv, Working
<1>3. VerifyOK' /\ SlackOK' /\ UNCHANGED <<verify, slack>>
  BY Frames DEF Finalize, FinalizeSent, Identified, FinalizeFailed, FinalizeRejected, FinalizeRatelimited,
         FinalizeNotSent, FinalizeWait, FinalizeUnknown
<1>4. CASE FinalizeSent
  <2>1. QueueOK' /\ Counted'
    BY <1>4 DEF FinalizeSent, Identified, attempt, TypeInv, TypeOK, QueueOK, States, Counted
  <2>2. WorldOK'
    BY <1>4 DEF FinalizeSent, Identified, TypeInv, TypeOK, WorldOK
  <2> QED
    BY <1>2, <1>3, <1>4, <2>1, <2>2, Frames DEF FinalizeSent, Identified, TypeInv, TypeOK
<1>5. CASE FinalizeFailed
  <2>1. \A k \in Job : ac'[k] = ac[k]
    BY <1>5 DEF FinalizeFailed, attempt
  <2>2. QueueOK' /\ Counted'
    BY <1>2, <1>5, <2>1, SettleTypes, SettleByHadTypes DEF FinalizeFailed
  <2> QED
    BY <1>2, <1>3, <1>5, <2>2, Frames DEF FinalizeFailed, TypeInv, TypeOK
<1>6. CASE FinalizeRejected
  <2>1. ConfigOK' /\ WorldOK'
    BY <1>6, Frames DEF FinalizeRejected, Reshape, TypeInv, TypeOK, ConfigOK
  <2>2. CASE had[cur]
    <3>1. Settle(cur, "unconfirmed") /\ UNCHANGED <<ac, had, rl, tc, op>>
      BY <1>6, <2>2 DEF FinalizeRejected
    <3>2. QueueOK' /\ Counted' /\ AttemptOK'
      BY <1>2, <3>1, SettleTypes, Frames DEF attempt
    <3> QED
      BY <1>2, <1>3, <2>1, <3>2 DEF TypeInv, TypeOK
  <2>3. CASE ~had[cur]
    <3>1. Retry /\ Uncount /\ op' = [op EXCEPT ![cur] = "none"] /\ UNCHANGED <<had, rl, tc>>
      BY <1>6, <2>3 DEF FinalizeRejected, Reshape
    <3>2. QueueOK' /\ Counted' /\ AttemptOK'
      BY <1>1, <3>1, UncountTypes, RetryTypes DEF TypeInv, TypeOK, AttemptOK, Shapes
    <3> QED
      BY <1>2, <1>3, <2>1, <3>2 DEF TypeInv, TypeOK
  <2> QED
    BY <2>2, <2>3
<1>7. CASE FinalizeRatelimited
  <2>1. /\ Uncount /\ (SettleByHad(cur) \/ Retry)
        /\ rl' = [rl EXCEPT ![cur] = @ + 1] /\ UNCHANGED <<had, tc, op, world, config>>
    BY <1>7 DEF FinalizeRatelimited
  <2>2. QueueOK' /\ Counted' /\ AttemptOK'
    BY <1>1, <1>2, <2>1, UncountTypes, RetryTypes, SettleByHadTypes
    DEF TypeInv, TypeOK, AttemptOK, Counters
  <2> QED
    BY <1>2, <1>3, <2>1, <2>2, Frames DEF TypeInv, TypeOK
<1>8. CASE FinalizeNotSent
  <2>1. /\ Uncount /\ (SettleByHad(cur) \/ Retry)
        /\ tc' = [tc EXCEPT ![cur] = @ + 1] /\ UNCHANGED <<had, rl, op, world, config>>
    BY <1>8 DEF FinalizeNotSent
  <2>2. QueueOK' /\ Counted' /\ AttemptOK'
    BY <1>1, <1>2, <2>1, UncountTypes, RetryTypes, SettleByHadTypes
    DEF TypeInv, TypeOK, AttemptOK, Counters
  <2> QED
    BY <1>2, <1>3, <2>1, <2>2, Frames DEF TypeInv, TypeOK
<1>9. CASE FinalizeWait
  <2>1. QueueOK' /\ Counted' /\ AttemptOK'
    BY <1>1, <1>9, UncountTypes, RetryTypes DEF FinalizeWait, TypeInv, TypeOK, AttemptOK
  <2> QED
    BY <1>2, <1>3, <1>9, <2>1, Frames DEF FinalizeWait, TypeInv, TypeOK
<1>10. CASE FinalizeUnknown
  <2>1. QueueOK' /\ Counted'
    BY <1>10 DEF FinalizeUnknown, TypeInv, TypeOK, QueueOK, States, Counted
  <2>2. AttemptOK'
    BY <1>10, <1>2 DEF FinalizeUnknown, TypeInv, TypeOK, AttemptOK
  <2> QED
    BY <1>2, <1>3, <1>10, <2>1, <2>2, Frames DEF FinalizeUnknown, TypeInv, TypeOK
<1> QED
  BY <1>4, <1>5, <1>6, <1>7, <1>8, <1>9, <1>10 DEF Finalize

LEMMA VerifyTypes == ASSUME TypeInv, VerifyCommit PROVE TypeInv'
<1> USE DEF VerifyStale, VerifyHit, VerifyAbsent, VerifyResend, NewRound, VerifyGivesUp, VerifyThrottled,
        VerifyPermanent, VerifyError
<1>1. Idle /\ phase = "queried" /\ cur \in Job
  BY DEF VerifyCommit, Verifying, TypeInv, Working
<1>2. DaemonOK' /\ Working'
  BY <1>1, IdleTypes
<1>3. AttemptOK' /\ SlackOK' /\ UNCHANGED attempt
  BY Frames DEF VerifyCommit
<1>4. \A k \in Job : ac'[k] = ac[k]
  BY <1>3 DEF attempt
<1>5. CASE VerifyStale \/ VerifyThrottled
  BY <1>2, <1>5, Frames DEF TypeInv, TypeOK
<1>6. CASE VerifyHit
  <2>1. QueueOK' /\ Counted'
    BY <1>4, <1>6 DEF TypeInv, TypeOK, QueueOK, States, Counted
  <2>2. WorldOK'
    BY <1>6 DEF Identified, TypeInv, TypeOK, WorldOK
  <2> QED
    BY <1>2, <1>3, <1>6, <2>1, <2>2, Frames DEF TypeInv, TypeOK
<1>7. CASE VerifyAbsent
  <2>1. VerifyOK'
    BY <1>1, <1>7 DEF TypeInv, TypeOK, VerifyOK, Counters
  <2> QED
    BY <1>2, <1>3, <1>7, <2>1, Frames DEF TypeInv, TypeOK
<1>8. CASE VerifyResend
  <2>1. VerifyOK'
    BY <1>1, <1>8 DEF TypeInv, TypeOK, VerifyOK, Counters
  <2>2. QueueOK' /\ Counted'
    BY <1>4, <1>8 DEF TypeInv, TypeOK, QueueOK, States, Counted
  <2> QED
    BY <1>2, <1>3, <1>8, <2>1, <2>2, Frames DEF TypeInv, TypeOK
<1>9. CASE VerifyGivesUp
  <2>1. QueueOK' /\ Counted'
    BY <1>1, <1>4, <1>9, SettleTypes
  <2> QED
    BY <1>2, <1>3, <1>9, <2>1, Frames DEF TypeInv, TypeOK
<1>10. CASE VerifyPermanent
  <2>1. QueueOK' /\ Counted'
    BY <1>1, <1>4, <1>10, SettleTypes
  <2>2. ConfigOK'
    BY <1>10 DEF TypeInv, TypeOK, ConfigOK
  <2> QED
    BY <1>2, <1>3, <1>10, <2>1, <2>2, Frames DEF TypeInv, TypeOK
<1>11. CASE VerifyError
  <2>1. QueueOK' /\ Counted'
    BY <1>1, <1>3, <1>4, <1>11, SettleTypes, Frames
  <2>2. VerifyOK'
    BY <1>1, <1>11 DEF TypeInv, TypeOK, VerifyOK, Counters
  <2> QED
    BY <1>2, <1>3, <1>11, <2>1, <2>2, Frames DEF TypeInv, TypeOK
<1> QED
  BY <1>5, <1>6, <1>7, <1>8, <1>9, <1>10, <1>11 DEF VerifyCommit

LEMMA OutsiderTypes == ASSUME TypeInv, Outsiders \/ CancelDisallowed PROVE TypeInv'
<1> USE DEF TypeInv, TypeOK
<1>1. CASE Activate
  BY <1>1, ActivateTypes
<1>2. ASSUME NEW g \in Turns, StopHook(g) PROVE TypeInv'
  <2>1. QueueOK' /\ Counted'
    BY <1>2, GroupShape DEF StopHook, QueueOK, States, Counters, Counted, attempt
  <2> QED
    BY <1>2, <2>1, Frames DEF StopHook
<1>3. ASSUME NEW c \in Card, AskApproval(c) PROVE TypeInv'
  <2>1. WorldOK'
    BY <1>3 DEF AskApproval, WorldOK
  <2> QED
    BY <1>3, <2>1, Frames, CreateTypes DEF AskApproval
<1>4. ASSUME NEW c \in Card, Decide(c) \/ Approve(c) \/ LateClick(c) PROVE TypeInv'
  <2>1. PICK news : Click(c, news)
    BY <1>4 DEF Decide, Approve, LateClick
  <2>2. QueueOK' /\ Counted'
    BY <2>1 DEF Click, QueueOK, States, Counters, Counted, attempt
  <2>3. WorldOK'
    BY <1>4, <2>1 DEF Click, Decide, Approve, LateClick, WorldOK
  <2> QED
    BY <2>1, <2>2, <2>3, Frames DEF Click
<1>5. ASSUME NEW c \in Card, ExpirePending(c) \/ Loaded(c) PROVE TypeInv'
  <2>1. WorldOK'
    BY <1>5 DEF ExpirePending, Loaded, WorldOK
  <2>2. QueueOK' /\ Counted'
    <3>1. CASE ExpirePending(c)
      BY <3>1 DEF ExpirePending, QueueOK, States, Counters, Counted, attempt
    <3>2. CASE Loaded(c)
      BY <3>2, CreateTypes DEF Loaded
    <3> QED
      BY <1>5, <3>1, <3>2
  <2> QED
    BY <1>5, <2>1, <2>2, Frames DEF ExpirePending, Loaded
<1>6. ASSUME NEW r \in Reaction, QueueReceipt(r) PROVE TypeInv'
  BY <1>6, Frames, CreateTypes DEF QueueReceipt
<1>7. ASSUME NEW d \in SUBSET Reaction, Terminate(d) PROVE TypeInv'
  <2>1. QueueOK' /\ Counted'
    BY <1>7, CardRows DEF Terminate, Rows, Fresh, QueueOK, States, Counters, Counted, attempt
  <2>2. WorldOK'
    BY <1>7 DEF Terminate, WorldOK
  <2> QED
    BY <1>7, <2>1, <2>2, Frames DEF Terminate
<1>8. CASE Disallow
  BY <1>8, Frames DEF Disallow, WorldOK
<1>9. CASE Recapability \/ GateTick
  BY <1>9, Frames DEF Recapability, GateTick, ConfigOK
<1>10. ASSUME NEW j \in Job, Deadline(j) PROVE TypeInv'
  BY <1>10, Frames DEF Deadline, VerifyOK
<1>11. ASSUME NEW j \in Job, Arrive(j) PROVE TypeInv'
  <2>1. SlackOK'
    BY <1>11 DEF Arrive, Appears, SlackOK, Counters
  <2> QED
    BY <1>11, <2>1, Frames DEF Arrive
<1>12. CASE CancelDisallowed
  BY <1>12, Frames, CancelTypes DEF CancelDisallowed
<1> QED
  BY <1>1, <1>2, <1>3, <1>4, <1>5, <1>6, <1>7, <1>8, <1>9, <1>10, <1>11, <1>12 DEF Outsiders

LEMMA RestTypes ==
  ASSUME TypeInv,
         (\E j \in Job, a \in Findings : VerifyQuery(j, a)) \/ Crash \/ StartupScan
  PROVE  TypeInv'
<1> USE DEF TypeInv, TypeOK
<1>1. ASSUME NEW j \in Job, NEW a \in Findings, VerifyQuery(j, a) PROVE TypeInv'
  <2>1. DaemonOK' /\ Working'
    BY <1>1 DEF VerifyQuery, Seen, DaemonOK, Working, VerifyOK, Counters
  <2> QED
    BY <1>1, <2>1, Frames DEF VerifyQuery
<1>2. CASE Crash
  <2>1. DaemonOK' /\ Working'
    BY <1>2, Caps DEF Crash, DaemonOK, Working
  <2> QED
    BY <1>2, <2>1, Frames DEF Crash
<1>3. CASE StartupScan
  <2> USE <1>3 DEF StartupScan, StartupWith
  <2>1. QueueOK' /\ Counted'
    BY DEF QueueOK, States, Counted, ScannedState
  <2>2. AttemptOK'
    BY DEF AttemptOK, InDoubt
  <2>3. DaemonOK' /\ Working'
    BY DEF DaemonOK, Working
  <2> QED
    BY <2>1, <2>2, <2>3, Frames
<1> QED
  BY <1>1, <1>2, <1>3

LEMMA TypeNext == TypeInv /\ [Next]_vars => TypeInv'
<1> SUFFICES ASSUME TypeInv, [Next]_vars PROVE TypeInv'
  OBVIOUS
<1>1. CASE UNCHANGED vars
  BY <1>1, Frames DEF vars, queue, attempt, verify, daemon, world, config, slack, TypeInv, TypeOK
<1>2. CASE Next
  BY <1>2, PrepareTypes, TransmitTypes, FinalizeTypes, VerifyTypes, OutsiderTypes, RestTypes DEF Next
<1> QED
  BY <1>1, <1>2

\* Every counter stays a natural number and every state variable in its range, whatever
\* is lost, repeated or interrupted: an attempt is only taken back where one was counted.
THEOREM TypeCorrect == Spec => []TypeOK
<1>1. TypeInv => TypeOK
  BY DEF TypeInv
<1> QED
  BY <1>1, TypeInit, TypeNext, PTL DEF Spec
=============================================================================
