------------------------------ MODULE Outbound ------------------------------
(***************************************************************************)
(* The outbound state machine of lib/outbound.py: the one thread that      *)
(* posts to Slack, the rows of outbound_jobs it drives from pending to a   *)
(* terminal verdict, and everybody who touches those rows concurrently:    *)
(* the Stop hook that inserts them, the CLI or the hooks that terminate    *)
(* the binding, the approval click, the expiry of an approval, an edit of  *)
(* the allowlist, and a crash of the daemon between any two transactions.  *)
(*                                                                         *)
(* One binding in one chat.  Time is abstracted: a row whose next_attempt  *)
(* or verify_after lies in the future is a row the daemon does not pick    *)
(* yet, so cooldown pre-checks and pacing are stuttering steps.            *)
(***************************************************************************)
EXTENDS Integers, FiniteSets

CONSTANTS
  Chunk,          \* session_turn rows the Stop hook inserts
  Card,           \* approval_card rows
  OpenNotice,     \* lifecycle_notice of the activation (expects "active")
  CloseNotice,    \* lifecycle_notice of the termination (expects "closed")
  Reaction,       \* receipt_reaction rows
  Interim,        \* decision_notice rows "approved_pending_files" of known cards
  Outcome,        \* decision_notice rows of known cards with any other outcome
  CardOf,         \* [Interim \cup Outcome -> Card], the card that they update
  Rank, Ranks,    \* [Outcome -> 1 .. Ranks], the order of those a termination makes
  Alert,          \* session_turn rows of a "__sendfail__:..." turn group
  Turns,          \* turn groups of Chunk
  Group,          \* [Chunk -> Turns], the turn_group
  Index,          \* [Chunk -> Nat], the chunk_index
  Size,           \* [Turns -> Nat], how many chunks a group has
  AlertOf,        \* [Chunk \cup Turns -> Alert], the alert's idempotency key
  TurnCap, CardCap, NoticeCap, IdempotentCap,
  AbsentResendAt, VerifyErrorCap, RatelimitCap, TransientCap,
  NoJob,          \* the daemon is between two rows
  MaxCrashes,     \* bound: crashes of the daemon
  Env             \* the environment's events a configuration lets happen

Turn   == Chunk \cup Alert
Notice == OpenNotice \cup CloseNotice
Update == Interim \cup Outcome              \* chat.update
Post   == Turn \cup Card \cup Notice        \* chat.postMessage
Blind  == Update \cup Reaction              \* idempotent: retried blindly
Told   == Notice \cup Update                \* NOTICE_KINDS
Job    == Post \cup Blind

ASSUME JobKinds ==
  /\ Chunk \cap Alert = {} /\ Chunk \cap Card = {} /\ Alert \cap Card = {}
  /\ Turn \cap Notice = {} /\ Card \cap Notice = {}
  /\ \A x, y \in OpenNotice : x = y
  /\ \A x, y \in CloseNotice : x = y
  /\ OpenNotice \cap CloseNotice = {} /\ Post \cap Blind = {} /\ NoJob \notin Job
  /\ Update \cap Reaction = {} /\ Interim \cap Outcome = {}

ASSUME CardRows ==
  /\ CardOf \in [Update -> Card] /\ Ranks \in Nat /\ Rank \in [Outcome -> 1 .. Ranks]
  /\ \A x, y \in Outcome : Rank[x] = Rank[y] => x = y
  /\ \A x, y \in Interim : CardOf[x] = CardOf[y] => x = y
  /\ \A x, y \in Outcome : CardOf[x] = CardOf[y] => x = y

ASSUME GroupShape ==
  /\ Group \in [Chunk -> Turns] /\ Index \in [Chunk -> Nat] /\ Size \in [Turns -> Nat]
  /\ \A c \in Chunk : Index[c] < Size[Group[c]]
  /\ AlertOf \in [Chunk \cup Turns -> Alert] /\ Chunk \cap Turns = {}
  /\ \A x, y \in Chunk \cup {t \in Turns : Size[t] > 1} : AlertOf[x] = AlertOf[y] => x = y

\* run_stop_hook enumerates the chunks of a turn, and key_turn tells them apart.
ASSUME ChunkOrder ==
  /\ \A c \in Chunk : \A i \in 0 .. Index[c] - 1 : \E d \in Chunk : Group[d] = Group[c] /\ Index[d] = i
  /\ \A c, d \in Chunk : Group[c] = Group[d] /\ Index[c] = Index[d] => c = d

ASSUME Caps ==
  /\ TurnCap \in Nat \ {0, 1} /\ CardCap \in Nat \ {0, 1} /\ NoticeCap \in Nat \ {0, 1}
  /\ IdempotentCap \in Nat \ {0} /\ AbsentResendAt \in Nat \ {0}
  /\ VerifyErrorCap \in Nat \ {0} /\ RatelimitCap \in Nat \ {0} /\ TransientCap \in Nat \ {0}
  /\ MaxCrashes \in Nat

VARIABLES
  \* outbound_jobs
  st,             \* [Job -> state], "none" before the row exists
  seq,            \* [Job -> job_seq]
  last,           \* the last job_seq handed out
  ac,             \* attempt_count
  had,            \* had_unknown
  rl, tc,         \* ratelimit_count, transient_count
  op,             \* the frozen op_* columns
  absent, verr,   \* verify_absent_count, verify_error_count
  resend, round,  \* resend_count, verify_round
  overdue,        \* more than VERIFY_DEADLINE_MS have passed since sending_at
  \* the daemon's thread
  phase, cur, ans, curRound, crashes,
  \* the tables the guards read, the configuration, the daemon_state keys
  binding, pend, cardId, dropped, allowed, mode, capOK, gate,
  \* Slack, as it really is
  posted,         \* copies that readers see
  flight,         \* requests whose copy may still appear
  forms,          \* the forms of those copies
  inWindow        \* some copy lies inside the lookback window of a verification

queue   == <<st, seq, last>>
attempt == <<ac, had, rl, tc, op>>
verify  == <<absent, verr, resend, round, overdue>>
daemon  == <<phase, cur, ans, curRound, crashes>>
world   == <<binding, pend, cardId, dropped, allowed>>
config  == <<mode, capOK, gate>>
slack   == <<posted, flight, forms, inWindow>>
vars    == <<st, seq, last, ac, had, rl, tc, op, absent, verr, resend, round, overdue,
             phase, cur, ans, curRound, crashes, binding, pend, cardId, dropped, allowed,
             mode, capOK, gate, posted, flight, forms, inWindow>>

Open     == {"pending", "sending", "unknown"}
Terminal == {"sent", "failed", "cancelled", "unconfirmed"}
Waiting  == {"pending", "unknown"}      \* what every concurrent canceller matches
Forms    == {"markdown_text", "text", "blocks"}
Refusals == {"failed", "markdown_rejected", "ratelimited", "not_sent", "wait"}
Findings == {"hit", "absent", "error", "throttled", "permanent_global", "permanent_channel"}

CapFor(j) == IF j \in Blind THEN IdempotentCap
             ELSE IF j \in Turn THEN TurnCap
             ELSE IF j \in Card THEN CardCap ELSE NoticeCap

\* op_for: the form a row takes when it is not frozen yet.
OpFor(j) == IF op[j] # "none" THEN op[j]
            ELSE IF j \in Turn THEN mode
            ELSE IF j \in Card \cup Update THEN "blocks"
            ELSE IF j \in Notice THEN "text" ELSE "reaction"

Init ==
  /\ st = [j \in Job |-> "none"] /\ seq = [j \in Job |-> 0] /\ last = 0
  /\ ac = [j \in Job |-> 0] /\ had = [j \in Job |-> FALSE]
  /\ rl = [j \in Job |-> 0] /\ tc = [j \in Job |-> 0] /\ op = [j \in Job |-> "none"]
  /\ absent = [j \in Job |-> 0] /\ verr = [j \in Job |-> 0]
  /\ resend = [j \in Job |-> 0] /\ round = [j \in Job |-> 0]
  /\ overdue = [j \in Job |-> FALSE]
  /\ phase = "idle" /\ cur = NoJob /\ ans = "none" /\ curRound = 0 /\ crashes = 0
  /\ binding = "starting" /\ pend = [c \in Card |-> "none"]
  /\ cardId = [c \in Card |-> FALSE] /\ dropped = {} /\ allowed = TRUE
  /\ mode = "markdown_text" /\ gate = TRUE
  /\ capOK \in BOOLEAN /\ ("capability" \notin Env => capOK)
  /\ posted = [j \in Job |-> 0] /\ flight = [j \in Job |-> 0]
  /\ forms = [j \in Job |-> {}] /\ inWindow = [j \in Job |-> FALSE]

-----------------------------------------------------------------------------
(***************************************************************************)
(* Rows appear: jobs.create_job inside somebody's transaction.             *)
(***************************************************************************)

\* Definitions named Bug... are not part of the model: each is the definition that
\* follows it with one plausible mistake, to show that some property notices.

\* create_job for a set of new rows, all handed the next job_seq.
Create(new) ==
  /\ st'  = [j \in Job |-> IF j \in new THEN "pending" ELSE st[j]]
  /\ seq' = [j \in Job |-> IF j \in new THEN last + 1 ELSE seq[j]]
  /\ last' = last + 1

\* lifecycle.activate_if_ready: the binding goes active and says so.
Activate ==
  /\ binding = "starting" /\ binding' = "active"
  /\ Create(OpenNotice)
  /\ UNCHANGED <<attempt, verify, daemon, pend, cardId, dropped, allowed, config, slack>>

\* hooklib.run_stop_hook, step 5: all chunks of a turn in one transaction.
StopHook(g) ==
  LET chunks == {c \in Chunk : Group[c] = g} IN
  /\ binding = "active" /\ \A c \in chunks : st[c] = "none"
  /\ st'  = [j \in Job |-> IF j \in chunks THEN "pending" ELSE st[j]]
  /\ seq' = [j \in Job |-> IF j \in chunks THEN last + 1 + Index[j] ELSE seq[j]]
  /\ last' = last + Size[g]
  /\ UNCHANGED <<attempt, verify, daemon, world, config, slack>>

\* Inbound: a member's message waits for approval, its card is queued.
AskApproval(c) ==
  /\ phase = "idle" /\ binding = "active" /\ pend[c] = "none"
  /\ pend' = [pend EXCEPT ![c] = "pending"]
  /\ Create({c})
  /\ UNCHANGED <<attempt, verify, daemon, binding, cardId, dropped, allowed, config, slack>>

\* Inbound: a message was enqueued for the session, its receipt is queued.
QueueReceipt(r) ==
  /\ phase = "idle" /\ binding = "active" /\ st[r] = "none"
  /\ Create({r})
  /\ UNCHANGED <<attempt, verify, daemon, world, config, slack>>

-----------------------------------------------------------------------------
(***************************************************************************)
(* Verdicts.  Settle is _set_failed / _set_unconfirmed: the compare-and-   *)
(* swap, the alert, and for an unconfirmed chunk the cancellation of the   *)
(* rest of its group with one alert of its own, in one transaction.        *)
(***************************************************************************)
Later(j) == {k \in Chunk : /\ j \in Chunk /\ Group[k] = Group[j] /\ Index[k] > Index[j]
                           /\ st[k] = "pending"}

Truncates(j, verdict) == verdict = "unconfirmed" /\ Later(j) # {}

\* The rows in tail are cancelled, the alerts in own and group created in this order.
SettleWith(j, verdict, tail, own, group) ==
  /\ st'  = [k \in Job |-> IF k = j THEN verdict
                           ELSE IF k \in tail THEN "cancelled"
                           ELSE IF k \in own \cup group THEN "pending" ELSE st[k]]
  /\ seq' = [k \in Job |-> IF k \in own THEN last + 1
                           ELSE IF k \in group THEN last + 2 ELSE seq[k]]
  /\ last' = last + 2

Fresh(alerts) == {a \in alerts : st[a] = "none"}
OwnAlert(j) == Fresh({AlertOf[c] : c \in {j} \cap Chunk})
GroupAlert(j, verdict) ==
  Fresh({AlertOf[Group[c]] : c \in {d \in {j} \cap Chunk : Truncates(d, verdict)}})

BugSettleNoCascade(j, verdict) == SettleWith(j, verdict, {}, OwnAlert(j), {})
BugSettleSilent(j, verdict) ==
  SettleWith(j, verdict, IF verdict = "unconfirmed" THEN Later(j) ELSE {}, OwnAlert(j), {})

Settle(j, verdict) ==
  SettleWith(j, verdict, IF verdict = "unconfirmed" THEN Later(j) ELSE {},
             OwnAlert(j), GroupAlert(j, verdict))

\* _terminal_by_had_unknown
SettleByHad(j) == Settle(j, IF had[j] THEN "unconfirmed" ELSE "failed")

Cancel(rows) ==
  /\ st' = [j \in Job |-> IF j \in rows THEN "cancelled" ELSE st[j]]
  /\ UNCHANGED <<seq, last>>

-----------------------------------------------------------------------------
(***************************************************************************)
(* _prepare: the linearisation point of a send, one transaction.           *)
(***************************************************************************)
Ready(j) == /\ phase = "idle" /\ gate
            /\ st[j] = "pending" \/ (st[j] = "unknown" /\ j \in Blind)

Prev(j) == {k \in Chunk : j \in Chunk /\ Group[k] = Group[j] /\ Index[k] + 1 = Index[j]}
SameGroup(j, k) == j = k \/ (j \in Chunk /\ k \in Chunk /\ Group[j] = Group[k])

\* _order_gate
BugPrevNotSent(j) == \E k \in Prev(j) : st[k] \in {"pending", "sending"}

PrevLost(j)    == \E k \in Prev(j) : st[k] \in {"failed", "cancelled"}
PrevNotSent(j) == \E k \in Prev(j) : st[k] # "sent"

BugEarlierNotice(j) == \E k \in Told : /\ j \in Told /\ seq[k] < seq[j]
                                       /\ st[k] \in {"pending", "sending"}
EarlierTurn(j) == \E k \in Turn : /\ j \in Turn /\ ~SameGroup(j, k)
                                  /\ seq[k] < seq[j] /\ st[k] \in Open
EarlierNotice(j) == \E k \in Told : j \in Told /\ seq[k] < seq[j] /\ st[k] \in Open
InOrder(j) == ~PrevNotSent(j) /\ ~EarlierTurn(j) /\ ~EarlierNotice(j)

\* _guard_ok
CardGuardOK(j) == pend[j] = "pending" /\ ~cardId[j]

BugGuardNoBinding(j) == (j \in Card => CardGuardOK(j)) /\ j \notin dropped

GuardOK(j) ==
  /\ j \in Turn => binding = "active"
  /\ j \in Card => binding = "active" /\ CardGuardOK(j)
  /\ j \in OpenNotice => binding = "active"
  /\ j \in CloseNotice => binding = "closed"
  /\ j \in Interim => pend[CardOf[j]] = "loading"
  /\ j \in Outcome => pend[CardOf[j]] \in {"decided", "expired"}
  /\ j \notin dropped

Passes(j) == Ready(j) /\ allowed /\ InOrder(j) /\ GuardOK(j)

BugPrepareCancelled(j) ==
  /\ Ready(j) /\ (~allowed \/ PrevLost(j)) /\ Cancel({j})
  /\ UNCHANGED <<attempt, verify, daemon, world, config, slack>>

PrepareCancelled(j) ==
  /\ Ready(j)
  /\ ~allowed \/ PrevLost(j) \/ (InOrder(j) /\ ~GuardOK(j))
  /\ Cancel({j})
  /\ UNCHANGED <<attempt, verify, daemon, world, config, slack>>

PrepareCapped(j) ==
  /\ Passes(j) /\ ac[j] >= CapFor(j)
  /\ IF j \in Blind THEN Settle(j, "failed") ELSE SettleByHad(j)
  /\ UNCHANGED <<attempt, verify, daemon, world, config, slack>>

\* A resend needs the capability confirmed for the credentials in use.
PrepareRefused(j) ==
  /\ Passes(j) /\ ac[j] < CapFor(j)
  /\ j \in Post /\ had[j] /\ ~capOK
  /\ Settle(j, "unconfirmed")
  /\ UNCHANGED <<attempt, verify, daemon, world, config, slack>>

\* The CAS to sending.  sending_at moves to now: copies of an earlier round may leave
\* the window of the next verification.
ToSending(j, attempts) ==
  /\ st' = [st EXCEPT ![j] = "sending"] /\ ac' = [ac EXCEPT ![j] = attempts]
  /\ op' = [op EXCEPT ![j] = OpFor(j)] /\ overdue' = [overdue EXCEPT ![j] = FALSE]
  /\ inWindow' \in {inWindow, [inWindow EXCEPT ![j] = FALSE]}
  /\ phase' = "prepared" /\ cur' = j /\ UNCHANGED <<ans, curRound, crashes>>
  /\ UNCHANGED <<seq, last, had, rl, tc, absent, verr, resend, round, world, config,
                 posted, flight, forms>>

BugPrepareUncounted(j) ==
  /\ Passes(j) /\ ac[j] < CapFor(j) /\ (j \in Post /\ had[j] => capOK) /\ ToSending(j, ac[j])

PrepareSend(j) ==
  /\ Passes(j) /\ ac[j] < CapFor(j)
  /\ j \in Post /\ had[j] => capOK
  /\ ToSending(j, ac[j] + 1)

-----------------------------------------------------------------------------
(***************************************************************************)
(* _transmit, outside any transaction: what Slack does with the request    *)
(* and what the caller learns of it are two things.                        *)
(***************************************************************************)
Answer(a) == phase' = "answered" /\ ans' = a /\ UNCHANGED <<cur, curRound, crashes>>

Accepted(j) == /\ forms' = [forms EXCEPT ![j] = @ \cup {op[j]}]

Appears(j) == /\ posted' = [posted EXCEPT ![j] = @ + 1]
              /\ inWindow' = [inWindow EXCEPT ![j] = TRUE]

TransmitOk ==
  /\ phase = "prepared" /\ Answer("sent")
  /\ IF cur \in Post THEN Appears(cur) /\ Accepted(cur) /\ UNCHANGED flight
     ELSE UNCHANGED slack
  /\ UNCHANGED <<queue, attempt, verify, world, config>>

\* Slack (or the client, before the first byte) refused: no copy, ever.
TransmitRefused(a) ==
  /\ phase = "prepared" /\ a \in Env /\ Answer(a)
  /\ a = "markdown_rejected" => op[cur] = "markdown_text"
  /\ UNCHANGED <<queue, attempt, verify, world, config, slack>>

\* Timeout, 5xx, reset connection: the copy is there, may come, or never will.
TransmitUnknown ==
  /\ phase = "prepared" /\ "unknown" \in Env /\ Answer("unknown")
  /\ \/ UNCHANGED slack
     \/ cur \in Post /\ Accepted(cur) /\ Appears(cur) /\ UNCHANGED flight
     \/ /\ cur \in Post /\ "late" \in Env /\ Accepted(cur)
        /\ flight' = [flight EXCEPT ![cur] = @ + 1] /\ UNCHANGED <<posted, inWindow>>
  /\ UNCHANGED <<queue, attempt, verify, world, config>>

\* A request the caller gave up on is carried out late.
Arrive(j) ==
  /\ flight[j] > 0 /\ flight' = [flight EXCEPT ![j] = @ - 1]
  /\ Appears(j)
  /\ UNCHANGED <<queue, attempt, verify, daemon, world, config, forms>>

-----------------------------------------------------------------------------
(***************************************************************************)
(* _finalize: the answer is written back by compare-and-swap on 'sending'. *)
(***************************************************************************)
Idle == phase' = "idle" /\ cur' = NoJob /\ ans' = "none" /\ curRound' = 0 /\ UNCHANGED crashes

Finalizing(a) == phase = "answered" /\ ans = a /\ st[cur] = "sending" /\ Idle

\* Back to pending: the attempt does not count.
Retry == /\ st' = [st EXCEPT ![cur] = "pending"] /\ UNCHANGED <<seq, last>>
Uncount == ac' = [ac EXCEPT ![cur] = @ - 1]

\* A card that is sent has an identity from then on.
Identified == cardId' = [c \in Card |-> c = cur \/ cardId[c]]

FinalizeSent ==
  /\ Finalizing("sent")
  /\ st' = [st EXCEPT ![cur] = "sent"] /\ UNCHANGED <<seq, last>>
  /\ Identified
  /\ UNCHANGED <<attempt, verify, binding, pend, dropped, allowed, config, slack>>

FinalizeFailed ==
  /\ Finalizing("failed")
  /\ IF cur \in Post THEN SettleByHad(cur) ELSE Settle(cur, "failed")
  /\ UNCHANGED <<attempt, verify, world, config, slack>>

\* invalid_arguments on markdown_text: fall back to text, unless a copy of the
\* markdown form may already be out.
Reshape == op' = [op EXCEPT ![cur] = "none"] /\ mode' = "text"

BugFinalizeRejected ==
  /\ Finalizing("markdown_rejected") /\ Retry /\ Uncount /\ Reshape
  /\ UNCHANGED <<had, rl, tc, verify, world, capOK, gate, slack>>

FinalizeRejected ==
  /\ Finalizing("markdown_rejected")
  /\ IF had[cur]
     THEN Settle(cur, "unconfirmed") /\ UNCHANGED <<ac, op, mode>>
     ELSE Retry /\ Uncount /\ Reshape
  /\ UNCHANGED <<had, rl, tc, verify, world, capOK, gate, slack>>

FinalizeRatelimited ==
  /\ Finalizing("ratelimited")
  /\ rl' = [rl EXCEPT ![cur] = @ + 1] /\ Uncount
  /\ IF rl[cur] + 1 >= RatelimitCap THEN SettleByHad(cur) ELSE Retry
  /\ UNCHANGED <<had, tc, op, verify, world, config, slack>>

FinalizeNotSent ==
  /\ Finalizing("not_sent")
  /\ tc' = [tc EXCEPT ![cur] = @ + 1] /\ Uncount
  /\ IF tc[cur] + 1 >= TransientCap THEN SettleByHad(cur) ELSE Retry
  /\ UNCHANGED <<had, rl, op, verify, world, config, slack>>

FinalizeWait ==
  /\ Finalizing("wait") /\ Retry /\ Uncount
  /\ UNCHANGED <<had, rl, tc, op, verify, world, config, slack>>

BugFinalizeUnknown ==
  /\ Finalizing("unknown") /\ Retry
  /\ UNCHANGED <<attempt, verify, world, config, slack>>

FinalizeUnknown ==
  /\ Finalizing("unknown")
  /\ st' = [st EXCEPT ![cur] = "unknown"] /\ UNCHANGED <<seq, last>>
  /\ had' = [had EXCEPT ![cur] = IF cur \in Post THEN TRUE ELSE @]
  /\ UNCHANGED <<ac, rl, tc, op, verify, world, config, slack>>

-----------------------------------------------------------------------------
(***************************************************************************)
(* _verify_unknown: pages are read outside a transaction, the outcome is   *)
(* applied only if the row is still unknown and in the same round.         *)
(***************************************************************************)
\* _find_hit: the pages tell the truth of the window they cover.
Seen(j, a) == (a = "hit" => inWindow[j]) /\ (a = "absent" => ~inWindow[j])

VerifyQuery(j, a) ==
  /\ phase = "idle" /\ gate /\ j \in Post /\ st[j] = "unknown" /\ a \in Env
  /\ Seen(j, a)
  /\ phase' = "queried" /\ cur' = j /\ ans' = a /\ curRound' = round[j] /\ UNCHANGED crashes
  /\ UNCHANGED <<queue, attempt, verify, world, config, slack>>

Unmoved == st[cur] = "unknown" /\ round[cur] = curRound
Verifying(a) == phase = "queried" /\ ans = a /\ Unmoved /\ Idle

VerifyStale ==
  /\ phase = "queried" /\ ~Unmoved /\ Idle
  /\ UNCHANGED <<queue, attempt, verify, world, config, slack>>

VerifyHit ==
  /\ Verifying("hit")
  /\ st' = [st EXCEPT ![cur] = "sent"] /\ UNCHANGED <<seq, last>>
  /\ Identified
  /\ UNCHANGED <<attempt, verify, binding, pend, dropped, allowed, config, slack>>

VerifyAbsent ==
  /\ Verifying("absent") /\ absent[cur] + 1 < AbsentResendAt
  /\ absent' = [absent EXCEPT ![cur] = @ + 1]
  /\ UNCHANGED <<queue, attempt, verr, resend, round, overdue, world, config, slack>>

\* The only way back to pending from unknown, and the only change of round.
NewRound ==
  /\ st' = [st EXCEPT ![cur] = "pending"] /\ UNCHANGED <<seq, last>>
  /\ resend' = [resend EXCEPT ![cur] = @ + 1] /\ round' = [round EXCEPT ![cur] = @ + 1]
  /\ absent' = [absent EXCEPT ![cur] = 0] /\ verr' = [verr EXCEPT ![cur] = 0]
  /\ UNCHANGED <<attempt, overdue, world, config, slack>>

BugVerifyResend ==
  /\ Verifying("absent") /\ absent[cur] + 1 >= AbsentResendAt /\ round[cur] < 2 /\ capOK
  /\ NewRound

VerifyResend ==
  /\ Verifying("absent") /\ absent[cur] + 1 >= AbsentResendAt
  /\ resend[cur] = 0 /\ capOK
  /\ NewRound

VerifyGivesUp ==
  /\ Verifying("absent") /\ absent[cur] + 1 >= AbsentResendAt
  /\ resend[cur] # 0 \/ ~capOK
  /\ Settle(cur, "unconfirmed")
  /\ UNCHANGED <<attempt, verify, world, config, slack>>

\* 429 and cooldown touch nothing but verify_after.
VerifyThrottled ==
  /\ Verifying("throttled")
  /\ UNCHANGED <<queue, attempt, verify, world, config, slack>>

VerifyPermanent ==
  /\ \/ Verifying("permanent_global") /\ capOK' = FALSE
     \/ Verifying("permanent_channel") /\ UNCHANGED capOK
  /\ Settle(cur, "unconfirmed")
  /\ UNCHANGED <<attempt, verify, world, mode, gate, slack>>

VerifyError ==
  /\ Verifying("error")
  /\ verr' = [verr EXCEPT ![cur] = @ + 1]
  /\ IF verr[cur] + 1 >= VerifyErrorCap \/ overdue[cur]
     THEN Settle(cur, "unconfirmed") ELSE UNCHANGED queue
  /\ UNCHANGED <<attempt, absent, resend, round, overdue, world, config, slack>>

-----------------------------------------------------------------------------
(***************************************************************************)
(* Everybody else who writes these rows.                                   *)
(***************************************************************************)

\* tick begins by cancelling the rows of a chat outside the allowlist, whatever
\* the gate says.
CancelDisallowed ==
  /\ phase = "idle" /\ ~allowed
  /\ \E j \in Job : st[j] \in Waiting
  /\ Cancel({j \in Job : st[j] \in Waiting})
  /\ UNCHANGED <<attempt, verify, daemon, world, config, slack>>

\* create_decision_notice: what became of these cards, unless it is queued already.
Rows(kind, cards) == Fresh({u \in kind : CardOf[u] \in cards})

\* lifecycle._terminate_in_tx, run by the CLI, a hook or the daemon's own scan:
\* waiting output of the binding is cancelled, a row in sending is left to the
\* daemon, open approvals expire, approved messages whose files are still being
\* loaded are given up, unclaimed deliveries are dropped.
Terminate(undelivered) ==
  /\ binding # "closed" /\ "unbind" \in Env
  /\ binding' = "closed"
  /\ LET stopped == {j \in Job : /\ st[j] \in Waiting
                                 /\ \/ j \in Turn \cup Reaction \cup Interim
                                    \/ j \in Card /\ pend[j] = "pending"}
         news == Rows(Outcome, {c \in Card : pend[c] = "loading" \/ (pend[c] = "pending" /\ cardId[c])})
     IN  /\ st' = [j \in Job |-> IF j \in stopped THEN "cancelled"
                                 ELSE IF j \in news \cup CloseNotice THEN "pending" ELSE st[j]]
         /\ seq' = [j \in Job |-> IF j \in news THEN last + Rank[j]
                                  ELSE IF j \in CloseNotice THEN last + Ranks + 1 ELSE seq[j]]
         /\ last' = last + Ranks + 1
  /\ pend' = [c \in Card |-> IF pend[c] = "pending" THEN "expired"
                             ELSE IF pend[c] = "loading" THEN "decided" ELSE pend[c]]
  /\ dropped' = undelivered
  /\ UNCHANGED <<attempt, verify, daemon, cardId, allowed, config, slack>>

\* approval.process_in_tx, from the daemon's drain: a valid click proves that the
\* card is there, whatever the row says ...
BugProved(c) == {k \in {c} : ~cardId[k]}
Proved(c)    == {k \in {c} : ~cardId[k] /\ st[k] \in Open}

Click(c, news) ==
  /\ phase = "idle" /\ allowed /\ posted[c] > 0
  /\ cardId' = [cardId EXCEPT ![c] = TRUE]
  /\ st' = [j \in Job |-> IF j \in Proved(c) THEN "sent" ELSE IF j \in news THEN "pending" ELSE st[j]]
  /\ seq' = [j \in Job |-> IF j \in news THEN last + 1 ELSE seq[j]]
  /\ last' = last + 1
  /\ UNCHANGED <<attempt, verify, daemon, binding, dropped, allowed, config, slack>>

\* ... and decides a still pending approval, or has the files loaded first.
LateClick(c) == pend[c] # "pending" /\ ~cardId[c] /\ Click(c, {}) /\ UNCHANGED pend

Decide(c) ==
  /\ pend[c] = "pending" /\ pend' = [pend EXCEPT ![c] = "decided"]
  /\ Click(c, Rows(Outcome, {c}))

Approve(c) ==
  /\ pend[c] = "pending" /\ pend' = [pend EXCEPT ![c] = "loading"]
  /\ \E u \in Interim : CardOf[u] = c
  /\ Click(c, Rows(Interim, {c}))

\* Inbound: the files of an approved message are there, or have failed.
Loaded(c) ==
  /\ phase = "idle" /\ pend[c] = "loading"
  /\ pend' = [pend EXCEPT ![c] = "decided"]
  /\ Create(Rows(Outcome, {c}))
  /\ UNCHANGED <<attempt, verify, daemon, binding, cardId, dropped, allowed, config, slack>>

\* recovery._expire_pendings: the approval times out, its unsent card goes.
ExpirePending(c) ==
  /\ phase = "idle" /\ pend[c] = "pending" /\ "expire" \in Env
  /\ pend' = [pend EXCEPT ![c] = "expired"]
  /\ LET news == Rows(Outcome, {k \in {c} : cardId[k]})
     IN  /\ st' = [j \in Job |-> IF j = c /\ st[j] \in Waiting THEN "cancelled"
                                 ELSE IF j \in news THEN "pending" ELSE st[j]]
         /\ seq' = [j \in Job |-> IF j \in news THEN last + 1 ELSE seq[j]]
         /\ last' = last + 1
  /\ UNCHANGED <<attempt, verify, daemon, binding, cardId, dropped, allowed, config, slack>>

\* The allowlist in config.json loses the chat; cfg.refresh sees it between loops.
Disallow ==
  /\ phase = "idle" /\ allowed /\ "allowlist" \in Env
  /\ allowed' = FALSE
  /\ UNCHANGED <<queue, attempt, verify, daemon, binding, pend, cardId, dropped, config, slack>>

\* A token rotation or a probe decides whether verify_capability holds for the
\* credentials in use.
Recapability ==
  /\ "capability" \in Env /\ capOK' = ~capOK
  /\ UNCHANGED <<queue, attempt, verify, daemon, world, mode, gate, slack>>

\* FingerprintGate.tick, between two loops.
GateTick ==
  /\ phase = "idle" /\ "gate" \in Env /\ gate' = ~gate
  /\ UNCHANGED <<queue, attempt, verify, daemon, world, mode, capOK, slack>>

\* Ten minutes have passed since sending_at.
Deadline(j) ==
  /\ st[j] = "unknown" /\ ~overdue[j] /\ "deadline" \in Env
  /\ overdue' = [overdue EXCEPT ![j] = TRUE]
  /\ UNCHANGED <<queue, attempt, absent, verr, resend, round, daemon, world, config, slack>>

-----------------------------------------------------------------------------
Crash ==
  /\ phase # "down" /\ crashes < MaxCrashes
  /\ phase' = "down" /\ cur' = NoJob /\ ans' = "none" /\ curRound' = 0
  /\ crashes' = crashes + 1
  /\ UNCHANGED <<queue, attempt, verify, world, config, slack>>

\* startup_scan: nobody knows what became of a row found in sending.
StartupWith(state, uncertain) ==
  /\ phase = "down" /\ phase' = "idle" /\ UNCHANGED <<cur, ans, curRound, crashes>>
  /\ st' = [j \in Job |-> IF st[j] = "sending" THEN state[j] ELSE st[j]]
  /\ had' = [j \in Job |-> had[j] \/ j \in uncertain]
  /\ UNCHANGED <<seq, last, ac, rl, tc, op, verify, world, config, slack>>

ScannedState == [j \in Job |-> IF j \in Blind /\ ac[j] >= IdempotentCap THEN "failed" ELSE "unknown"]
InDoubt == {j \in Post : st[j] = "sending"}

BugStartupForgets == StartupWith(ScannedState, {})

StartupScan == StartupWith(ScannedState, InDoubt)

Prepare(j) == PrepareCancelled(j) \/ PrepareCapped(j) \/ PrepareRefused(j) \/ PrepareSend(j)
Transmit == TransmitOk \/ TransmitUnknown \/ \E a \in Refusals : TransmitRefused(a)
Finalize == \/ FinalizeSent \/ FinalizeFailed \/ FinalizeRejected \/ FinalizeRatelimited
            \/ FinalizeNotSent \/ FinalizeWait \/ FinalizeUnknown
VerifyCommit == \/ VerifyStale \/ VerifyHit \/ VerifyAbsent \/ VerifyResend \/ VerifyGivesUp
                \/ VerifyThrottled \/ VerifyPermanent \/ VerifyError
Outsiders ==
  \/ Activate \/ (\E g \in Turns : StopHook(g))
  \/ (\E c \in Card : \/ AskApproval(c) \/ Decide(c) \/ Approve(c) \/ LateClick(c)
                     \/ Loaded(c) \/ ExpirePending(c))
  \/ (\E r \in Reaction : QueueReceipt(r))
  \/ (\E d \in SUBSET Reaction : Terminate(d))
  \/ Disallow \/ Recapability \/ GateTick \/ (\E j \in Post : Deadline(j) \/ Arrive(j))

Next ==
  \/ (\E j \in Job : Prepare(j) \/ \E a \in Findings : VerifyQuery(j, a))
  \/ Transmit \/ Finalize \/ VerifyCommit \/ CancelDisallowed
  \/ Outsiders \/ Crash \/ StartupScan

Spec == Init /\ [][Next]_vars

(***************************************************************************)
(* Fairness.  The daemon's loop runs for ever and every tick walks over    *)
(* all candidate rows; each network call has a timeout, so an answer comes *)
(* and is written back; a dead daemon is restarted.  SF, because the one   *)
(* thread that prepares is also the one that verifies.  Slack itself owes  *)
(* nothing, except in FairSpec: it does not throttle for ever.             *)
(***************************************************************************)
DaemonFairness ==
  /\ WF_vars(Transmit \/ Finalize \/ VerifyCommit \/ StartupScan)
  /\ WF_vars(CancelDisallowed)
  /\ SF_vars(\E j \in Job : Prepare(j))
  /\ SF_vars(\E j \in Job, a \in Findings : VerifyQuery(j, a))

SlackAnswers ==
  /\ SF_vars(TransmitOk \/ TransmitUnknown \/ \E a \in Refusals \ {"wait"} : TransmitRefused(a))
  /\ SF_vars(\E j \in Job, a \in Findings \ {"throttled"} : VerifyQuery(j, a))

DaemonSpec == Spec /\ DaemonFairness
FairSpec   == DaemonSpec /\ SlackAnswers

-----------------------------------------------------------------------------
(***************************************************************************)
(* Properties.                                                             *)
(***************************************************************************)
Counters == [Job -> Nat]
States   == Open \cup Terminal \cup {"none"}
Shapes   == Forms \cup {"reaction", "none"}
QueueOK   == st \in [Job -> States] /\ seq \in Counters /\ last \in Nat
AttemptOK == /\ ac \in Counters /\ rl \in Counters /\ tc \in Counters
             /\ had \in [Job -> BOOLEAN] /\ op \in [Job -> Shapes]
VerifyOK  == /\ absent \in Counters /\ verr \in Counters /\ resend \in Counters
             /\ round \in Counters /\ overdue \in [Job -> BOOLEAN]
DaemonOK  == /\ phase \in {"down", "idle", "prepared", "answered", "queried"}
             /\ cur \in Job \cup {NoJob} /\ curRound \in Nat /\ crashes \in 0 .. MaxCrashes
             /\ ans \in Refusals \cup Findings \cup {"sent", "unknown", "none"}
WorldOK   == /\ binding \in {"starting", "active", "closed"} /\ dropped \subseteq Reaction
             /\ pend \in [Card -> {"none", "pending", "loading", "decided", "expired"}]
             /\ cardId \in [Card -> BOOLEAN] /\ allowed \in BOOLEAN
ConfigOK  == mode \in {"markdown_text", "text"} /\ capOK \in BOOLEAN /\ gate \in BOOLEAN
SlackOK   == /\ posted \in Counters /\ flight \in Counters
             /\ forms \in [Job -> SUBSET Shapes] /\ inWindow \in [Job -> BOOLEAN]
TypeOK == QueueOK /\ AttemptOK /\ VerifyOK /\ DaemonOK /\ WorldOK /\ ConfigOK /\ SlackOK

\* Copies Slack shows or may still show of a row.
Copies(j) == posted[j] + flight[j]

\* The daemon is working on j right now, or died doing so.
Started(j) == st[j] \in {"sending", "unknown", "sent", "unconfirmed"} \/ had[j] \/ Copies(j) > 0

\* A message reaches the chat at most once, and twice only after the one resend that
\* three complete, empty verifications allowed.
AtMostOneResend == \A j \in Post : Copies(j) <= 1 + resend[j] /\ resend[j] <= 1

\* The verdicts are honest: "failed" promises that no copy exists or can still
\* appear, "sent" that one exists.
FailedMeansAbsent == \A j \in Post : st[j] = "failed" => Copies(j) = 0
SentMeansPosted   == \A j \in Post : st[j] = "sent" => posted[j] > 0
HonestVerdicts    == FailedMeansAbsent /\ SentMeansPosted

\* A row that waits to be posted and may already have a copy out is the one resend,
\* and remembers its uncertainty.
PendingCopyIsResend ==
  \A j \in Post : st[j] = "pending" /\ Copies(j) > 0 => had[j] /\ resend[j] = 1

\* Both copies of a resent row look the same, whatever markdown_mode became meanwhile.
OneForm == \A j \in Post : Cardinality(forms[j]) <= 1

\* An unconfirmed chunk takes the rest of its turn with it, at once.
UnconfirmedEndsTurn ==
  \A j \in Chunk : \A k \in Prev(j) : st[k] = "unconfirmed" => st[j] \in Terminal

\* Nothing of chunk i + 1 leaves before chunk i is confirmed, and a turn is not overtaken:
\* when it has started, no row of an earlier turn of the binding can still be posted.
\* Likewise for the notices of a chat, the updates
\* of its cards included: no card shows its last word before what came before it is over.
Before(k, j) == st[k] # "none" /\ seq[k] < seq[j]
TurnsInOrder ==
  /\ \A j \in Chunk : Started(j) => \A k \in Prev(j) : st[k] = "sent"
  /\ \A j, k \in Turn : Started(j) /\ Before(k, j) /\ ~SameGroup(j, k) => st[k] \in Terminal
NoticesInOrder ==
  \A j, k \in Told : Started(j) /\ Before(k, j) => st[k] \in Terminal

\* Every lost or doubtful chunk, and every turn cut short by one, has its alert, and an
\* alert always has such a cause.
LossIsReported ==
  /\ \A c \in Chunk : st[AlertOf[c]] # "none" <=> st[c] \in {"failed", "unconfirmed"}
  /\ binding = "active" /\ allowed =>
    \A g \in {t \in Turns : Size[t] > 1} : st[AlertOf[g]] # "none" <=>
      \E c, d \in Chunk : /\ Group[c] = g /\ Group[d] = g /\ Index[c] < Index[d]
                          /\ st[c] = "unconfirmed" /\ st[d] = "cancelled"

\* A verdict is never taken back (nor a row revived by recovery or a late answer).
VerdictIsFinal == [][\A j \in Job : st[j] \in Terminal => st'[j] = st[j]]_vars

\* After the binding is closed no turn, card or receipt of a dropped message is newly put on
\* the wire.  A row that was in sending at that moment still goes out, or back to pending.
ClosedIsQuiet ==
  [][binding = "closed" => \A j \in Turn \cup Card \cup dropped :
       st[j] # "sending" => st'[j] # "sending"]_vars

\* Every row gets a verdict: none waits, is being sent or is in doubt for ever.
EveryRowSettles == []<>(\A j \in Job : st[j] \notin Open)

\* What lib/constants.py says of VERIFY_DEADLINE_MS: "more than ten minutes since this
\* round's sending_at and still unknown -> unconfirmed".
DeadlineEndsUnknown == \A j \in Post : (st[j] = "unknown" /\ overdue[j]) ~> st[j] # "unknown"

\* The rows of Slack messages keep the promise of Outbox: a copy counts once readers see it.
Box == INSTANCE Outbox WITH
         Message <- Post, Most <- 2, copies <- [j \in Post |-> posted[j]],
         verdict <- [j \in Post |-> IF st[j] \in Open THEN "open" ELSE st[j]]
KeepsPromise == Box!Spec

=============================================================================
