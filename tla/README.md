# The Slack bridge in TLA+

TLA+ modules of `claude-code-slack-bridge`: a daemon that carries the turns of
Claude Code sessions to Slack chats and the messages of those chats back into
the sessions. Each module is translated from the source under `src/`; the
table `map` of `PROJECT.json` names, for every definition, the lines it stands
for. TLC checks small instances, liveness included; TLAPS proves every safety
property and both refinements for every value of the constants.

    tlc -workers 2 -config OutboundTurn.cfg MCOutbound.tla
    tlapm OutboundVerdicts.tla

## 1. The system

Everything is kept in one SQLite database that several kinds of process write.
A `db.tx` is a `BEGIN IMMEDIATE`, so a transaction is an atomic step; whatever
happens between two transactions of one process may interleave with all others.

| part | process | state it keeps | operations |
|---|---|---|---|
| Binding lifecycle (`lib/lifecycle.py`, `lib/hooklib.py`, `lib/ctl.py`) | CLI, hooks, daemon | `bindings`, `pending_bind` | bind, unbind, the handshake in the Stop hook, SessionEnd, activation, expiry, death scan |
| Outbox (`lib/outbound.py`, `lib/jobs.py`, `lib/slackapi.py`) | daemon; rows are inserted by hooks, CLI and daemon | `outbound_jobs` | prepare, transmit, finalize, verify, startup scan, alerts, cancellation |
| Consumer and stage (`bin/slack_consumer.py`, `lib/daemon_core.py`) | child of the daemon; daemon | `slack_events` | stage, acknowledge, drain, retry, quarantine |
| Inbound (`lib/inbound.py`, `lib/approval.py`, `lib/media.py`) | daemon | `inbox`, `pendings`, `deliveries` | ingest, route, ask for approval, click, download, queue |
| Delivery (`lib/listener_core.py`, `bin/listener.py`) | one or more listeners per session | `deliveries`, lease columns of `bindings` | take over, heartbeat, claim, print, emit |
| Recovery (`lib/recovery.py`) | daemon | all of the above | expiry, reclaiming leases, sweeps, retention |
| Daemon and supervisor (`bin/daemon.py`, `lib/ctl.py`) | daemon; listeners and CLI | `bridge.lock`, `ensure.lock`, `daemon_state` | start, heartbeat, stop, ensure, take over, check of the code identity |
| Fingerprint gate (`lib/fingerprint.py`) | daemon; commands that post by themselves (`lib/notify.py`, `lib/sendfile.py`), doctor | `daemon_state`, token file | identity check, opening and closing of the gate, capability probe |
| Consumer manager (`lib/daemon_core.py`) | daemon | child processes | spawn, back off, restart |
| Attachments (`lib/media.py`, `bin/download_worker.py`) | daemon, one child per file | directories of files | load, publish, retry, give up, sweep |
| Pure helpers (`lib/util.py`, `lib/slackwire.py`) | all | none | chunking, escaping, parsing |

How they interact: the Stop hook inserts the chunks of a turn, the daemon posts
them one row at a time, with the network call outside of any transaction. The
consumer stages an event with the binding it finds live, the daemon drains it,
and nothing but that pinned binding counts later. A termination (unbind, new
bind, SessionEnd, death scan) is one transaction over all tables, and may hit
the other processes between any two of theirs. A listener's heartbeat is the
lease that activates a binding and keeps it alive. Listeners and `bind` bring
the daemon up. In the daemon one thread does everything by turns: it reads what
the consumer says, loads attachments, lets the gate look at the token file,
posts, sweeps, and restarts the consumer when the gate tells it to.

What is hard, and what makes each part correct:

* Outbox: requests that may or may not have been carried out, late copies, a
  crash between a request and its write-back, throttling, terminations while a
  request is out. Correct: at most one duplicate, only after a confirmed
  absence; verdicts that are honest and final; chunks and turns in order; every
  loss reported once; no turn, card or receipt of a dropped message newly put on
  the wire for a closed binding (a row in `sending` when it closes still goes out).
* Binding: two rows that share one life, four kinds of process that end it,
  hooks of several transactions that may be killed. Correct: one-to-one
  bindings, activation by the right session only, nothing left behind, no
  half-done bind.
* Inbound: twofold events, redelivery, approvals racing expiry and
  termination, downloads outside of transactions, quotas. Correct: what Slack
  was told is stored is stored, messages go to the session they were meant
  for, only by the owner's leave, with one true outcome.
* Delivery: copies of a listener, leases that run out under a working
  listener. Correct: one reader per epoch, no loss, a repetition only after a
  lease has run out.
* Supervisor: reads of the state and of the lock that are old when used, and
  put together from several SELECTs. Correct: a daemon is killed only for its
  old heartbeat or its code (section 5 says where that fails), what is called
  started is new, bind does not go on with old code.
* Credentials: one file that anybody may replace between any two reads of it,
  by the daemon's client, its gate, its consumer, its downloads, a doctor and
  the commands beside it. Correct: nothing is posted with credentials nobody
  has vouched for; gate and consumer end up with what is in the file.
* Attachments: three processes deep, any of which dies. Correct: what is
  published is whole; every attempt ends; nothing is left lying about.

## 2. Modules

| module | what it is | extends |
|---|---|---|
| `Outbound` | the state machine of the rows of `outbound_jobs` | |
| `Outbox` | abstract: what the bridge promises of a posted message | |
| `OutboundProofs` | type correctness | `Outbound` |
| `OutboundVerdicts` | the inductive invariant of copies and verdicts | `OutboundProofs` |
| `OutboundPromise` | finality of verdicts; `Outbound` implements `Outbox`; order, alerts, silence, one form | `OutboundVerdicts` |
| `Binding` | the life of a binding | |
| `BindingProofs` | types, one-to-one, request and binding agree, the bind turn, SessionEnd | `Binding` |
| `Inbound` | from Slack to a queued delivery | |
| `InboundProofs` | types, acknowledgement, pinning, approval, outcomes, terminations | `Inbound` |
| `Delivery` | from a queued delivery to the session | |
| `Mailbox` | abstract: a queue that is read at least once | |
| `DeliveryProofs` | the fence, no loss, repeats are counted, types; `Delivery` implements `Mailbox` | `Delivery` |
| `Supervisor` | the daemon process and those who bring it up | |
| `SupervisorProofs` | one daemon, no hasty kill, what is called started is new | `Supervisor` |
| `Loop` | the places of the daemon's one thread, the budget of disturbances | |
| `Gate` | token file, client, verdict, capability; who posts on them | `Loop` |
| `Consumers` | the child that holds the connection, and its manager | `Gate` |
| `Download` | the attachments of one message | `Gate` |
| `DaemonLoop` | the thread as a whole: the composition of the four | `Consumers`, `Download` |
| `DaemonLoopProofs` | types, credentials, whole attachments | `DaemonLoop` |
| `MC...` | small instances for TLC | the module of that name |

The modules meet at the tables. A binding is a status in `Outbound`, `Inbound`
and `Delivery`, which end it at any moment and let `Terminate` do to their own
tables what `_terminate_in_tx` does to them; when and why it ends is the
subject of `Binding`. `Inbound` ends where a delivery is queued, `Delivery`
begins there. Where one module relies on a liveness result of another, the
comment on its fairness says so (`Delivery` and `Inbound` on `LostIsReleased`
and `BindSettles` of `Binding`).

In all modules `Env` is the set of things the environment may do in a
configuration (a crash, a late copy, an unbind, ...): a run leaves out what
its question does not need, and names what it lets happen. Operators called
`Bug...` are mutations of the definition below them; no specification uses
them.

### Outbound

One binding in one chat. A row is a member of `Chunk`, `Card`, `OpenNotice`,
`CloseNotice`, `Reaction`, `Alert`, or of `Interim` or `Outcome` (what a card is
changed into: the files are being loaded, how it ended); its columns are functions (`st` is
`state`, `ac` `attempt_count`, `had` `had_unknown`, `rl`/`tc` the backoff
counters, `op` the frozen form, `absent`/`verr`/`resend`/`round` those of the
verification). The daemon's thread is `phase`, `cur`, `ans`: it is idle, has a
row in `sending` (`prepared`), has an answer (`answered`), has read the pages
of a verification (`queried`) or is down. `_prepare` is `PrepareCancelled`,
`PrepareCapped`, `PrepareRefused` and `PrepareSend`; the network call with its
classification `Transmit...`; `_finalize` the `Finalize...` actions;
`_verify_unknown` is `VerifyQuery` and, in its own transaction, one of
`VerifyStale`, `VerifyHit`, `VerifyAbsent`, `VerifyResend`, `VerifyGivesUp`,
`VerifyThrottled`, `VerifyPermanent`, `VerifyError`; `startup_scan` is
`StartupScan`. The Stop hook, `Terminate`, and a change of the capability
interleave anywhere; what the daemon's own thread does elsewhere (clicks,
expiry, the allowlist, the gate) happens when `phase = "idle"`.

`posted`, `flight`, `forms` and `inWindow` are Slack as it really is: copies
readers see, requests that may still be carried out, their forms, and whether a
verification would find one. `VerifyQuery` answers "hit" or "absent" only in
accordance with the window it reads.

Left out because invariants exclude it: the group-cancelled branch of
`_order_gate` (`UnconfirmedEndsTurn`, proved as `DoubtEndsTurn`), the op-freeze
mismatch (a row in `sending` has its form frozen, `FormInv` of
`OutboundPromise`), a posting row over its cap. The repairs of `startup_scan` (0, 3, 4), of `tick`
and of `recovery._legacy_sending` look for rows this version does not write (no
frozen op, no due time, a pending row at its cap, a `sending` row that no
attempt owns while the daemon is up, which `Owned` of `OutboundVerdicts` rules out): no action models them.
Cooldown and pacing delay a row and change nothing: they are stuttering steps.
The decision notices of a card that is known (`cardId`) are `chat.update` rows
(`Update`): idempotent, repeated blindly, with the guard `_decision_guard`. They
come with a click (`Decide`, `Approve`), the end of a download (`Loaded`), the
expiry and the end of the binding, which cancels an `Interim` that waits; a click
also proves that its card is there (`Proved`), however late it comes
(`LateClick`). The order of the notices that one termination writes is the
constant `Rank`. Left out: the notice of a card that was not known when its
approval ended, a text of its own until a click shows the card. Unsupported and
inbound notices take the path of the lifecycle notices, with a guard of their
own, and are left out too. `bot_id` is configured, as bootstrap sees to; Slack's answers mean
what `slackapi` takes them to mean (a refusal was not carried out, a timeout
may have been).

### Outbox

A message is open or has a verdict; readers see at most two copies; "sent" is
given only when a copy is there, "failed" only when there is none and none can
come. `KeepsPromise` maps a row's open states to "open", `posted` to copies.

### Binding

`status`, `chat`, `inst`, `sess` are columns of `bindings` (`bind_phase` is
confirmed exactly when `sess` is set), `fresh` and `suspect` stand for
`listener_beat_at` and `suspect_since`, `pb` and `latch` are `pending_bind`. A
hook is a process with a program counter, one transaction per action, as in
`run_stop_hook` and `run_session_end`; hooks of one instance run one after the
other, since Claude Code waits for them. The death scan reads all live rows
first and judges each later by what it read. Clocks are abstracted: a deadline
may have passed whenever the code looks ("late"), `PassOver` is a row the scan
spares (a young suspicion, the grace after a sleep). `chain`, `shown`, `blank`
remember what the properties speak of; `outbox` is the kinds of turn queued.
The orphan sweeps of `create_binding` and of recovery find nothing, by
`RequestAgrees` (proved as `TwoRowsAgree`). Not modelled: a SessionEnd hook that is killed half way.

### Inbound

One chat with successive bindings. `wire` and `hand` are Slack and the
consumer's open envelopes, `event`, `pin`, `tries` the stage, `inbox`, `home`,
`full`, `reason` a row of `inbox` (unsupported content included), `pending` the approval, `told` the outcomes
of its decision notices, `delivery` who let it in. `loading` is the one
download in progress: while it runs the daemon's thread does nothing else, but
the CLI and the hooks do. `witness` and `shown` remember what the properties
speak of. Left out: events and clicks that are always dropped (foreign team,
own posts, a stranger's click), the rate-limited `inbound_notice`, the wording
of notices (their way out is `Outbound`). A direct message counts as one that
mentions the bot. The budgets of a download and a permanent refusal are both
`LoadFails`. The branches for a row whose snapshot cannot be read
(`inbound.py:323-330`, `519-524`, `563-565`) are left out because no row gets
there: `ingest` writes the snapshot as JSON in the transaction that makes the
row, and only retention clears it, of rows that have their final state.

### Delivery

One binding, its row (`status`, `epoch`, `holder`, `fresh`), its `deliveries`
and the listeners, statement by statement: `Read` the row, `Beat` or `Take`,
`Claim`, `PrintLine`, `Emit`. A listener may be killed anywhere (`Die`), and a step
may fail (`StepFails`); the token of a lease is the number of the attempt.
A take-over happens only from nobody, from itself, or from a stale holder that
is certainly dead. `MaxSlips` bounds failed steps and leases that run out while
in use. The farewell line and the daemon check are left out (the latter is in
`Supervisor`).

### Mailbox

A message is queued, leased, seen by the session, marked as emitted; a lease
may lapse, after which the message is queued again, or dropped if the binding
has ended. `KeepsMail` maps `deliveries` to the queue, claims to leases, printed
lines to what the session has seen; listeners, epochs, heartbeats and lease
tokens have no counterpart.

### Supervisor

The daemon as a process: `lock` is `bridge.lock`, `row` what it last wrote to
`daemon_state`, `life` where each daemon is, `flight` the holder of
`ensure.lock`, `pc` where each caller of `ensure()` is, `st` the state it has
read. Reading the state and probing the lock are separate steps, as they are in
the code, and probing takes the lock for an instant, which a start or another
probe may run into ("probe"). Reading is several steps itself:
`_read_daemon_state` has a SELECT for every key, and whatever a daemon writes
between two of them goes into the rest of the read. The step to the place that
judges the state (`Read`, `Hand`, `Probe`, `Wait`, `Match`) is the first SELECT
that matters there, `Select` every later one (`Later`: the keys from the i-th on
are those of now), and a caller keeps the keys it will use at that place and
after it (`Use`: of a heartbeat that is old, or a phase that says nothing yet,
nobody uses the generation). A heartbeat carries the generation it is of, so that a state
of two daemons can be told from one. A pid and a start time of two processes
name none. A read may also fail ("unread"): in the code it returns None, here
`NoRow`, and a baseline is then `Lost`, from which any generation differs.
A wait may end at any time (`GiveUp`), a heartbeat may be old whenever its
daemon is dead or hangs ("hang"). Clocks are left out beyond that: whether a
heartbeat is fresh is judged as of its SELECT, so a caller that is suspended
between read and judgement for longer than `HUNG_THRESHOLD_MS` is not modelled. "running" and "degraded" are one phase; the
answers of `ensure()` are ready or not. Generations are slots that are used
again only when nobody remembers them. Watchers are listeners, whose `ensure()`
runs detached; a bind may be interrupted anywhere ("kill").

### Loop, Gate, Consumers, Download, DaemonLoop

`at` is where the daemon's thread is: the steps of `gate.startup()`
("start" to "judge"), the first slow tick and `start_all` ("ready", "spawn"),
and the parts of the loop in their order: `mgr.poll` ("poll"), the followups
("work", with an attempt at attachments in "load", "publish", "store"),
`gate.tick` ("gate", "check", "reload", "due"), `outbound.tick` ("open",
"send", "resend"), `recovery.slow_tick` ("slow"), the restart signal ("flag")
and `mgr.tick` ("tick"). What `drain_staging`, `outbound.tick` and recovery do
to their tables is in the other modules; here they only take their turn.

*Gate.* A version stands for one content of the token file, `None` for a file
that is missing, malformed or readable by others. `ChangeFile` may come between
any two steps; every read of the file (`StartRead`, `StartSync`,
`StartRecheck`, `TickRead`, `TickReload`, the consumer's, a download's, the
doctor's, a command's) is one of its own. `stale` says that the signature of
the file differs from the one recorded, so recording it and reading the file
are two steps, in the order of the code. `gate` and `gver` are the two keys of
the verdict, `cap` and `cver` those of the capability, `client` the version the
`SlackClient` holds, `seen`, `pend`, `digest`, `flag` the members of the gate.
Commands that post (`stage`, `snap`) read tokens first, ask for the verdict
then, and post without asking again; a doctor may write its result long after
the file has changed. `vouched` and `proven` remember what Slack has said of
each version. A doctor with tokens from the environment records the version
"env", which no client of a daemon has; it is left out.

*Consumers.* `kid` is the child and `ktok` the app-level token it read when it
started; `hail` is a ready line that has been written and not yet read; `crow`
is what `status` and `bind` see. `_teardown` closes the pipes, so an unread
line is lost, and may leave a child that has not obeyed yet ("dying"), which
only holds up its successor. There is one consumer key in the code, and one
here. A second child that a killed daemon has not closed the pipe of ends by
itself and is not followed.

*Download.* One message, its files loaded one after the other into `tmp`; a
body whose length was not announced is whatever came, as in the worker.
Publishing is the `rename`, telling the session a transaction after it: a crash
in between finds the directory and uses it. `litter` and `orphan` are what a
killed daemon leaves behind.

## 3. Runs

| run | instance | what it shows |
|---|---|---|
| `outbound_turn` | two turns, one of two chunks, four alerts, throttling, one crash, unbind, fairness | order of chunks and turns, the cascade after an unconfirmed chunk, one alert for every loss and none without cause, no row newly sent after the end of the binding, every row gets a verdict |
| `outbound_row` | one chunk and its alert, every outcome of a call and of a verification, late copies, unbind, capability lost and regained, one crash | types and counters, at most one resend, honest verdicts, one form for both copies, `Outbox` implemented |
| `outbound_side` | a card with an interim and a final change, an opening and a closing notice, a receipt; clicks, downloads, expiry, unbind, allowlist, gate, one crash | order of notices (a card's final form is not overwritten by its interim one), final verdicts |
| `outbound_deadline` | one notice, no crash | violated: see section 5 |
| `binding_pair` | two requests, chats, instances, sessions; killed hooks, deadlines, unbind | one-to-one, only the own marker activates, request and binding end together, the bind turn stays secret |
| `binding_life` | one request, two sessions, everything that can go wrong, fairness | types, SessionEnd leaves nothing, no bind stays half done, the dead are released |
| `inbound_safety` | a mention with files, perhaps of unsupported content, as two events, two clicks, two bindings | acknowledged is kept, pinned delivery, the owner decides, one true outcome, a closed binding leaves nothing open |
| `inbound_live` | two messages that compete for the quotas, failing drains, fairness | every event is drained or put aside, every message gets a final state |
| `delivery` | two listeners, two messages, one slip, fairness | one reader, repetition only after a lapse, `Mailbox` implemented (no loss, oldest first, final marks), every message settles |
| `supervisor` | an old listener and a new bind, two generations; crash, hang, kill, probe, refusal, torn and failed reads | a kill hits the holder of the lock, for its own old heartbeat (or, in a torn read, a predecessor's) or for its code; what is called started is new if the one before could be read |
| `supervisor_bind` | the same, nothing goes wrong | violated: see section 5 |
| `daemon_loop` | two versions of the own bot with two app-level tokens, a foreign one, none; two attachments, one of announced length; any three disturbances (the file replaced, a call or a child that fails, a stop, a crash, a doctor, a command), fairness | nothing posted with credentials nobody vouched for, gate and consumer follow the file, attachments whole, every attempt ends and leaves nothing |

Every property of a passing run is accompanied by a mutant (a plausible bug in
the mapped code) under which the same run finds it violated.

The bounds. The caps of the code (3, 6, 8, ...) are 1, 2 or 3: every branch at,
below and above a cap is reached, and no guard compares two caps. Two chunks
have a predecessor and a successor, two turns an order; three listeners or
bindings would meet the same pairwise fences, since a row names one holder and
the guards compare with one other row. One crash is enough for what a startup
scan can find, because the scan leaves no trace of the crash but `had`. One
slip lets a lease run out under its listener once, which is all that a second
claim needs. `DrainMax` 1 or 2 has both sides of its comparison.
`MaxNonterminal` 2, the cap on messages without a final state, is in the model
and in the proofs, but no run reaches it: that takes three messages, which are
beyond TLC with the liveness of `inbound_live`. Where a run
has several messages or requests, they are as many as the property relates.
`Budget` 3 of `daemon_loop`: a file that is replaced twice while it is being
read, or replaced once beside a crash and a command; the theorems hold for any
budget. Two files have one that is announced and one that is not, a first and a
last. Deadlock is checked in `daemon_loop`, whose loop never ends; it is off in
the other runs, where each instance is finite (rows, requests and messages run
out), so each may really come to rest.

## 4. Fairness

* `Outbound`: the daemon's loop is endless, all its calls have timeouts, a dead
  daemon is brought up again: weak fairness of the step under way, strong
  fairness of preparing and of verifying, since one thread does both by turns.
  `SlackAnswers` (in `outbound_turn`): Slack does not throttle for ever.
* `Binding`: the daemon's timeouts and scans are weakly fair; a dead process is
  probed with a definite answer infinitely often if it is probed infinitely
  often (strong), and a suspicion that stays outlasts its grace.
* `Inbound`: Slack redelivers until acknowledged; draining and routing are
  strongly fair because downloads come in between; a download is not retried
  beyond `MEDIA_RETRY_DEADLINE_MS`; a starting binding ends or becomes active.
* `Delivery`: a listener steps every second, the daemon reclaims again and
  again, a binding whose listeners are all dead is ended.
* `Supervisor` is checked for safety only.
* `DaemonLoop`: the thread, the child and an orphaned worker go on (weak); a
  daemon that is down is started again (`Supervisor` is about how). Strong
  fairness stands for time: the next probe of the gate (backoff at most ten
  minutes), the end of the consumer's backoff, the ten minutes after which
  attachments are given up, the age at which a directory is swept are reached,
  though the thread has come by too early any number of times before.

## 5. Where code and words differ

* `lib/constants.py:70` says that a row still unknown ten minutes after its
  request becomes unconfirmed. `outbound.py` looks at the deadline only when a
  verification ends in an error: one that Slack throttles just waits
  (`outbound.py:917-927`). `outbound_deadline` finds the row unknown for ever;
  it keeps every later turn of the binding waiting.
* `lib/ctl.py:796-798` promises that `reconcile_code_identity` returns without
  an error only if the daemon's identity matches or a new daemon of this
  version was started. After the old daemon's end the lock is free and
  `ensure.lock` not yet taken: a listener of the old installation may start
  another old daemon, which the second `ensure()` of the bind finds running
  (`ctl.py:829`). `supervisor_bind` shows the steps.
* `lib/fingerprint.py:15` lets the gate signal a changed app-level token. It
  compares with the last one it has read itself, so it cannot know what the
  consumer has read: after a start with an unreadable file it has none to
  compare with (`fingerprint.py:201`, `245`), and a file that is replaced and
  put back between two ticks shows it no change. A consumer started in such a
  moment keeps the other token until it ends by itself. `blind` marks these
  consumers, and `ConsumerFollowsToken` leaves them out.
* Downloads use the token in the file whatever the gate says of it
  (`inbound.py:530-541`): a foreign token earns a permanent refusal, and a
  message that waits for its files then is lost, not retried with the token
  that replaces it.

* `lib/ctl.py:600-602` has a takeover rest on a stale heartbeat alone, and never
  kill for a daemon that is not yet ready. Of a read in six SELECTs
  (`ctl.py:743-758`) the heartbeat may be that of a dead daemon and the process
  that of its successor: a listener has spawned it and given up waiting before
  it wrote its identity, the next `ensure()` reads the old `last_loop_at`, the
  identity is committed, the other SELECTs follow, and a daemon a moment old is
  asked to stop. `db.py:84-88` warns of such reads; `_read_daemon_state` does not use
  `get_states`. `KillIsJustified` and `NoHastyKill` therefore allow a
  predecessor's heartbeat; without the disjunct
  `st[c].beat # st[c].proc` TLC finds the steps in the run `supervisor`. The
  part of `bind` is not concerned, since it reads the code after the process.
* `lib/ctl.py:604` promises that a baseline generation keeps an old, complete
  generation from passing for the new one. The read of the baseline may fail
  (`ctl.py:757-758`), and nothing is then excluded: what was ready before the
  wait is reported as started. `StartedIsNew` speaks of the baselines that
  could be read.

## 6. Proofs

Every invariant and every action property of the passing runs is a theorem,
and so are the two refinements.

### The outbox

From the assumptions `JobKinds`, `CardRows`, `GroupShape`, `ChunkOrder` and
`Caps`, for any number of rows, any caps, any number of crashes and any set `Env`. The kinds of
row are disjoint, caps are positive, those of posting rows at least two.
`CardRows`: a card has at most one interim and one final change.
`ChunkOrder`: the chunks of a turn are numbered from 0 without a gap and told
apart by their number, since `run_stop_hook` enumerates them
(`hooklib.py:204-210`) and the number is part of their unique key
(`jobs.key_turn`). Without it a chunk might have no predecessor to wait for, or
two, and order would be no consequence of `_order_gate`, which looks at the
one chunk before.

* `TypeCorrect`: `Spec => []TypeOK`. Inductive with the addition that a step
  under way has its row (`Working`) and that a row in `sending` was counted, so
  that the decrement of `attempt_count` after a request that was not sent never
  goes below zero (`Counted`).
* `OneResendAtMost`, `VerdictsAreHonest`, `PendingIsResend`:
  consequences of `Inv` (`OutboundVerdicts`). It says of each row: only the row
  of the daemon's step, or of a daemon that died, is in `sending` (`Owned`); the
  rows that others insert without looking do not exist before (`Unborn`); and
  for each state how many copies there may be, with what resend count, whether
  the uncertainty is remembered (`CopiesInv`). None of the three is inductive alone: that a failed
  row has no copy rests on `had_unknown` being set whenever a request may have
  been carried out, that two copies need a resend on the absence that a
  verification of the same round has seen. `QuietStep` disposes of the rows a
  step leaves alone; one lemma per action deals with the row it moves.
* `VerdictStays`: no step takes a verdict back, from the same invariant (a late
  answer finds its row in `sending` because nobody else may move it).
* `Implements`: `Spec => KeepsPromise`, each step is one of `Outbox` or a
  stutter; steps that both decide and show a copy do not exist
  (`PostedChanges`).
* `TurnsKeepOrder`, `NoticesKeepOrder`, `DoubtEndsTurn`, `LossesAreReported`:
  consequences of `OrderInv`, which rests on `Inv`. `_order_gate` asks only for
  the chunk just before and for the open rows of earlier turns, so the
  invariant has to carry what it saw on to the rows further back: all chunks
  before one that was reached are sent (`Headed`), and a row, once reached,
  leaves no earlier one open even after a failure (`TurnsApart`,
  `NoticesApart` with `Reached`; a new row is numbered behind all of them,
  `Numbered`, and what was reached exists, `Extant`). The changes of a card are in
  the same order as the notices (`Told`), though a blind repetition may end as
  failed where a message would be in doubt. An unconfirmed chunk has settled all that follow, not only the
  next (`EndsAll`). That a cancelled chunk has a lost or doubtful one before it
  (`Cut`) while binding and allowlist stand tells a turn cut short from one
  that was terminated, and so who owes the second alert (`TurnAlerts`); it
  needs that a turn is inserted as a whole and into an active binding
  (`Together`, `Early`).
* `ClosedStaysQuiet`: only `_prepare` takes a row to `sending`
  (`OnlyPrepareSends`), and it asks for the binding in the same transaction.
* `CopiesLookAlike`: `FormInv` says that copies have the form the row has frozen
  now, and that a row without a copy is the only one that may give it up: this is
  where a rejected markdown rests on `CopiesInv`, by which a row without
  uncertainty has no copy while its request is refused.

### The life of a binding

From `NoneIsNone`, for any sets of requests, chats, instances and sessions and
any environment (`BindingProofs`). `BindingTyped`, `Exclusive`, `TwoRowsAgree`,
`BindTurnStaysHome` and `SessionEndsClean` (`TypeOK`, `OneToOne`,
`RequestAgrees`, `BindTurnIsSecret`, `SessionEndReleases`) are conjuncts of one
invariant, `Inv`; none of the last four is inductive by itself:

* a live, confirmed binding showed its marker in the session it has, which its
  instance still runs (`Proven`): hence two of them cannot share a session, and
  the hook of the instance's session finds the one there is;
* what a hook read in one transaction still holds in the next (`Knows`): the
  request it goes to hand over to is its own, its marker was shown in this
  session, and after each of the three transactions of SessionEnd what it has
  ended does not come back;
* until the next prompt the latch of a binding confirmed in this turn is open,
  and no hook that would forward the turn is under way (`Latched`).

### The way in

From `Shape` (finitely many messages that share no event, positive quotas), for
any messages, events, clicks and bindings, any quotas and any number of retries (`InboundProofs`). `InboundTyped`, `NoAckWithoutRow`,
`NoStrangerReads`, `NoneUnapproved`, `OutcomesAgree`, `TerminationSettles`
(`TypeOK`, `AckedIsKept`, `PinnedDelivery`, `OwnerDecides`, `OutcomeTold`,
`ClosedSettles`) follow from `Inv`: an open envelope is staged before its
acknowledgement is written (`Staged`); every pin, of an event or a row, is a
binding that was live when the message arrived (`Pinned`); and each message has
a `Story`: past the gate its binding was active, so it cannot be one that is
yet to become so and be overlooked by `Terminate` (`Gated`); a delivery exists
exactly if the row says queued (`Delivered`); row, approval and outcomes agree
(`Outcome`); and the end of its binding has settled it (`Settled`). A download
runs outside of transactions; that what it comes back to is either as it was
left or settled is `Gated` and `Settled` together.

### The last hop

From `Shape` (finitely many listeners, at least one message), for any number
of listeners, messages and slips (`DeliveryProofs`):

* `ReadsAlone`: `Spec => []OneReader`. The strengthening `FenceInv` says that
  nobody knows an epoch beyond the row's (`Behind`); a take-over that the row
  has not overtaken therefore makes an epoch nobody knows.
* `NothingLost`: `Spec => []NoneLost`. `LossInv` adds that a binding that is
  starting has no delivery yet, so that a lease that is taken back finds the
  binding either active or closed, and that the row between claim and mark is
  at hand and printed before the mark (`Held`). It does not need the fence: the
  token of the lease decides.
* `RepeatsAreCounted`: `Spec => []RepeatNeedsLapse`. `CountInv` counts: claims
  are the leases that have ended plus the one that stands (`Claims`), and those
  printed and those about to be printed (`Printing`) together do not exceed them.
* `DeliveryTyped`: `Spec => []TypeOK`. That the epoch stays within the number of
  listeners is no matter of shape: `TermInv` counts the listeners that came in
  (`Came`), each at most once, because who came and lives holds the binding
  (`InOffice`).
* `MailIsKept`: `Spec => KeepsMail`, each step is one of `Mailbox` or a stutter,
  from `CountInv`: whoever prints has a claim that was not printed yet, and the
  row that `Min` picks is the oldest (`OldestIsClaimable`, from well-foundedness,
  since TLA+ chooses it and says no more). Taking over, heartbeats and failed
  steps are stutters: the fence is there to keep repeats few, not to keep the
  promise.

### The daemon process

From `CallerAssumption`, `DaemonAssumption` and `EnvAssumption`, for any number
of callers, versions and generations (`SupervisorProofs`). All three rest on
`Inv`:

* `OneDaemonHolds`: `TypeOK`, of which the part that matters is that a process
  is past its start exactly if it holds the lock (`Holds`).
* `NoHastyKill`: the caller kills on a state it read earlier, key by key, when
  its process may have been replaced. `Known` says what such a state is still
  good for: the process it names, if it lives, has signed the row, and hence
  holds the lock; an old heartbeat had run out by the fault of the process it
  was of. `Coded` adds, for the caller that compares versions, that the process
  runs the code named there. Both are preserved because the row belongs to the
  holder of the lock once that has signed it (`Signed`), so that later SELECTs
  bring nothing of a third daemon (`LaterFacts`), and because a generation is
  used again only if nobody remembers it. `Chosen` keeps the reason for which
  the caller went to kill.
* `StartedMeansStarted`: a state newer than the one before the wait and ready
  became so during the wait (`Watched`), if the one before could be read.

### The daemon's loop

From `VersionAssumption`, `AppAssumption`, `FilesAssumption` and
`BudgetAssumption` (what the file holds at first is the own bot's; a version has
an app-level token; there is a file to load), for any versions and tokens, any
number of files, announced or not, and any number of disturbances
(`DaemonLoopProofs`):

* `LoopTyped`: `Spec => []TypeOK`. Inductive with `ReadInv` (only a version that
  was read is looked up) and with `MediaInv` below.
* `PostsVouched`: `Spec => VouchedOnly`. What is posted rests on a verdict that
  may be older than the daemon; `CredentialInv` says what an open gate means all
  the time: Slack has named its version the configured bot's (`JudgedInv`),
  while the loop runs it is the version the client holds and the gate has seen
  last (`HeldInv`), a command that has passed its check holds such a version
  (`SnapInv`), and the capability is recorded with the version it was tried with
  (`ProbedInv`). `HeldInv` is what fails if a new version waits for the next
  probe.
* `PublishedWhole`: `Spec => []MediaIsWhole`. `MediaInv` follows the thread
  through an attempt: while it loads, what is there is sound and not yet all;
  when it publishes, it is whole; what a dead daemon has published is whole
  because only a whole directory is ever renamed.

### Not proved

Only model-checked: all liveness, that is `EveryRowSettles`, `BindSettles`,
`LostIsReleased`, `MessageSettles`, `DeliverySettles`, `GateFollowsFile`,
`ConsumerFollowsToken` and `AttachmentsSettle`, and the two violations of
section 5. Liveness under fairness and `ENABLED` are out of the prover's reach,
as is induction over data: what a recursive definition computes for all inputs.
No module uses RECURSIVE operators. The theorems speak of each module by
itself; where modules meet (section 2), that one does to the other's tables
what it says is read off the code, not proved.

## 7. Not modelled

The texts, the context meter, OS notifications, paths, versions, the schema
check and database connections; `bootstrap`, `list-chats`, `open-dm` and
`status`, which read or write files and call Slack once; the StopFailure hook
and the checks `notify` and `sendfile` make of their input; which messages a
capability probe posts and reads back; which files of a message are loaded
under which names, and the checks of paths, hosts and links around that;
retention by age; HTTP, the limits of pacing and the cooldown table. These are
sequential, or pure functions of strings, or single calls of the system, which
tests reach. Chunking (`chunk_text_with_footer`) is recursion over text: a
reference definition would be a second program.
`PROJECT.json` lists each with its reason, and the hazards of the code with the
properties that cover them, or why none does.

## 8. Plan

Order: the core is the outbox, then the life of a binding on which all else
depends, then the way in and the last hop, then the processes. Done: the
modules above, and the proofs of all their safety properties. Next, in this
order:

1. An abstract specification of `Inbound` (a message that is undecided, admitted
   or refused, once and for all) which it is proved to implement, as `Outbound`
   implements `Outbox` and `Delivery` implements `Mailbox`.
2. A composition of `Binding` with `Delivery` at the lease, in place of the
   assumption on the end of a binding whose listeners are dead.
3. Liveness of `Supervisor` (a daemon comes back) with the fairness of lock and
   wait, and with it the start of the daemon in `DaemonLoop`.
