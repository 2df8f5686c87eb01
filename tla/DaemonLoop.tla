----------------------------- MODULE DaemonLoop -----------------------------
(***************************************************************************)
(* The daemon's thread as a whole (main() of bin/daemon.py, loop_iteration  *)
(* of lib/daemon_core.py): the gate, the consumer and the attachments of a  *)
(* message take turns on it, while the token file, the consumer, a doctor   *)
(* and a direct sender go their own ways, and the daemon is stopped,        *)
(* killed and started again.                                                *)
(***************************************************************************)
EXTENDS Consumers, Download

vars == <<loopVars, gateVars, consumerVars, mediaVars>>

Init == /\ at = "down" /\ left = Budget
        /\ GateInit /\ ConsumersInit /\ DownloadInit

------------------------------------------------------------------------------
\* record_daemon_identity: whatever the last daemon left of its consumer, it is down now.
StartDaemon   == Construct /\ crow' = "down" /\ UNCHANGED <<kidVars, exited, pause, blind, mediaVars>>
\* No readable token file: the daemon leaves again.
TurnAway ==
  /\ at = "down" /\ file = None /\ crow' = "down" /\ Free
  /\ UNCHANGED <<at, gateVars, kidVars, exited, pause, blind, mediaVars>>

\* The child ends with the daemon that has it: by its order, or when its stdin is closed.
NoKid == /\ kid' = "none" /\ ktok' = None /\ hail' = FALSE
         /\ exited' = TRUE /\ pause' = FALSE /\ blind' = FALSE

\* SIGTERM, seen after poll(), or an exception that nothing in the loop catches.
Stop ==
  /\ at \in {"poll", "gate", "check", "due", "open", "slow", "tick"} /\ Spend /\ at' = "down"
  /\ Forget /\ NoKid /\ crow' = "down"
  /\ UNCHANGED <<fileVars, stateVars, senderVars, doctor, vouched, proven, mediaVars>>

Crash ==
  /\ at # "down" /\ Spend /\ at' = "down"
  /\ Forget /\ NoKid /\ Abandon /\ UNCHANGED crow
  /\ UNCHANGED <<fileVars, stateVars, senderVars, doctor, vouched, proven>>

------------------------------------------------------------------------------
GateStep(A) == A /\ Noted /\ UNCHANGED <<kidVars, managerVars, mediaVars>>

\* The daemon's thread, without the ways it may end.
Daemon ==
  \/ StartDaemon \/ TurnAway
  \/ GateStep(GateTurn)
  \/ (StartAll \/ Poll \/ Restart \/ ManagerTick) /\ UNCHANGED mediaVars
  \/ (BeginLoad \/ GiveUp \/ NothingDue \/ Fetch \/ FetchFails \/ FetchRefused \/ Publish \/ Store \/ Sweep)
       /\ UNCHANGED consumerVars
Kid    == (KidConnects \/ KidLeaves \/ KidObeys) /\ UNCHANGED mediaVars
Orphan == OrphanEnds /\ UNCHANGED consumerVars

Next == Daemon \/ Kid \/ Orphan \/ Stop \/ Crash \/ GateStep(ChangeFile \/ Others)

\* The supervisor starts a daemon that is down; its thread, the child and the worker go on;
\* a backoff, the time of a probe, the ten minutes of an attachment and the age of a
\* directory are reached, however often the thread has come by too early.
Fairness ==
  /\ WF_vars(Daemon) /\ WF_vars(Kid) /\ WF_vars(Orphan)
  /\ SF_vars(GateStep(Probe))
  /\ SF_vars(ManagerTick /\ TickSpawns /\ UNCHANGED mediaVars)
  /\ SF_vars(GiveUp /\ UNCHANGED consumerVars)
  /\ SF_vars(Sweep /\ ~litter' /\ UNCHANGED consumerVars)

Spec == Init /\ [][Next]_vars /\ Fairness

------------------------------------------------------------------------------
TypeOK == /\ at \in Place /\ left \in 0..Budget
          /\ GateTypeOK /\ ConsumersTypeOK /\ DownloadTypeOK

\* Nothing is posted with credentials that Slack has not named as the configured bot's, by the
\* daemon or by a command beside it, whenever the file is replaced; and a duplicate is risked
\* only with credentials whose last probe was in order.
VouchedOnly ==
  [][/\ at' \in {"send", "resend"} => client' \in vouched'
     /\ stage' = "post" => snap' \in vouched'
     /\ at # "resend" /\ at' = "resend" => client \in proven]_vars

\* When no more happens to the file, the verdict becomes the one about what is in it: a repaired
\* file opens the gate, a foreign or unreadable one shuts it.
GateFollowsFile ==
  <>[](IF file = None THEN at = "down" \/ gate # "ok"
       ELSE gate = (IF file \in Own THEN "ok" ELSE "mismatch") /\ gver = file)

\* In the end a consumer is up, is known to be, and holds the app-level token of the file,
\* unless the gate never read the token that it holds.
ConsumerFollowsToken ==
  <>[](file \in Own /\ ~blind => kid = "live" /\ crow = "ready" /\ ktok = AppOf[file])

\* What is published, and whatever a session is told of, is all there: every file whose length
\* was announced, in full, through workers that die, daemons that die and attempts repeated.
Whole(d) == Len(d) = Files /\ \A i \in Announced : d[i] = "whole"
MediaIsWhole == (dest # None => Whole(dest)) /\ (job = "stored" => Whole(dest))

\* A message that waits for its files is handed on or given up while the daemon runs, and no
\* temporary directory outlives the daemon that died over it for good.
AttachmentsSettle == <>[](at \in Looping => job # "due" /\ ~litter)

=============================================================================
