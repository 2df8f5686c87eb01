-------------------------- MODULE DaemonLoopProofs --------------------------
(***************************************************************************)
(* Proofs about DaemonLoop: what is posted with which credentials, and that *)
(* published attachments are whole, for every token file history, number of *)
(* files and budget of faults.                                              *)
(***************************************************************************)
EXTENDS DaemonLoop, SequenceTheorems, TLAPS

------------------------------------------------------------------------------
(***************************************************************************)
(* Credentials.  VouchedOnly speaks of the moments in which something is    *)
(* posted; the verdict those moments rely on was written long before, by a  *)
(* daemon that may have died since.  The invariant says what an open gate   *)
(* means between those moments.                                             *)
(***************************************************************************)
\* The verdict is Slack's, whoever reads it.
JudgedInv == gate = "ok" => gver \in vouched
\* While the loop runs it is about the version the client holds.
HeldInv == at \in Looping \cup {"ready", "spawn"} /\ gate = "ok" => gver = client /\ seen = client
\* A request on its way was begun under such a verdict.
PostInv == at \in {"send", "resend"} => client \in vouched
SnapInv == stage = "post" => snap \in vouched
\* The capability belongs to the version it is recorded for.
ProbedInv == cap = "ok" => cver \in proven

CredentialInv == JudgedInv /\ HeldInv /\ PostInv /\ SnapInv /\ ProbedInv

\* A step of the thread that leaves verdict, client and senders alone keeps the invariant
\* unless it begins a request.
Verdicts == <<client, seen, gate, gver, cap, cver, stage, snap, vouched, proven>>

LEMMA Untouched ==
  ASSUME CredentialInv, UNCHANGED Verdicts,
         at' = at \/ at' \notin Looping \cup {"ready", "spawn"}
           \/ (at \in Looping \cup {"ready", "spawn"} /\ at' \notin {"send", "resend"})
  PROVE  CredentialInv'
BY DEF CredentialInv, JudgedInv, HeldInv, PostInv, SnapInv, ProbedInv, Verdicts, Looping

\* The gate's part of the loop, one action after the other.
LEMMA GateKeeps ==
  ASSUME CredentialInv, GateTurn
  PROVE  CredentialInv'
<1> USE DEF gateVars, fileVars, memVars, stateVars, senderVars, Goto, Free, Spend
<1>1. CASE StartStat
  BY <1>1, Untouched DEF StartStat, Verdicts, Looping
<1>2. CASE StartDegraded
  BY <1>2 DEF StartDegraded, CredentialInv, JudgedInv, HeldInv, PostInv, SnapInv, ProbedInv
<1>3. CASE StartRead
  <2>1. CASE at' \in {"judge", "sync"} /\ UNCHANGED Verdicts
    BY <2>1, Untouched DEF Looping
  <2> QED
    BY <1>2, <1>3, <2>1 DEF StartRead, Verdicts
<1>4. CASE StartSync
  <2>1. CASE at' \in {"judge", "recheck"} /\ UNCHANGED <<seen, stateVars, senderVars, vouched, proven>>
    BY <2>1 DEF CredentialInv, JudgedInv, HeldInv, PostInv, SnapInv, ProbedInv, Looping
  <2> QED
    BY <1>2, <1>4, <2>1 DEF StartSync
<1>5. CASE StartRecheck
  <2>1. CASE at' = "judge" /\ UNCHANGED Verdicts
    BY <2>1, Untouched DEF Looping
  <2> QED
    BY <1>2, <1>5, <2>1 DEF StartRecheck, Verdicts
<1>6. CASE StartJudge
  BY <1>6 DEF StartJudge, Evaluate, Apply, Looping,
              CredentialInv, JudgedInv, HeldInv, PostInv, SnapInv, ProbedInv
<1>7. CASE Refuse
  BY <1>7 DEF Refuse, Forget, Looping, CredentialInv, JudgedInv, HeldInv, PostInv, SnapInv, ProbedInv
<1>8. CASE StatTick
  BY <1>8, Untouched DEF StatTick, Verdicts, Looping
<1>9. CASE TickError /\ at \in Looping
  BY <1>9 DEF TickError, Degraded, CredentialInv, JudgedInv, HeldInv, PostInv, SnapInv, ProbedInv
<1>10. CASE TickRead
  <2>1. CASE at = "check" /\ at' = "reload" /\ UNCHANGED Verdicts
    BY <2>1, Untouched DEF Looping
  <2> QED
    BY <1>9, <1>10, <2>1 DEF TickRead, Verdicts, Looping
<1>11. CASE TickReload
  BY <1>9, <1>11 DEF TickReload, Evaluate, Apply, Looping,
                     CredentialInv, JudgedInv, HeldInv, PostInv, SnapInv, ProbedInv
<1>12. CASE Probe
  BY <1>12 DEF Probe, Evaluate, Apply, Looping,
               CredentialInv, JudgedInv, HeldInv, PostInv, SnapInv, ProbedInv
<1>13. CASE NotDue \/ NoSend \/ Sent
  BY <1>13, Untouched DEF NotDue, NoSend, Sent, Verdicts, Looping
<1>14. CASE Send \/ Resend
  BY <1>14 DEF Send, Resend, Looping, CredentialInv, JudgedInv, HeldInv, PostInv, SnapInv, ProbedInv
<1>15. CASE Denied
  BY <1>15 DEF Denied, Looping, CredentialInv, JudgedInv, HeldInv, PostInv, SnapInv, ProbedInv
<1> QED
  BY <1>1, <1>3, <1>4, <1>5, <1>6, <1>7, <1>8, <1>10, <1>11, <1>12, <1>13, <1>14, <1>15
  DEF GateTurn, GateStart, GateTick, GatePost

\* The token file, the doctor and the direct sender.
LEMMA OthersKeep ==
  ASSUME CredentialInv, ChangeFile \/ Others
  PROVE  CredentialInv'
<1> USE DEF fileVars, memVars, stateVars, senderVars, Free, Spend
<1>1. CASE ChangeFile \/ DoctorReads \/ DoctorQuits
  BY <1>1, Untouched DEF ChangeFile, DoctorReads, DoctorQuits, Verdicts
<1>2. CASE DoctorWrites
  BY <1>2 DEF DoctorWrites, CredentialInv, JudgedInv, HeldInv, PostInv, SnapInv, ProbedInv
<1>3. CASE OpenContext \/ Request \/ Report
  BY <1>3 DEF OpenContext, Request, Vetted, Report,
              CredentialInv, JudgedInv, HeldInv, PostInv, SnapInv, ProbedInv
<1> QED
  BY <1>1, <1>2, <1>3 DEF Others

\* Consumer and attachments change neither verdict nor client.
LEMMA WorkKeeps ==
  ASSUME CredentialInv,
         \/ StartAll \/ Poll \/ Restart \/ ManagerTick \/ BeginLoad \/ GiveUp \/ NothingDue \/ Fetch
         \/ FetchFails \/ FetchRefused \/ Publish \/ Store \/ Sweep \/ Kid \/ Orphan
  PROVE  CredentialInv'
<1> USE DEF gateVars, fileVars, memVars, stateVars, senderVars, Goto, Verdicts, Looping
<1>1. CASE StartAll \/ Poll \/ Restart \/ ManagerTick
  BY <1>1, Untouched DEF StartAll, Poll, Restart, ManagerTick
<1>2. CASE BeginLoad \/ GiveUp \/ NothingDue \/ Store \/ Sweep
  BY <1>2, Untouched DEF BeginLoad, GiveUp, NothingDue, Store, Sweep
<1>3. CASE Fetch \/ FetchFails \/ FetchRefused \/ Publish
  BY <1>3, Untouched DEF Fetch, FetchFails, FetchRefused, Publish, Discard
<1>4. CASE Kid \/ Orphan
  BY <1>4, Untouched DEF Kid, KidConnects, KidLeaves, KidObeys, Orphan, OrphanEnds
<1> QED
  BY <1>1, <1>2, <1>3, <1>4

LEMMA CredentialStep ==
  ASSUME CredentialInv, [Next]_vars
  PROVE  CredentialInv'
<1>1. CASE Next
  <2>1. CASE GateStep(GateTurn) \/ GateStep(ChangeFile \/ Others)
    BY <2>1, GateKeeps, OthersKeep DEF GateStep
  <2>2. CASE StartDaemon
    BY <2>2 DEF StartDaemon, Construct, Goto, stateVars, senderVars, Looping,
                CredentialInv, JudgedInv, HeldInv, PostInv, SnapInv, ProbedInv
  <2>3. CASE TurnAway
    BY <2>3, Untouched DEF TurnAway, gateVars, memVars, stateVars, senderVars, Verdicts
  <2>4. CASE Stop \/ Crash
    BY <2>4 DEF Stop, Crash, stateVars, senderVars, Looping,
                CredentialInv, JudgedInv, HeldInv, PostInv, SnapInv, ProbedInv
  <2> QED
    BY <1>1, <2>1, <2>2, <2>3, <2>4, WorkKeeps DEF Next, Daemon
<1>2. CASE UNCHANGED vars
  BY <1>2, Untouched DEF vars, loopVars, gateVars, memVars, stateVars, senderVars, Verdicts
<1> QED
  BY <1>1, <1>2

\* What may be posted with which credentials, in the daemon and beside it.
THEOREM PostsVouched == Spec => VouchedOnly
<1>1. Init => CredentialInv
  BY DEF Init, GateInit, CredentialInv, JudgedInv, HeldInv, PostInv, SnapInv, ProbedInv, Looping
<1>2. CredentialInv /\ [Next]_vars => CredentialInv'
  BY CredentialStep
<1>3. CredentialInv /\ CredentialInv' /\ [Next]_vars =>
        [/\ at' \in {"send", "resend"} => client' \in vouched'
         /\ stage' = "post" => snap' \in vouched'
         /\ at # "resend" /\ at' = "resend" => client \in proven]_vars
  <2> SUFFICES ASSUME CredentialInv, CredentialInv', Next, at # "resend", at' = "resend"
               PROVE  client \in proven
    BY DEF CredentialInv, PostInv, SnapInv
  <2> USE DEF Goto, gateVars
  <2>1. CASE GateStep(GateTurn)
    <3>1. CASE Resend
      BY <3>1 DEF Resend, CapabilityOk, CredentialInv, ProbedInv
    <3>2. CASE GateStart
      BY <3>2 DEF GateStart, StartStat, StartRead, StartDegraded, StartSync, StartRecheck,
                  StartJudge, Refuse
    <3>3. CASE GateTick
      BY <3>3 DEF GateTick, StatTick, TickRead, TickError, TickReload, Probe, NotDue
    <3>4. CASE Send \/ Sent \/ NoSend \/ Denied
      BY <3>4 DEF Send, Sent, NoSend, Denied
    <3> QED
      BY <2>1, <3>1, <3>2, <3>3, <3>4 DEF GateStep, GateTurn, GatePost
  <2>2. CASE ChangeFile \/ Others \/ Kid \/ Orphan
    BY <2>2 DEF ChangeFile, Others, DoctorReads, DoctorWrites, DoctorQuits, OpenContext, Request,
                Report, Kid, KidConnects, KidLeaves, KidObeys, Orphan, OrphanEnds
  <2>3. CASE StartDaemon \/ TurnAway \/ Stop \/ Crash
    BY <2>3 DEF StartDaemon, Construct, TurnAway, Stop, Crash
  <2>4. CASE StartAll \/ Poll \/ Restart \/ ManagerTick
    BY <2>4 DEF StartAll, Poll, Restart, ManagerTick
  <2>5. CASE BeginLoad \/ GiveUp \/ NothingDue \/ Fetch \/ FetchFails \/ FetchRefused \/ Publish
             \/ Store \/ Sweep
    BY <2>5 DEF BeginLoad, GiveUp, NothingDue, Fetch, FetchFails, FetchRefused, Discard, Publish,
                Store, Sweep
  <2> QED
    BY <2>1, <2>2, <2>3, <2>4, <2>5 DEF Next, Daemon, GateStep
<1> QED
  BY <1>1, <1>2, <1>3, PTL DEF Spec, VouchedOnly

------------------------------------------------------------------------------
(***************************************************************************)
(* Attachments.  MediaIsWhole speaks of the published directory; what is    *)
(* renamed is the temporary one, so the invariant follows the thread        *)
(* through the attempt that fills it.                                       *)
(***************************************************************************)
\* So far every file that announced its length has it.
Sound(d) == d \in Seq(Body) /\ \A i \in Announced : i <= Len(d) => d[i] = "whole"

MediaInv ==
  /\ at = "load" => Sound(tmp) /\ Len(tmp) < Files
  /\ at = "publish" => Whole(tmp)
  /\ at = "store" => Whole(dest)
  /\ MediaIsWhole

\* Whoever neither loads nor publishes keeps it.
LEMMA MediaUntouched ==
  ASSUME MediaInv, UNCHANGED <<job, dest>>,
         at' \notin {"load", "publish", "store"} \/ (at' = at /\ UNCHANGED tmp)
  PROVE  MediaInv'
BY DEF MediaInv, MediaIsWhole, Whole, Sound

\* A body that is accepted as the next one keeps the directory sound, and the last one
\* completes it.
LEMMA Accepting ==
  ASSUME NEW d, Sound(d), Len(d) < Files, NEW body \in Accepted(Len(d) + 1)
  PROVE  /\ Sound(Append(d, body)) /\ Len(Append(d, body)) = Len(d) + 1
         /\ Len(d) + 1 = Files => Whole(Append(d, body))
<1>1. d \in Seq(Body) /\ body \in Body /\ Len(d) \in Nat
  BY LenProperties DEF Sound, Accepted, Body
<1>2. /\ Append(d, body) \in Seq(Body) /\ Len(Append(d, body)) = Len(d) + 1
      /\ \A i \in 1..Len(d) : Append(d, body)[i] = d[i]
      /\ Append(d, body)[Len(d) + 1] = body
  BY <1>1, AppendProperties
<1>3. ASSUME NEW i \in Announced, i <= Len(d) + 1
      PROVE  Append(d, body)[i] = "whole"
  <2>1. i \in 1..Files
    BY FilesAssumption
  <2>2. CASE i = Len(d) + 1
    BY <1>2, <2>2 DEF Accepted
  <2>3. CASE i # Len(d) + 1
    BY <1>1, <1>2, <1>3, <2>1, <2>3, FilesAssumption DEF Sound
  <2> QED
    BY <2>2, <2>3
<1> QED
  BY <1>2, <1>3, FilesAssumption DEF Sound, Whole

LEMMA MediaStep ==
  ASSUME MediaInv, [Next]_vars
  PROVE  MediaInv'
<1> USE DEF Goto, gateVars, consumerVars, mediaVars
<1>1. CASE GateStep(GateTurn)
  <2>1. at' \notin {"load", "publish", "store"}
    <3>1. CASE GateStart
      BY <3>1 DEF GateStart, StartStat, StartRead, StartDegraded, StartSync, StartRecheck,
                  StartJudge, Refuse
    <3>2. CASE GateTick
      BY <3>2 DEF GateTick, StatTick, TickRead, TickError, TickReload, Probe, NotDue
    <3>3. CASE GatePost
      BY <3>3 DEF GatePost, Send, Resend, Sent, NoSend, Denied
    <3> QED
      BY <1>1, <3>1, <3>2, <3>3 DEF GateStep, GateTurn
  <2> QED
    BY <1>1, <2>1, MediaUntouched DEF GateStep
<1>2. CASE GateStep(ChangeFile \/ Others) \/ Kid \/ Orphan
  BY <1>2, MediaUntouched
  DEF GateStep, ChangeFile, Others, DoctorReads, DoctorWrites, DoctorQuits, OpenContext, Request,
      Report, Kid, KidConnects, KidLeaves, KidObeys, Orphan, OrphanEnds
<1>3. CASE StartDaemon \/ TurnAway \/ Stop \/ Crash
  BY <1>3, MediaUntouched DEF StartDaemon, Construct, TurnAway, Stop, Crash, Abandon
<1>4. CASE (StartAll \/ Poll \/ Restart \/ ManagerTick) /\ UNCHANGED mediaVars
  BY <1>4, MediaUntouched DEF StartAll, Poll, Restart, ManagerTick
<1>5. CASE NothingDue \/ Sweep
  BY <1>5, MediaUntouched DEF NothingDue, Sweep
<1>6. CASE BeginLoad
  <2>1. Sound(<<>>) /\ Len(<<>>) < Files
    BY FilesAssumption DEF Sound
  <2> QED
    BY <1>6, <2>1 DEF BeginLoad, MediaInv, MediaIsWhole, Whole
<1>7. CASE Fetch
  <2>1. PICK body \in Accepted(Len(tmp) + 1) : tmp' = Append(tmp, body)
    BY <1>7 DEF Fetch
  <2>2. Sound(tmp) /\ Len(tmp) < Files /\ Len(tmp) \in Nat
    BY <1>7, LenProperties DEF Fetch, MediaInv, Sound
  <2>3. Sound(tmp') /\ Len(tmp') = Len(tmp) + 1 /\ (Len(tmp) + 1 = Files => Whole(tmp'))
    BY <2>1, <2>2, Accepting
  <2>4. dest' = dest /\ job' = job /\ at' = IF Len(tmp) + 1 = Files THEN "publish" ELSE "load"
    BY <1>7 DEF Fetch
  <2> QED
    BY <2>2, <2>3, <2>4, FilesAssumption DEF MediaInv, MediaIsWhole, Sound, Whole
<1>8. CASE GiveUp \/ FetchFails \/ FetchRefused
  BY <1>8 DEF GiveUp, FetchFails, FetchRefused, Discard, MediaInv, MediaIsWhole, Whole
<1>9. CASE Publish
  BY <1>9 DEF Publish, Discard, MediaInv, MediaIsWhole, Whole
<1>10. CASE Store
  BY <1>10 DEF Store, MediaInv, MediaIsWhole, Whole
<1>11. CASE UNCHANGED vars
  BY <1>11, MediaUntouched DEF vars, loopVars
<1> QED
  BY <1>1, <1>2, <1>3, <1>4, <1>5, <1>6, <1>7, <1>8, <1>9, <1>10, <1>11 DEF Next, Daemon

\* Attachments are published, and a session is told of them, only when all of them are there.
THEOREM PublishedWhole == Spec => []MediaIsWhole
<1>1. Init => MediaInv
  BY DEF Init, DownloadInit, MediaInv, MediaIsWhole
<1>2. MediaInv /\ [Next]_vars => MediaInv'
  BY MediaStep
<1>3. MediaInv => MediaIsWhole
  BY DEF MediaInv
<1> QED
  BY <1>1, <1>2, <1>3, PTL DEF Spec

------------------------------------------------------------------------------
(***************************************************************************)
(* Types.  Only a version that has been read is ever looked up.             *)
(***************************************************************************)
ReadInv == at \in {"sync", "recheck", "judge", "reload"} => got \in Version

LEMMA GateTypes ==
  ASSUME TypeOK, ReadInv, GateTurn \/ ChangeFile \/ Others
  PROVE  at' \in Place /\ left' \in 0..Budget /\ GateTypeOK' /\ ReadInv'
<1> USE VersionAssumption, AppAssumption, BudgetAssumption
    DEF TypeOK, GateTypeOK, ReadInv, fileVars, memVars, stateVars, senderVars, gateVars, Goto, Free,
        Spend, Degraded, Place, Starting, Looping
<1> DEFINE Flags == stale \in BOOLEAN /\ pend \in BOOLEAN /\ flag \in BOOLEAN
<1>1. CASE StartStat \/ Refuse
  <2>1. Flags'
    BY <1>1, Zenon DEF StartStat, Refuse, Forget
  <2> QED
    BY <1>1, <2>1 DEF StartStat, Refuse, Forget
<1>2. ASSUME StartDegraded, Free \/ Unreadable, UNCHANGED client
      PROVE  at' \in Place /\ left' \in 0..Budget /\ GateTypeOK' /\ ReadInv'
  BY <1>2 DEF StartDegraded, Unreadable
<1>3. CASE StartRead
  BY <1>2, <1>3 DEF StartRead
<1>4. CASE StartSync
  <2>1. CASE Unreadable /\ StartDegraded /\ UNCHANGED client
    BY <1>2, <2>1
  <2>2. Flags' \/ (Unreadable /\ StartDegraded /\ UNCHANGED client)
    BY <1>4, Zenon DEF StartSync
  <2> QED
    BY <1>4, <2>1, <2>2 DEF StartSync
<1>5. CASE StartRecheck
  BY <1>2, <1>5 DEF StartRecheck
<1>6. CASE StartJudge
  BY <1>6 DEF StartJudge, Evaluate, Apply
<1>7. CASE StatTick \/ NotDue
  <2>1. Flags'
    BY <1>7, Zenon DEF StatTick, NotDue
  <2> QED
    BY <1>7, <2>1 DEF StatTick, NotDue
<1>8. ASSUME TickError
      PROVE  at' \in Place /\ left' \in 0..Budget /\ GateTypeOK' /\ ReadInv'
  BY <1>8 DEF TickError, Unreadable
<1>9. CASE TickRead
  BY <1>8, <1>9 DEF TickRead
<1>10. CASE TickReload
  <2>1. CASE TickError
    BY <1>8, <2>1
  <2>2. Flags' \/ TickError
    BY <1>10, Zenon DEF TickReload
  <2> QED
    BY <1>8, <1>10, <2>1, <2>2 DEF TickReload, Evaluate, Apply
<1>11. CASE Probe
  BY <1>11 DEF Probe, Evaluate, Apply
<1>12. CASE GatePost
  BY <1>12 DEF GatePost, Send, Resend, Sent, NoSend, Denied
<1>13. CASE ChangeFile
  BY <1>13 DEF ChangeFile
<1>14. CASE Others
  BY <1>14 DEF Others, DoctorReads, DoctorWrites, DoctorQuits, OpenContext, Request, Report
<1> QED
  BY <1>1, <1>3, <1>4, <1>5, <1>6, <1>7, <1>9, <1>10, <1>11, <1>12, <1>13, <1>14
  DEF GateTurn, GateStart, GateTick

\* What the gate keeps goes for the whole thread.
LEMMA ReadStep ==
  ASSUME TypeOK, ReadInv, [Next]_vars
  PROVE  at' \in Place /\ left' \in 0..Budget /\ GateTypeOK' /\ ReadInv'
<1> USE BudgetAssumption DEF gateVars, fileVars, memVars, stateVars, senderVars
<1> DEFINE Keeps == at' \in Place /\ left' \in 0..Budget /\ GateTypeOK' /\ ReadInv'
<1> DEFINE Elsewhere == /\ at' \in Place /\ left' \in 0..Budget
                        /\ at' \in {"sync", "recheck", "judge", "reload"} => at' = at
<1>1. ASSUME UNCHANGED gateVars, Elsewhere
      PROVE  Keeps
  <2>1. stale' \in BOOLEAN /\ pend' \in BOOLEAN /\ flag' \in BOOLEAN
    BY <1>1, Zenon DEF TypeOK, GateTypeOK
  <2>2. GateTypeOK'
    BY <1>1, <2>1 DEF TypeOK, GateTypeOK
  <2> QED
    BY <1>1, <2>2 DEF ReadInv
<1>2. CASE GateStep(GateTurn) \/ GateStep(ChangeFile \/ Others)
  BY <1>2, GateTypes DEF GateStep
<1>3. CASE StartDaemon
  BY <1>3, VersionAssumption
  DEF StartDaemon, Construct, Goto, Free, Place, Starting, TypeOK, GateTypeOK, ReadInv
<1>4. CASE TurnAway \/ Kid \/ Orphan
  <2>1. UNCHANGED gateVars /\ Elsewhere
    BY <1>4 DEF TurnAway, Kid, KidConnects, KidLeaves, KidObeys, Orphan, OrphanEnds, Free, Spend, TypeOK
  <2> QED
    BY <1>1, <2>1
<1>5. CASE Stop \/ Crash
  <2>1. stale' = stale /\ pend' \in BOOLEAN /\ flag' \in BOOLEAN
    BY <1>5, Zenon DEF Stop, Crash, Forget
  <2> QED
    BY <1>5, <2>1 DEF Stop, Crash, Forget, Spend, Place, TypeOK, GateTypeOK, ReadInv
<1>6. CASE StartAll \/ Poll \/ ManagerTick
  <2>1. UNCHANGED gateVars /\ at' \in {"poll", "work"}
    BY <1>6 DEF StartAll, Poll, ManagerTick, Goto
  <2>2. Free \/ Spend
    BY <1>6, Zenon
    DEF StartAll, Poll, ManagerTick, TickNotices, TickSpawns, TickRests, Spawned, SpawnFailed
  <2>3. left' \in 0..Budget
    BY <2>2 DEF Free, Spend, TypeOK
  <2> QED
    BY <1>1, <2>1, <2>3 DEF Place, Looping
<1>7. CASE Restart
  <2>1. flag' \in BOOLEAN
    BY <1>7, Zenon DEF Restart
  <2> QED
    BY <1>7, <2>1 DEF Restart, Goto, Free, Place, Looping, TypeOK, GateTypeOK, ReadInv
<1>8. CASE \/ BeginLoad \/ GiveUp \/ NothingDue \/ Fetch \/ FetchFails \/ FetchRefused \/ Publish
           \/ Store \/ Sweep
  <2>1. UNCHANGED gateVars /\ Elsewhere
    BY <1>8 DEF BeginLoad, GiveUp, NothingDue, Fetch, FetchFails, FetchRefused, Discard, Publish,
                Store, Sweep, Goto, Free, Spend, Place, Starting, Looping, TypeOK
  <2> QED
    BY <1>1, <2>1
<1>9. CASE UNCHANGED vars
  BY <1>1, <1>9 DEF vars, loopVars, TypeOK
<1> QED
  BY <1>2, <1>3, <1>4, <1>5, <1>6, <1>7, <1>8, <1>9 DEF Next, Daemon

LEMMA ConsumerTypes ==
  ASSUME TypeOK, [Next]_vars
  PROVE  ConsumersTypeOK'
<1> USE DEF consumerVars, kidVars, managerVars
<1> DEFINE Flags == hail \in BOOLEAN /\ exited \in BOOLEAN /\ pause \in BOOLEAN /\ blind \in BOOLEAN
           Words == /\ kid \in {"none", "boot", "live", "gone", "dying"} /\ ktok \in AppToken \cup {None}
                    /\ crow \in {"none", "starting", "ready", "down"}
<1> SUFFICES Flags' /\ Words'
  BY Zenon DEF ConsumersTypeOK
<1>1. Flags /\ Words
  BY Zenon DEF TypeOK, ConsumersTypeOK
<1>2. ASSUME NEW wait \in BOOLEAN, Teardown(wait)
      PROVE  Flags' /\ Words'
  <2>1. Flags'
    BY <1>2, Zenon DEF Teardown
  <2> QED
    BY <1>1, <1>2, <2>1 DEF Teardown
<1>3. ASSUME Spawned \/ SpawnFailed
      PROVE  Flags' /\ Words'
  <2>1. Flags'
    BY <1>1, <1>3, Zenon DEF Spawned, SpawnFailed
  <2> QED
    BY <1>1, <1>3, <2>1 DEF Spawned, SpawnFailed
<1>4. ASSUME UNCHANGED <<kidVars, managerVars>>, Noted \/ UNCHANGED blind
      PROVE  Flags' /\ Words'
  <2>1. hail' = hail /\ exited' = exited /\ pause' = pause /\ (Noted \/ blind' = blind)
    BY <1>4
  <2>2. Flags'
    BY <1>1, <2>1, Zenon DEF Noted
  <2> QED
    BY <1>1, <1>4, <2>2
<1>5. CASE Kid
  <2>1. CASE KidConnects
    <3>1. Flags'
      BY <1>1, <2>1, Zenon DEF KidConnects
    <3>2. file \in Version \/ file = None
      BY DEF TypeOK, GateTypeOK
    <3> QED
      BY <1>1, <2>1, <3>1, <3>2, AppAssumption DEF KidConnects
  <2>2. CASE KidLeaves \/ KidObeys
    BY <1>1, <2>2 DEF KidLeaves, KidObeys
  <2> QED
    BY <1>5, <2>1, <2>2 DEF Kid
<1>6. CASE StartAll \/ Poll \/ Restart \/ ManagerTick
  <2>1. CASE StartAll
    BY <1>3, <2>1 DEF StartAll
  <2>2. CASE Poll
    <3>1. CASE hail' = FALSE /\ crow' = "ready" /\ UNCHANGED <<kid, ktok, exited, pause, blind>>
      BY <1>1, <3>1
    <3> QED
      BY <1>2, <1>4, <2>2, <3>1 DEF Poll
  <2>3. CASE Restart
    BY <1>2, <1>4, <2>3 DEF Restart
  <2>4. CASE ManagerTick
    BY <1>2, <1>3, <1>4, <2>4 DEF ManagerTick, TickNotices, TickSpawns, TickRests
  <2> QED
    BY <1>6, <2>1, <2>2, <2>3, <2>4
<1>7. CASE StartDaemon \/ TurnAway
  BY <1>1, <1>7 DEF StartDaemon, Construct, memVars, TurnAway, gateVars
<1>8. CASE Stop \/ Crash
  <2>1. Flags'
    BY <1>8, Zenon DEF Stop, Crash, NoKid
  <2> QED
    BY <1>1, <1>8, <2>1 DEF Stop, Crash, NoKid
<1>9. CASE GateStep(GateTurn) \/ GateStep(ChangeFile \/ Others)
  BY <1>4, <1>9 DEF GateStep
<1>10. CASE UNCHANGED consumerVars
  BY <1>4, <1>10
<1> QED
  BY <1>5, <1>6, <1>7, <1>8, <1>9, <1>10 DEF Next, Daemon, Orphan, vars

LEMMA DownloadTypes ==
  ASSUME TypeOK, MediaInv, [Next]_vars
  PROVE  DownloadTypeOK'
<1> USE DEF mediaVars
<1> DEFINE Flags == tried \in BOOLEAN /\ litter \in BOOLEAN /\ orphan \in BOOLEAN
           Rest == /\ job \in {"due", "stored", "failed"} /\ tok \in Version \cup {None}
                   /\ tmp = None \/ (tmp \in Seq(Body) /\ Len(tmp) <= Files)
                   /\ dest = None \/ dest \in Seq(Body)
<1>1. Flags /\ Rest
  BY Zenon DEF TypeOK, DownloadTypeOK
<1>2. CASE UNCHANGED mediaVars
  BY <1>1, <1>2 DEF DownloadTypeOK
<1>3. CASE BeginLoad
  <2>1. Flags'
    BY <1>1, <1>3, Zenon DEF BeginLoad
  <2>2. file \in Version \/ file = None
    BY DEF TypeOK, GateTypeOK
  <2>3. <<>> \in Seq(Body) /\ Len(<<>>) <= Files
    BY FilesAssumption
  <2> QED
    BY <1>1, <1>3, <2>1, <2>2, <2>3 DEF BeginLoad, DownloadTypeOK
<1>4. CASE Fetch
  <2>1. PICK body \in Accepted(Len(tmp) + 1) : tmp' = Append(tmp, body)
    BY <1>4 DEF Fetch
  <2>2. Sound(tmp) /\ Len(tmp) < Files /\ Len(tmp) \in Nat
    BY <1>4, LenProperties DEF Fetch, MediaInv, Sound
  <2>3. tmp' \in Seq(Body) /\ Len(tmp') <= Files
    BY <2>1, <2>2, Accepting, FilesAssumption DEF Sound
  <2> QED
    BY <1>1, <1>4, <2>3 DEF Fetch, DownloadTypeOK
<1>5. CASE Publish \/ FetchFails \/ FetchRefused \/ GiveUp \/ Store
  BY <1>1, <1>5 DEF Publish, FetchFails, FetchRefused, Discard, GiveUp, Store, DownloadTypeOK
<1>6. CASE OrphanEnds \/ Sweep \/ Crash
  <2>1. Flags'
    BY <1>1, <1>6, Zenon DEF OrphanEnds, Sweep, Crash, Abandon
  <2> QED
    BY <1>1, <1>6, <2>1 DEF OrphanEnds, Sweep, Crash, Abandon, DownloadTypeOK
<1> QED
  BY <1>2, <1>3, <1>4, <1>5, <1>6
  DEF Next, Daemon, Kid, Orphan, StartDaemon, TurnAway, NothingDue, Stop, GateStep, vars

\* Thread, verdict, consumer and attachments keep their types, and no more disturbances
\* happen than the budget has.
THEOREM LoopTyped == Spec => []TypeOK
<1>1. Init => TypeOK /\ ReadInv /\ MediaInv
  <2> SUFFICES ASSUME Init
               PROVE  TypeOK /\ ReadInv /\ MediaInv
    OBVIOUS
  <2>1. GateTypeOK /\ ReadInv
    BY VersionAssumption DEF Init, GateInit, GateTypeOK, ReadInv
  <2>2. ConsumersTypeOK /\ DownloadTypeOK /\ MediaInv
    BY DEF Init, ConsumersInit, ConsumersTypeOK, DownloadInit, DownloadTypeOK, MediaInv, MediaIsWhole
  <2> QED
    BY <2>1, <2>2, BudgetAssumption DEF Init, TypeOK, Place
<1>2. TypeOK /\ ReadInv /\ MediaInv /\ [Next]_vars => (TypeOK /\ ReadInv /\ MediaInv)'
  BY ReadStep, ConsumerTypes, DownloadTypes, MediaStep DEF TypeOK
<1> QED
  BY <1>1, <1>2, PTL DEF Spec

=============================================================================
