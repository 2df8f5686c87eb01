-------------------------------- MODULE Gate --------------------------------
(***************************************************************************)
(* Which credentials the bridge may use.  The token file may be replaced at *)
(* any moment; the daemon notices it by the stat of the file, reads it,     *)
(* lets its client read it again, asks Slack whose token that is and        *)
(* publishes the verdict with the version it is about (lib/fingerprint.py). *)
(* The outbox posts while the verdict is "ok" (lib/outbound.py), commands   *)
(* that post directly compare the version they have read themselves         *)
(* (lib/notify.py, lib/sendfile.py), and a doctor's probe allows resends    *)
(* for the version it probed (scripts/capability_probe.py).                 *)
(* A version is a hash of the content and the time of its writing.          *)
(***************************************************************************)
EXTENDS Loop, FiniteSets

CONSTANTS
  Version,     \* what the token file may hold
  First,       \* what it holds at first
  Own,         \* those whose bot token belongs to the configured bot
  AppToken,    \* app-level tokens
  AppOf        \* the app-level token of a version

ASSUME VersionAssumption == First \in Own /\ Own \subseteq Version /\ None \notin Version \cup AppToken
ASSUME AppAssumption     == AppOf \in [Version -> AppToken]

VARIABLES
  file,        \* the version in the token file, None: missing, malformed or not 0600
  stale,       \* the file has been written since its signature was last recorded
  client,      \* the version the daemon's SlackClient holds
  before, got, \* locals of startup() and _check_tokens_file: client's version at first, version read
  pend, seen,  \* _reload_pending, _seen_version
  digest, flag,\* _app_token_digest, _app_token_changed_flag
  gate, gver,  \* daemon_state: the verdict and the version it is about
  cap, cver,   \* daemon_state: the capability to verify and the version it was probed with
  doctor,      \* the version a probe is under way with
  stage, snap, \* a direct sender: where it is, the version it has read
  vouched,     \* ghost: versions Slack has named as the configured bot's
  proven       \* ghost: versions whose latest probe or verification was in order

fileVars   == <<file, stale>>
memVars    == <<client, before, got, pend, seen, digest, flag>>
stateVars  == <<gate, gver, cap, cver>>
senderVars == <<stage, snap>>
gateVars   == <<fileVars, memVars, stateVars, senderVars, doctor, vouched, proven>>

Degraded == {"tokens_error", "auth_error"}

GateInit ==
  /\ file = First /\ stale = FALSE
  /\ client = None /\ before = None /\ got = None /\ pend = FALSE /\ seen = None
  /\ digest = None /\ flag = FALSE
  /\ gate = "none" /\ gver = None /\ cap = "unverified" /\ cver = None
  /\ doctor = None /\ stage = "idle" /\ snap = None
  /\ vouched = {} /\ proven = {}

\* The daemon's memory ends with it.
Forget ==
  /\ client' = None /\ before' = None /\ got' = None /\ pend' = FALSE /\ seen' = None
  /\ digest' = None /\ flag' = FALSE

\* Somebody replaces the file, removes it, or changes its mode.
ChangeFile ==
  /\ Spend /\ file' \in (Version \cup {None}) \ {file} /\ stale' = TRUE
  /\ UNCHANGED <<at, memVars, stateVars, senderVars, doctor, vouched, proven>>

------------------------------------------------------------------------------
(***************************************************************************)
(* The verdict.                                                             *)
(***************************************************************************)
\* auth.test with the client's token: no answer, or whose it is.
Evaluate(v, verdict) ==
  \/ verdict = (IF v \in Own THEN "ok" ELSE "mismatch") /\ Free
  \/ verdict = "auth_error" /\ Spend

\* _apply: one transaction; a new version loses the capability unless it was probed itself.
Apply(v, verdict, changed) ==
  /\ gate' = verdict /\ gver' = v /\ seen' = v
  /\ cap' = IF changed /\ cver # v THEN "unverified" ELSE cap
  /\ vouched' = IF verdict = "ok" THEN vouched \cup {v} ELSE vouched
  /\ UNCHANGED cver

\* The file cannot be read, or reading it fails this once.
Unreadable == IF file = None THEN Free ELSE Spend

------------------------------------------------------------------------------
(***************************************************************************)
(* startup()                                                                *)
(***************************************************************************)
\* The daemon makes its client; without a readable file it refuses to start.
Construct ==
  /\ Goto("down", "start") /\ Free /\ file # None /\ client' = file
  /\ UNCHANGED <<fileVars, before, got, pend, seen, digest, flag, stateVars, senderVars, doctor,
                 vouched, proven>>

StartStat ==
  /\ Goto("start", "read") /\ Free /\ stale' = FALSE /\ pend' = FALSE /\ before' = client
  /\ UNCHANGED <<file, client, got, seen, digest, flag, stateVars, senderVars, doctor,
                 vouched, proven>>

\* No version to judge: closed, about the version the client had at first.
StartDegraded ==
  /\ gate' = "tokens_error" /\ gver' = before /\ seen' = before
  /\ pend' = TRUE /\ digest' = None /\ at' = "ready" /\ before' = None /\ got' = None
  /\ UNCHANGED <<fileVars, flag, cap, cver, senderVars, doctor, vouched, proven>>

StartRead ==
  /\ at = "read"
  /\ \/ /\ file # None /\ Free /\ got' = file
        /\ at' = IF client = file THEN "judge" ELSE "sync"
        /\ UNCHANGED <<fileVars, client, before, pend, seen, digest, flag, stateVars, senderVars,
                       doctor, vouched, proven>>
     \/ Unreadable /\ StartDegraded /\ UNCHANGED client

\* _sync_client: the client reads the file for itself, which may have changed again.
StartSync ==
  /\ at = "sync"
  /\ \/ /\ file # None /\ Free /\ client' = file
        /\ at' = IF file = got THEN "judge" ELSE "recheck"
        /\ pend' = (pend \/ file # got)
        /\ UNCHANGED <<fileVars, before, got, seen, digest, flag, stateVars, senderVars, doctor,
                       vouched, proven>>
     \/ Unreadable /\ StartDegraded /\ UNCHANGED client

StartRecheck ==
  /\ at = "recheck"
  /\ \/ /\ file = client /\ Free /\ at' = "judge"
        /\ UNCHANGED <<fileVars, memVars, stateVars, senderVars, doctor, vouched, proven>>
     \/ /\ IF file \in Version \ {client} THEN Free ELSE Unreadable
        /\ StartDegraded /\ UNCHANGED client

StartJudge ==
  /\ at = "judge"
  /\ \E verdict \in {"ok", "mismatch", "auth_error"} :
       /\ Evaluate(client, verdict) /\ Apply(client, verdict, client # before)
       /\ digest' = AppOf[got] /\ before' = None /\ got' = None
       /\ IF verdict = "mismatch" THEN at' = "refused" ELSE at' = "ready"
  /\ UNCHANGED <<fileVars, client, pend, flag, senderVars, doctor, proven>>

\* The daemon refuses a foreign identity and leaves.
Refuse ==
  /\ Goto("refused", "down") /\ Free /\ Forget
  /\ UNCHANGED <<fileVars, stateVars, senderVars, doctor, vouched, proven>>

------------------------------------------------------------------------------
(***************************************************************************)
(* tick()                                                                   *)
(***************************************************************************)
StatTick ==
  /\ at = "gate" /\ Free
  /\ at' = (IF stale \/ pend THEN "check" ELSE "due") /\ stale' = FALSE
  /\ UNCHANGED <<file, memVars, stateVars, senderVars, doctor, vouched, proven>>

\* Mutant: a file that could not be read is not read again before it changes.
BugErrorDropped ==
  /\ Unreadable /\ at' = "open" /\ got' = None
  /\ gate' \in {"tokens_error"} \cup (Degraded \cap {gate})
  /\ UNCHANGED <<fileVars, client, before, pend, seen, digest, flag, gver, cap, cver, senderVars,
                 doctor, vouched, proven>>

\* Mutant: with the file the app-level token is forgotten too.
BugErrorForgets ==
  /\ Unreadable /\ at' = "open" /\ pend' = TRUE /\ got' = None /\ digest' = None
  /\ gate' \in {"tokens_error"} \cup (Degraded \cap {gate})
  /\ UNCHANGED <<fileVars, client, before, seen, flag, gver, cap, cver, senderVars, doctor,
                 vouched, proven>>

\* Reading fails: the gate is shut, at once or when the backoff of a shut gate allows.
TickError ==
  /\ Unreadable /\ at' = "open" /\ pend' = TRUE /\ got' = None
  /\ gate' \in {"tokens_error"} \cup (Degraded \cap {gate})
  /\ UNCHANGED <<fileVars, client, before, seen, digest, flag, gver, cap, cver, senderVars, doctor,
                 vouched, proven>>

TickRead ==
  /\ at = "check"
  /\ \/ /\ file # None /\ Free /\ got' = file /\ at' = "reload"
        /\ UNCHANGED <<fileVars, client, before, pend, seen, digest, flag, stateVars, senderVars,
                       doctor, vouched, proven>>
     \/ TickError

\* Mutant: a new version waits for the next probe like any other.
BugTickReload ==
  /\ at = "reload"
  /\ \/ /\ file # None /\ client' = file /\ pend' = FALSE /\ got' = None
        /\ digest' = AppOf[got] /\ flag' = (flag \/ (digest # None /\ AppOf[got] # digest))
        /\ at' = "due" /\ Free
        /\ UNCHANGED <<fileVars, before, seen, stateVars, senderVars, doctor, vouched, proven>>
     \/ TickError

\* The client has read a version that is not the last one judged: judged at once.
TickReload ==
  /\ at = "reload"
  /\ \/ /\ file # None /\ client' = file /\ pend' = FALSE /\ got' = None
        /\ digest' = AppOf[got] /\ flag' = (flag \/ (digest # None /\ AppOf[got] # digest))
        /\ \/ /\ file # seen /\ at' = "open"
              /\ \E verdict \in {"ok", "mismatch", "auth_error"} :
                   Evaluate(file, verdict) /\ Apply(file, verdict, TRUE)
           \/ /\ file = seen /\ at' = "due" /\ Free
              /\ UNCHANGED <<seen, stateVars, vouched>>
        /\ UNCHANGED <<fileVars, before, senderVars, doctor, proven>>
     \/ TickError

\* The time of the next probe has come, or has not.
Probe ==
  /\ Goto("due", "open")
  /\ \E verdict \in {"ok", "mismatch", "auth_error"} :
       Evaluate(client, verdict) /\ Apply(client, verdict, FALSE)
  /\ UNCHANGED <<fileVars, client, before, got, pend, digest, flag, senderVars, doctor, proven>>

NotDue == Goto("due", "open") /\ Free /\ UNCHANGED gateVars

------------------------------------------------------------------------------
(***************************************************************************)
(* outbound.tick(): it only asks whether the gate is open.                  *)
(***************************************************************************)
CapabilityOk == cap = "ok" /\ cver = client

Send   == Goto("open", "send") /\ Free /\ gate = "ok" /\ UNCHANGED gateVars
Resend == Goto("open", "resend") /\ Free /\ gate = "ok" /\ CapabilityOk /\ UNCHANGED gateVars
Sent   == at \in {"send", "resend"} /\ at' = "slow" /\ Free /\ UNCHANGED gateVars
NoSend == Goto("open", "slow") /\ Free /\ UNCHANGED gateVars

\* A verification is refused for good: the capability is gone.
Denied ==
  /\ Goto("open", "slow") /\ Spend /\ gate = "ok" /\ cap' = "degraded" /\ proven' = proven \ {client}
  /\ UNCHANGED <<fileVars, memVars, gate, gver, cver, senderVars, doctor, vouched>>

------------------------------------------------------------------------------
(***************************************************************************)
(* doctor: run_probe with the tokens it has read, then write_results.       *)
(***************************************************************************)
DoctorReads ==
  /\ Spend /\ doctor = None /\ file # None /\ doctor' = file
  /\ UNCHANGED <<at, fileVars, memVars, stateVars, senderVars, vouched, proven>>

DoctorWrites ==
  /\ doctor \in Own /\ Free /\ doctor' = None /\ cver' = doctor
  /\ \/ cap' = "ok" /\ proven' = proven \cup {doctor}
     \/ cap' = "degraded" /\ proven' = proven \ {doctor}
  /\ UNCHANGED <<at, fileVars, memVars, gate, gver, senderVars, vouched>>

\* The identity does not match or the probe is not completed: nothing is written.
DoctorQuits ==
  /\ doctor # None /\ Free /\ doctor' = None
  /\ UNCHANGED <<at, fileVars, memVars, stateVars, senderVars, vouched, proven>>

------------------------------------------------------------------------------
(***************************************************************************)
(* notify and sendfile: the tokens first, then verdict and version in one   *)
(* SELECT, then the requests, of which none looks at the gate again.        *)
(***************************************************************************)
OpenContext ==
  /\ Spend /\ stage = "idle" /\ file # None /\ stage' = "open" /\ snap' = file
  /\ UNCHANGED <<at, fileVars, memVars, stateVars, doctor, vouched, proven>>

Vetted == gate = "ok" /\ gver = snap

Request ==
  /\ stage = "open" /\ Free /\ Vetted /\ stage' = "post"
  /\ UNCHANGED <<at, fileVars, memVars, stateVars, doctor, snap, vouched, proven>>

\* It reports what it knows and ends: at a shut gate, after an error, or when all is done.
Report ==
  /\ Free /\ (stage = "post" \/ (stage = "open" /\ ~Vetted)) /\ stage' = "idle" /\ snap' = None
  /\ UNCHANGED <<at, fileVars, memVars, stateVars, doctor, vouched, proven>>

GateStart == StartStat \/ StartRead \/ StartSync \/ StartRecheck \/ StartJudge \/ Refuse
GateTick  == StatTick \/ TickRead \/ TickReload \/ Probe \/ NotDue
GatePost  == Send \/ Resend \/ Sent \/ NoSend \/ Denied
GateTurn  == GateStart \/ GateTick \/ GatePost
Others    == DoctorReads \/ DoctorWrites \/ DoctorQuits \/ OpenContext \/ Request \/ Report

------------------------------------------------------------------------------
GateTypeOK ==
  /\ file \in Version \cup {None} /\ stale \in BOOLEAN
  /\ client \in Version \cup {None} /\ before \in Version \cup {None}
  /\ got \in Version \cup {None} /\ seen \in Version \cup {None}
  /\ gver \in Version \cup {None} /\ cver \in Version \cup {None}
  /\ doctor \in Version \cup {None} /\ snap \in Version \cup {None}
  /\ pend \in BOOLEAN /\ flag \in BOOLEAN /\ digest \in AppToken \cup {None}
  /\ gate \in {"none", "ok", "mismatch"} \cup Degraded
  /\ cap \in {"ok", "unverified", "degraded"}
  /\ stage \in {"idle", "open", "post"}
  /\ vouched \subseteq Version /\ proven \subseteq Version

=============================================================================
