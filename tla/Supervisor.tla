----------------------------- MODULE Supervisor -----------------------------
(***************************************************************************)
(* The daemon as a process: one at a time (bridge.lock), brought up, waited *)
(* for and replaced by anybody who needs it (lib/ctl.py), and described to  *)
(* the others by the few keys it keeps in daemon_state (lib/daemon_core.py, *)
(* bin/daemon.py).  Watchers are the listeners, which bring the daemon up   *)
(* when they find it missing; binders are `bridgectl bind`, which also      *)
(* replaces a daemon of another code version.                               *)
(* Probing the lock is a step of its own, and reading the state is several: *)
(* every key has a SELECT to itself, so that a state may be put together    *)
(* from what two daemons wrote, and a read may fail.  Clocks are left out:  *)
(* a wait may end at any moment, a heartbeat may be old whenever the daemon *)
(* is dead or hangs.                                                        *)
(***************************************************************************)
EXTENDS Naturals, FiniteSetsExt

CONSTANTS
  Caller,      \* the processes that call ensure(), one call at a time
  Watcher,     \* those of them that listeners spawn; nobody interrupts them
  Version,     \* code identities
  Own,         \* Own[c]: the code of caller c, and of the daemons it spawns
  MaxDaemon,   \* generations told apart at the same time
  Env,         \* what may happen: "crash", "hang", "kill", "probe", "refuse", "unread"
  None,
  Lost         \* the generation of which a failed read left nothing

Daemon == 1 .. MaxDaemon

ASSUME CallerAssumption  == Watcher \subseteq Caller /\ Own \in [Caller -> Version]
ASSUME DaemonAssumption  == MaxDaemon \in Nat \ {0} /\ {None, Lost} \cap (Daemon \cup Caller) = {}
                            /\ None # Lost
ASSUME EnvAssumption     == Env \subseteq {"crash", "hang", "kill", "probe", "refuse", "unread"}

VARIABLES
  lock,        \* who holds bridge.lock
  row,         \* daemon_state, see NoRow
  life, code,  \* per daemon process: where it is, which code it runs
  flight,      \* who holds ensure.lock
  pc,          \* per caller: where it is
  again,       \* it is in the second ensure() of a bind
  base, st,    \* the generation it will not accept, the state it has read
  stalled,     \* ghost: processes whose heartbeat was once seen to be old
  late         \* ghost: generations that became ready while the caller waits

daemonVars == <<lock, row, life, code, stalled>>
callerVars == <<flight, pc, again, base, st>>
vars == <<daemonVars, callerVars, late>>

Alive(d) == d # None /\ life[d] # "none"
Ready(s) == s.fresh /\ s.phase = "running" /\ s.by = s.gen

\* The keys in the order of their SELECTs.  last_loop_at: is it fresh, and (a ghost) whose it
\* is; the process that daemon_pid and daemon_proc_start name together; startup: its phase
\* (running stands for degraded too, neither for probing, stopping and no phase at all) and
\* its generation; daemon_generation; daemon_code_identity.
NoRow == [fresh |-> FALSE, beat |-> None, proc |-> None, phase |-> "neither", by |-> None,
          gen |-> None, code |-> None]

Init ==
  /\ lock = None /\ row = NoRow /\ flight = None /\ stalled = {}
  /\ life = [d \in Daemon |-> "none"]
  /\ code = [d \in Daemon |-> None]
  /\ pc = [c \in Caller |-> "idle"] /\ again = [c \in Caller |-> FALSE]
  /\ base = [c \in Caller |-> None] /\ st = [c \in Caller |-> NoRow]
  /\ late = [c \in Caller |-> {}]

------------------------------------------------------------------------------
(***************************************************************************)
(* The lock.  daemon_lock_held takes it for an instant to see whether it is *)
(* free, so whoever looks or starts at that instant finds it held.  An idle *)
(* listener looks every few seconds.                                        *)
(***************************************************************************)
Looking == {"fast", "slow", "probing", "exit", "await", "handoff", "match", "gone", "quit"}
Looks(b)  == pc[b] \in Looking \/ (b \in Watcher /\ pc[b] = "idle")
Probed(c) == "probe" \in Env /\ \E b \in Caller \ {c} : Looks(b)
Held(c)   == {lock # None} \cup IF Probed(c) THEN {TRUE} ELSE {}

------------------------------------------------------------------------------
(***************************************************************************)
(* A daemon process.                                                        *)
(***************************************************************************)
Step(d, from, to) == life[d] = from /\ life' = [life EXCEPT ![d] = to]

\* The process ends, in whatever way; the kernel releases its lock.
Die(d) ==
  /\ life' = [life EXCEPT ![d] = "none"] /\ code' = [code EXCEPT ![d] = None]
  /\ stalled' = stalled \ {d} /\ lock' = IF lock = d THEN None ELSE lock

\* Mutant: a daemon that does not mind the lock.
BugLock(d) ==
  /\ Step(d, "spawned", "locked") /\ lock' = d
  /\ UNCHANGED <<row, code, stalled, callerVars, late>>

Lock(d) ==
  /\ lock = None /\ Step(d, "spawned", "locked") /\ lock' = d
  /\ UNCHANGED <<row, code, stalled, callerVars, late>>

\* Somebody holds the lock: a silent exit.
Yield(d) ==
  /\ life[d] = "spawned" /\ (lock # None \/ Probed(None)) /\ Die(d)
  /\ UNCHANGED <<row, callerVars, late>>

\* The configuration cannot be read: it leaves without having published anything.
ConfigRefused(d) ==
  /\ "refuse" \in Env /\ life[d] = "locked" /\ Die(d)
  /\ UNCHANGED <<row, callerVars, late>>

\* Identity, first heartbeat and the phase probing in one transaction.
RecordIdentity(d) ==
  /\ Step(d, "locked", "probing")
  /\ row' = [fresh |-> TRUE, beat |-> d, proc |-> d, phase |-> "neither", by |-> d, gen |-> d,
             code |-> code[d]]
  /\ UNCHANGED <<lock, code, stalled, callerVars, late>>

\* The gate has looked at the credentials: running or degraded.
Conclude(d) ==
  /\ Step(d, "probing", "ready") /\ row' = [row EXCEPT !.phase = "running"]
  /\ late' = [c \in Caller |-> IF pc[c] \in {"wait", "await"} /\ c \notin Watcher
                            THEN late[c] \cup {d} ELSE late[c]]
  /\ UNCHANGED <<lock, code, stalled, callerVars>>

Refuse(d) ==
  /\ "refuse" \in Env
  /\ Step(d, "probing", "leaving") /\ row' = [row EXCEPT !.phase = "refused"]
  /\ UNCHANGED <<lock, code, stalled, callerVars, late>>

\* Signal handler installed, a heartbeat, then the loop.
Serve(d) ==
  /\ Step(d, "ready", "loop") /\ row' = [row EXCEPT !.fresh = TRUE]
  /\ UNCHANGED <<lock, code, stalled, callerVars, late>>

Beat(d) ==
  /\ life[d] \in {"loop", "told"} /\ row' = [row EXCEPT !.fresh = TRUE]
  /\ UNCHANGED <<lock, life, code, stalled, callerVars, late>>

Stop(d) ==
  /\ Step(d, "told", "leaving") /\ row' = [row EXCEPT !.phase = "neither"]
  /\ UNCHANGED <<lock, code, stalled, callerVars, late>>

Exit(d) ==
  /\ life[d] = "leaving" /\ Die(d) /\ UNCHANGED <<row, callerVars, late>>

Crash(d) ==
  /\ "crash" \in Env /\ life[d] # "none" /\ Die(d)
  /\ UNCHANGED <<row, callerVars, late>>

\* HUNG_THRESHOLD_MS without a heartbeat.
Silence ==
  /\ row.fresh /\ row' = [row EXCEPT !.fresh = FALSE]
  /\ \/ ~Alive(row.gen) /\ stalled' = stalled
     \/ Alive(row.gen) /\ "hang" \in Env /\ stalled' = stalled \cup {row.gen}
  /\ UNCHANGED <<lock, life, code, callerVars, late>>

\* SIGTERM asks a daemon that has its handler to stop, and kills one that has not.
Sigterm(d) ==
  IF life[d] \in {"loop", "told", "leaving"}
  THEN /\ life' = [life EXCEPT ![d] = IF @ = "loop" THEN "told" ELSE @]
       /\ UNCHANGED <<lock, code, stalled>>
  ELSE Die(d)

------------------------------------------------------------------------------
(***************************************************************************)
(* A caller of ensure().                                                    *)
(***************************************************************************)
\* The keys that a caller goes on to use, by the place where it holds them: of a startup
\* that is too old or says nothing yet nobody uses the generation.
Startup(s)   == [s EXCEPT !.beat = None, !.proc = None, !.code = None]
Heartbeat(s) == [NoRow EXCEPT !.fresh = s.fresh, !.beat = s.beat, !.proc = s.proc]

Use(place, s) ==
  CASE place = "probing" -> Startup(s)
    [] place = "await"   -> IF s.phase = "neither" THEN [NoRow EXCEPT !.fresh = s.fresh] ELSE Startup(s)
    [] place = "handoff" -> IF s.fresh /\ s.phase = "running" THEN Startup(s)
                            ELSE [NoRow EXCEPT !.fresh = s.fresh]
    [] place = "fast"    -> IF s.fresh THEN [s EXCEPT !.code = None] ELSE Heartbeat(s)
    [] place \in {"slow", "takeover"}    -> IF s.fresh THEN [Heartbeat(s) EXCEPT !.phase = s.phase] ELSE Heartbeat(s)
    [] place \in {"compare", "identify"} -> [NoRow EXCEPT !.proc = s.proc, !.code = s.code]
    [] OTHER                             -> NoRow

Goto(c, from, to) == pc[c] = from /\ pc' = [pc EXCEPT ![c] = to]
LookAt(c, s)      == st' = [st EXCEPT ![c] = Use(pc'[c], s)]
Acquire(c)        == flight = None /\ flight' = c

\* _read_daemon_state returns None when any of its SELECTs raises: nothing in it is ready,
\* fresh or of a process, and no generation is known.  Who polls has lost a round.
ReadFails == "unread" \in Env
Baselines == {row.gen} \cup IF ReadFails THEN {Lost} ELSE {}

\* The state s, had the read come to its i-th SELECT only now.  A pid and a start time
\* of two processes name none.
Later(s, i) ==
  [fresh |-> s.fresh, beat |-> s.beat,
   proc  |-> IF i = 2 THEN row.proc ELSE IF i > 3 \/ s.proc = row.proc THEN s.proc ELSE None,
   phase |-> IF i <= 4 THEN row.phase ELSE s.phase,
   by    |-> IF i <= 4 THEN row.by ELSE s.by,
   gen   |-> IF i <= 5 THEN row.gen ELSE s.gen,
   code  |-> row.code]

Forget(c, from, to) ==
  Goto(c, from, to) /\ LookAt(c, NoRow) /\ UNCHANGED <<flight, again, base, late>>

\* The call ends: with ok the caller takes the daemon to be ready.
Answer(c, ok) ==
  /\ pc' = [pc EXCEPT ![c] = IF c \in Watcher \/ ~ok THEN "idle"
                             ELSE IF again[c] THEN "bound" ELSE "match"]
  /\ again' = [again EXCEPT ![c] = again[c] /\ pc'[c] = "bound"]
  /\ LookAt(c, NoRow) /\ base' = [base EXCEPT ![c] = None] /\ late' = [late EXCEPT ![c] = {}]
  /\ flight' = IF flight = c THEN None ELSE flight

Healthy == lock # None /\ Ready(row)

\* A listener finds no healthy daemon; a user runs bind.  Its three SELECTs find a daemon
\* unhealthy only if at some moment of them there was no healthy one.
Start(c) ==
  /\ Goto(c, "idle", "enter")
  /\ c \in Watcher => ~Healthy
  /\ UNCHANGED <<daemonVars, flight, again, base, st, late>>

Enter(c) ==
  /\ \/ Acquire(c) /\ Goto(c, "enter", "read")
     \/ flight # None /\ Goto(c, "enter", "busy") /\ UNCHANGED flight
  /\ UNCHANGED <<daemonVars, again, base, st, late>>

\* Somebody else is at it: whatever generation is there now does not count.
Busy(c) == \E g \in Baselines :
  /\ Goto(c, "busy", "hand") /\ base' = [base EXCEPT ![c] = g]
  /\ UNCHANGED <<daemonVars, flight, again, st, late>>

Hand(c) ==
  /\ \/ Acquire(c) /\ Goto(c, "hand", "read") /\ base' = [base EXCEPT ![c] = None] /\ UNCHANGED st
     \/ flight # None /\ Goto(c, "hand", "handoff") /\ LookAt(c, row) /\ UNCHANGED <<flight, base>>
  /\ UNCHANGED <<daemonVars, again, late>>

Handoff(c) == \E held \in Held(c) :
  /\ pc[c] = "handoff"
  /\ IF held /\ st[c].gen \notin {None, base[c]} /\ Ready(st[c])
     THEN Answer(c, TRUE)
     ELSE Forget(c, "handoff", "hand")
  /\ UNCHANGED daemonVars

Read(c) ==
  /\ \/ Goto(c, "read", "fast") /\ LookAt(c, row)
     \/ ReadFails /\ Goto(c, "read", "slow") /\ LookAt(c, NoRow)
  /\ UNCHANGED <<daemonVars, flight, again, base, late>>

Fast(c) == \E held \in Held(c) :
  /\ pc[c] = "fast"
  /\ IF held /\ Ready(st[c]) THEN Answer(c, TRUE)
     ELSE Goto(c, "fast", "slow") /\ LookAt(c, st[c]) /\ UNCHANGED <<flight, again, base, late>>
  /\ UNCHANGED daemonVars

\* Mutant: what is not ready is taken for hung.
BugPlan(held, s) == IF ~held THEN "spawn" ELSE IF s.phase = "refused" THEN "unlock" ELSE "takeover"

\* What the daemon needs: nothing but patience, a successor, or to be there at all.
Plan(held, s) ==
  CASE ~held                                     -> "spawn"
    [] held /\ ~s.fresh                          -> "takeover"
    [] held /\ s.fresh /\ s.phase = "refused"    -> "unlock"
    [] held /\ s.fresh /\ s.phase # "refused"    -> "probe"

Slow(c) == \E held \in Held(c) :
  /\ Goto(c, "slow", Plan(held, st[c]))
  /\ LookAt(c, st[c])
  /\ UNCHANGED <<daemonVars, flight, again, base, late>>

\* _await_probing_conclusion: the state first, then the lock.
Probe(c) ==
  /\ Goto(c, "probe", "probing") /\ LookAt(c, row)
  /\ UNCHANGED <<daemonVars, flight, again, base, late>>

Probing(c) == \E held \in Held(c) :
  /\ pc[c] = "probing"
  /\ CASE held /\ Ready(st[c]) -> Answer(c, TRUE)
       [] held /\ st[c].phase = "refused" -> Forget(c, "probing", "unlock")
       [] held /\ st[c].fresh /\ st[c].phase \notin {"running", "refused"} ->
            Forget(c, "probing", "probe")
       [] OTHER -> Answer(c, FALSE)
  /\ UNCHANGED daemonVars

\* _takeover_and_restart: the process the state names, if that is certainly the one.
Takeover(c) ==
  \/ Alive(st[c].proc) /\ Forget(c, "takeover", "exit") /\ Sigterm(st[c].proc) /\ UNCHANGED row
  \/ pc[c] = "takeover" /\ Answer(c, FALSE) /\ UNCHANGED daemonVars

AwaitExit(c) ==
  /\ FALSE \in Held(c) /\ Goto(c, "exit", "spawn")
  /\ UNCHANGED <<daemonVars, flight, again, base, st, late>>

\* A generation nobody remembers.
Free == {d \in Daemon : life[d] = "none" /\ d # row.gen
                        /\ \A c \in Caller :
                             d \notin {base[c], st[c].beat, st[c].proc, st[c].by, st[c].gen}}

\* The generation that is there now is not the new one; nothing is known of it if this
\* read fails.
Spawn(c) == \E g \in Baselines :
  /\ pc[c] = "spawn"
  /\ IF Free = {} THEN Answer(c, FALSE) /\ UNCHANGED daemonVars
     ELSE LET d == Min(Free) IN
       /\ Goto(c, "spawn", "wait") /\ base' = [base EXCEPT ![c] = g] /\ LookAt(c, NoRow)
       /\ life' = [life EXCEPT ![d] = "spawned"] /\ code' = [code EXCEPT ![d] = Own[c]]
       /\ UNCHANGED <<lock, row, stalled, flight, again, late>>

Wait(c) ==
  /\ Goto(c, "wait", "await") /\ LookAt(c, row)
  /\ UNCHANGED <<daemonVars, flight, again, base, late>>

\* Mutant: any ready generation will do.
BugIsNew(c) == Ready(st[c])

IsNew(c) == st[c].gen # base[c]

Await(c) == \E held \in Held(c) :
  /\ pc[c] = "await"
  /\ CASE held /\ IsNew(c) /\ Ready(st[c]) -> Answer(c, TRUE)
       [] held /\ IsNew(c) /\ st[c].phase = "refused" -> Answer(c, FALSE)
       [] OTHER -> Forget(c, "await", "wait")
  /\ UNCHANGED daemonVars

\* Every wait is bounded: wait_s, probe_wait_s or their sum.
Waiting == {"hand", "handoff", "unlock", "probe", "probing", "exit", "wait", "await"}
GiveUp(c) == pc[c] \in Waiting /\ Answer(c, FALSE) /\ UNCHANGED daemonVars

Killed(c) ==
  /\ "kill" \in Env /\ c \notin Watcher /\ pc[c] \notin {"idle", "bound"}
  /\ Answer(c, FALSE) /\ UNCHANGED daemonVars

------------------------------------------------------------------------------
(***************************************************************************)
(* bind: the daemon has to run the code of this very CLI.                   *)
(***************************************************************************)
EnsureAgain(c, from) ==
  /\ Goto(c, from, "enter") /\ again' = [again EXCEPT ![c] = TRUE] /\ LookAt(c, NoRow)
  /\ UNCHANGED <<daemonVars, flight, base, late>>

Match(c) ==
  \/ FALSE \in Held(c) /\ EnsureAgain(c, "match")
  \/ /\ TRUE \in Held(c)
     /\ \/ Goto(c, "match", "compare") /\ LookAt(c, row)
        \/ ReadFails /\ Goto(c, "match", "gone") /\ LookAt(c, NoRow)
     /\ UNCHANGED <<daemonVars, flight, again, base, late>>

Compare(c) ==
  /\ \/ st[c].code = Own[c] /\ Goto(c, "compare", "bound") /\ LookAt(c, NoRow)
     \/ st[c].code # Own[c] /\ Goto(c, "compare", "identify") /\ UNCHANGED st
  /\ UNCHANGED <<daemonVars, flight, again, base, late>>

Identify(c) ==
  \/ Alive(st[c].proc) /\ Forget(c, "identify", "quit") /\ Sigterm(st[c].proc) /\ UNCHANGED row
  \/ Forget(c, "identify", "gone") /\ UNCHANGED daemonVars

\* The old daemon is gone, by itself or on our request; otherwise bind fails.
Quit(c) == \E l \in {"gone", "quit"} :
  \/ FALSE \in Held(c) /\ EnsureAgain(c, l)
  \/ TRUE \in Held(c) /\ pc[c] = l /\ Answer(c, FALSE) /\ UNCHANGED daemonVars

\* The binding is prepared; the call is over.
Bound(c) ==
  /\ Goto(c, "bound", "idle") /\ again' = [again EXCEPT ![c] = FALSE]
  /\ UNCHANGED <<daemonVars, flight, base, st, late>>

------------------------------------------------------------------------------
(***************************************************************************)
(* A read goes on while its caller is at the place that judges it.  Of its  *)
(* SELECTs those matter that fetch a key the caller uses, the first of them *)
(* apart: the step that began the read stands for that one.                 *)
(***************************************************************************)
Selects(place) ==
  CASE place = "fast"                              -> {2, 3, 4, 5}
    [] place \in {"handoff", "probing", "await"}   -> {4, 5}
    [] place = "compare"                           -> {3, 6}
    [] OTHER                                       -> {}

Select(c) == \E i \in Selects(pc[c]) :
  /\ UNCHANGED <<daemonVars, flight, pc, again, base, late>>
  /\ LookAt(c, Later(st[c], i)) /\ st' # st

------------------------------------------------------------------------------
Starting(d)  == \/ Lock(d) \/ Yield(d) \/ ConfigRefused(d) \/ RecordIdentity(d) \/ Conclude(d)
                \/ Refuse(d)
Running(d)   == Serve(d) \/ Beat(d) \/ Stop(d) \/ Exit(d) \/ Crash(d)
Ensuring(c)  == \/ Enter(c) \/ Busy(c) \/ Hand(c) \/ Handoff(c) \/ Read(c) \/ Fast(c) \/ Slow(c)
                \/ Probe(c) \/ Probing(c) \/ Takeover(c) \/ AwaitExit(c) \/ Spawn(c) \/ Wait(c)
                \/ Await(c) \/ GiveUp(c)
Reconcile(c) == Match(c) \/ Compare(c) \/ Identify(c) \/ Quit(c) \/ Bound(c)

Next ==
  \/ \E d \in Daemon : Starting(d) \/ Running(d)
  \/ \E c \in Caller : Start(c) \/ Ensuring(c) \/ Reconcile(c) \/ Select(c) \/ Killed(c)
  \/ Silence

Spec == Init /\ [][Next]_vars

------------------------------------------------------------------------------
(***************************************************************************)
(* Properties.                                                              *)
(***************************************************************************)
Lives  == {"none", "spawned", "locked", "probing", "ready", "loop", "told", "leaving"}
Phases == {"running", "refused", "neither"}
Reads  == [fresh : BOOLEAN, beat : Daemon \cup {None}, proc : Daemon \cup {None}, phase : Phases,
           by : Daemon \cup {None}, gen : Daemon \cup {None}, code : Version \cup {None}]
Places == {"idle", "enter", "busy", "hand", "handoff", "read", "fast", "slow", "spawn", "takeover",
           "unlock", "probe", "probing", "exit", "wait", "await", "match", "compare", "identify",
           "gone", "quit", "bound"}

\* Types; who is past the lock holds it, and what the row says of a live process is of
\* the one that holds it.
TypeOK ==
  /\ lock \in Daemon \cup {None} /\ row \in Reads /\ life \in [Daemon -> Lives]
  /\ code \in [Daemon -> Version \cup {None}]
  /\ stalled \subseteq Daemon
  /\ flight \in Caller \cup {None} /\ pc \in [Caller -> Places] /\ again \in [Caller -> BOOLEAN]
  /\ base \in [Caller -> Daemon \cup {None, Lost}] /\ st \in [Caller -> Reads]
  /\ late \in [Caller -> SUBSET Daemon]
  /\ \A d \in Daemon : life[d] \notin {"none", "spawned"} <=> lock = d

\* A kill hits the daemon and nobody else, however long ago the state was read, and a daemon
\* that deserves it.  ensure() kills it for its own old heartbeat; only when it signs the
\* state between two SELECTs of the read may it be killed for that of a predecessor.  bind,
\* which reads the code after the process, kills only a daemon of another version.
KillIsJustified ==
  [][\A c \in Caller :
       /\ pc[c] = "takeover" /\ pc'[c] = "exit" =>
            lock = st[c].proc /\ (st[c].proc \in stalled \/ st[c].beat # st[c].proc)
       /\ pc[c] = "identify" /\ pc'[c] = "quit" =>
            lock = st[c].proc /\ code[st[c].proc] # Own[c]]_vars

\* "started" speaks of a daemon that became ready while the caller waited, not of what
\* a dead one left in the state: provided that the generation before it could be read.
StartedIsNew ==
  [][\A c \in Caller :
       pc[c] = "await" /\ pc'[c] \in {"match", "bound"} /\ base[c] # Lost =>
         st[c].gen \in late[c]]_vars

\* What reconcile_code_identity promises: bind never goes on while a daemon of another
\* code identity serves.
BoundIsOwnCode ==
  [][\A c \in Caller, d \in Daemon :
       pc[c] # "bound" /\ pc'[c] = "bound" /\ life[d] \in {"ready", "loop"} =>
         code[d] = Own[c]]_vars

=============================================================================
