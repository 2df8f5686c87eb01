------------------------------- MODULE Binding -------------------------------
(***************************************************************************)
(* The life of a binding between a Claude Code instance and a Slack chat:  *)
(* lib/lifecycle.py, the Stop and SessionEnd hooks of lib/hooklib.py, bind *)
(* and unbind of lib/ctl.py and the timeouts of lib/recovery.py.           *)
(*                                                                         *)
(* Four kinds of process write the same two rows, bindings and             *)
(* pending_bind, which share one id: the CLI (Bind, Unbind), the hooks of  *)
(* every instance, the daemon (timeouts, activation, death scan), and the  *)
(* listener of the instance (heartbeats).  Each action below is one of     *)
(* their transactions; a hook is several, with the others in between.      *)
(*                                                                         *)
(* Clocks are abstracted: a heartbeat is fresh or not, and a deadline (of  *)
(* the handshake, the activation, a suspicion, the grace after a sleep)    *)
(* may have passed, or not, whenever the code looks at it.                 *)
(***************************************************************************)
EXTENDS Integers, FiniteSets

CONSTANTS
  Request,    \* bind requests: binding_id = pending_bind.request_id
  Chat, Instance, Session,
  None,       \* no session, no instance, no chat
  Env         \* the environment's events a configuration lets happen

ASSUME NoneIsNone == None \notin Request \cup Chat \cup Instance \cup Session

VARIABLES
  \* bindings
  status,     \* "none" before the row exists
  chat, inst, \* chat_id and (cc_pid, cc_start)
  sess,       \* session_id, filled in with bind_phase = 'confirmed'
  fresh,      \* listener_beat_at is recent: the heartbeat is a lease
  suspect,    \* suspect_since is set
  \* pending_bind
  pb,         \* state
  latch,      \* latch_open
  \* outbound_jobs: what kinds of turns were queued for a binding
  outbox,
  \* the daemon's death scan: the rows it has read and not judged yet
  scan,
  \* the instances
  alive, listening,
  cur,        \* the session the instance runs
  chain,      \* "bind" if Bind ran since the last prompt, else "plain"
  stopped,    \* a Stop hook ran since the last prompt: stop_hook_active
  hook,       \* the hook process of the instance
  shown,      \* the session in which the instance printed the request's marker
  blank       \* the session ended and nothing was bound since

row     == <<status, chat, inst, sess>>
lease   == <<fresh, suspect>>
request == <<pb, latch>>
cc      == <<alive, listening, cur>>
turn    == <<chain, stopped, shown, blank>>
vars    == <<row, lease, request, outbox, scan, cc, turn, hook>>

Live(r)  == status[r] \in {"starting", "active"}
Confirmed(r) == sess[r] # None
Idle     == [pc |-> "idle", msg |-> None, req |-> None]

Of(i)     == {r \in Request : inst[r] = i}
LiveOf(i) == {r \in Of(i) : Live(r)}

-----------------------------------------------------------------------------
Init ==
  /\ status = [r \in Request |-> "none"]
  /\ chat = [r \in Request |-> None] /\ inst = [r \in Request |-> None]
  /\ sess = [r \in Request |-> None]
  /\ fresh = [r \in Request |-> FALSE] /\ suspect = [r \in Request |-> FALSE]
  /\ pb = [r \in Request |-> "none"] /\ latch = [r \in Request |-> FALSE]
  /\ outbox = [r \in Request |-> {}]
  /\ scan = {}
  /\ alive = [i \in Instance |-> TRUE] /\ listening = [i \in Instance |-> TRUE]
  /\ cur \in [Instance -> Session]
  /\ chain = [i \in Instance |-> "plain"] /\ stopped = [i \in Instance |-> FALSE]
  /\ hook = [i \in Instance |-> Idle]
  /\ shown = [r \in Request |-> None]
  /\ blank = [i \in Instance |-> TRUE]

-----------------------------------------------------------------------------
(* _terminate_in_tx, as far as these tables go: the CAS on the status, then  *)
(* the request of the binding, if still pending, is expired.                 *)

Terminated(s, R, as) == [r \in Request |-> IF r \in R /\ Live(r) THEN as ELSE s[r]]
Expired(R) == [r \in Request |-> IF r \in R /\ Live(r) /\ pb[r] = "pending"
                                 THEN "expired" ELSE pb[r]]

Terminate(r, as) ==
  /\ status' = Terminated(status, {r}, as)
  /\ pb' = Expired({r})
  /\ latch' = [latch EXCEPT ![r] = @ /\ ~(Live(r) /\ pb[r] = "pending")]
  /\ UNCHANGED <<chat, inst, sess, lease, outbox>>

(* A request leaves "pending" in the transaction that closes its binding.    *)
CloseRequest(r, as, open) ==
  /\ pb' = [pb EXCEPT ![r] = as]
  /\ latch' = [latch EXCEPT ![r] = open]
  /\ status' = Terminated(status, {r}, "closed")
  /\ UNCHANGED <<chat, inst, sess, lease, outbox>>

-----------------------------------------------------------------------------
(* The CLI: the user's commands inside a turn.                               *)

\* create_binding: supersede what the instance has half bound, then insert
\* both rows, unless an index says that the chat or the instance is taken.
Bind(r, i, c) ==
  LET old == {q \in LiveOf(i) : status[q] = "starting"}
      orphan == {q \in Of(i) : pb[q] = "pending"}
  IN /\ status[r] = "none" /\ alive[i] /\ hook[i] = Idle
     /\ \A q \in Request \ old : Live(q) => chat[q] # c /\ inst[q] # i
     /\ status' = [Terminated(status, old, "closed") EXCEPT ![r] = "starting"]
     /\ pb' = [q \in Request |-> IF q = r THEN "pending"
                                 ELSE IF q \in orphan THEN "expired" ELSE pb[q]]
     /\ latch' = [q \in Request |-> latch[q] /\ q \notin orphan
                    /\ ~(old # {} /\ q \in Of(i) /\ pb[q] = "consumed")]
     /\ chat' = [chat EXCEPT ![r] = c] /\ inst' = [inst EXCEPT ![r] = i]
     /\ chain' = [chain EXCEPT ![i] = "bind"] /\ blank' = [blank EXCEPT ![i] = FALSE]
     /\ UNCHANGED <<sess, lease, outbox, scan, cc, stopped, shown, hook>>

Unbind(r) ==
  /\ "unbind" \in Env /\ Live(r)
  /\ Terminate(r, "closed")
  /\ UNCHANGED <<scan, cc, turn, hook>>

-----------------------------------------------------------------------------
(* The Stop hook, one process per end of turn.                               *)

Goto(i, pc, r) == hook' = [hook EXCEPT ![i] = [pc |-> pc, msg |-> None, req |-> r]]
Done(i)        == hook' = [hook EXCEPT ![i] = Idle]

\* The latch: a continuation of the bind turn says nothing, a fresh Stop
\* closes the latches first.
Stop(i, m) ==
  LET latched == \E r \in Of(i) : latch[r]
  IN /\ alive[i] /\ hook[i] = Idle
     /\ m \in {r \in Request : status[r] # "none"} \cup {None}
     /\ stopped' = [stopped EXCEPT ![i] = TRUE]
     /\ shown' = [r \in Request |-> IF r = m /\ inst[r] = i THEN cur[i] ELSE shown[r]]
     /\ IF latched /\ stopped[i] THEN UNCHANGED <<latch, hook>>
        ELSE /\ latch' = [r \in Request |-> latch[r] /\ r \notin Of(i)]
             /\ hook' = [hook EXCEPT ![i] = [pc |-> "pending", msg |-> m, req |-> None]]
     /\ UNCHANGED <<row, lease, pb, outbox, scan, cc, chain, blank>>

\* Which of its transactions the hook goes on to.  A request past its
\* deadline counts for nothing; a payload without a session id fails the
\* handshake like a missing marker does.
Route(i) ==
  LET open == {r \in Of(i) : pb[r] = "pending"}
      m == hook[i].msg
  IN /\ hook[i].pc = "pending"
     /\ \/ \E r \in open : m = r /\ Goto(i, "handshake", r)
        \/ \E r \in open : (m # r \/ "nosession" \in Env) /\ Goto(i, "miss", r)
        \/ (open = {} \/ "late" \in Env) /\ m # None /\ Done(i)
        \/ (open = {} \/ "late" \in Env) /\ m = None /\ Goto(i, "forward", None)
     /\ UNCHANGED <<row, lease, request, outbox, scan, cc, turn>>

BugConfirmLatchless(r, s, open) ==
  /\ pb' = [pb EXCEPT ![r] = "consumed"] /\ sess' = [sess EXCEPT ![r] = s]
  /\ status' = [status EXCEPT ![r] = IF fresh[r] THEN "active" ELSE @]
  /\ UNCHANGED <<latch, chat, inst>>

Confirm(r, s, open) ==
  /\ pb' = [pb EXCEPT ![r] = "consumed"]
  /\ latch' = [latch EXCEPT ![r] = open]
  /\ sess' = [sess EXCEPT ![r] = s]
  /\ status' = [status EXCEPT ![r] = IF fresh[r] THEN "active" ELSE @]
  /\ UNCHANGED <<chat, inst>>

\* b_sess: the session is bound elsewhere.
BugTaken(s) == \E q \in Request : status[q] = "starting" /\ sess[q] = s
Taken(s)    == \E q \in Request : Live(q) /\ sess[q] = s

\* _handshake: consume the request and confirm the binding, activate it when
\* its listener is there; a session that is bound elsewhere rolls all back.
Handshake(i) ==
  LET r == hook[i].req
  IN /\ hook[i].pc = "handshake"
     /\ \/ pb[r] = "pending" /\ Taken(cur[i])
           /\ Goto(i, "miss", r) /\ UNCHANGED <<row, request>>
        \/ pb[r] = "pending" /\ ~Taken(cur[i])
           /\ Done(i) /\ Confirm(r, cur[i], TRUE)
        \/ pb[r] # "pending" /\ Done(i) /\ UNCHANGED <<row, request>>
     /\ UNCHANGED <<lease, outbox, scan, cc, turn>>

\* The turn was the bind turn and the handshake failed: the latch stays open.
Miss(i) ==
  LET r == hook[i].req
  IN /\ hook[i].pc = "miss" /\ Done(i)
     /\ IF pb[r] = "pending" THEN CloseRequest(r, "failed", TRUE)
        ELSE UNCHANGED <<row, lease, request, outbox>>
     /\ UNCHANGED <<scan, cc, turn>>

\* The turn is forwarded: look the binding up, then queue its chunks unless
\* it was terminated in between.
Lookup(i) ==
  LET mine == {r \in Request : status[r] = "active" /\ sess[r] = cur[i] /\ inst[r] = i}
  IN /\ hook[i].pc = "forward"
     /\ \/ \E r \in mine : Goto(i, "queue", r)
        \/ mine = {} /\ Done(i)
     /\ UNCHANGED <<row, lease, request, outbox, scan, cc, turn>>

Queue(i) ==
  LET r == hook[i].req
  IN /\ hook[i].pc = "queue" /\ Done(i)
     /\ outbox' = IF status[r] = "active" THEN [outbox EXCEPT ![r] = @ \cup {chain[i]}] ELSE outbox
     /\ UNCHANGED <<row, lease, request, scan, cc, turn>>

-----------------------------------------------------------------------------
(* The SessionEnd hook: three transactions.                                  *)

EndSession(i) ==
  /\ alive[i] /\ hook[i] = Idle
  /\ hook' = [hook EXCEPT ![i].pc = "end binding"]
  /\ UNCHANGED <<row, lease, request, outbox, scan, cc, turn>>

EndBinding(i) ==
  /\ hook[i].pc = "end binding" /\ Goto(i, "end request", None)
  /\ IF \E r \in Request : Live(r) /\ sess[r] = cur[i]
     THEN \E r \in Request : Live(r) /\ sess[r] = cur[i] /\ Terminate(r, "closed")
     ELSE UNCHANGED <<row, lease, request, outbox>>
  /\ UNCHANGED <<scan, cc, turn>>

BugEndRequest(i) ==
  /\ hook[i].pc = "end request" /\ Goto(i, "end latch", None)
  /\ \/ /\ \E r \in Of(i) : pb[r] = "pending" /\ Confirmed(r) /\ CloseRequest(r, "expired", FALSE)
     \/ UNCHANGED <<row, lease, request, outbox>>
  /\ UNCHANGED <<scan, cc, turn>>

EndRequest(i) ==
  /\ hook[i].pc = "end request" /\ Goto(i, "end latch", None)
  /\ IF \E r \in Of(i) : pb[r] = "pending"
     THEN \E r \in Of(i) : pb[r] = "pending" /\ CloseRequest(r, "expired", FALSE)
     ELSE UNCHANGED <<row, lease, request, outbox>>
  /\ UNCHANGED <<scan, cc, turn>>

\* ... after which the instance runs another session.
EndLatch(i) ==
  /\ hook[i].pc = "end latch" /\ Done(i)
  /\ latch' = [r \in Request |-> latch[r] /\ r \notin Of(i)]
  /\ \E s \in Session : cur' = [cur EXCEPT ![i] = s]
  /\ chain' = [chain EXCEPT ![i] = "plain"] /\ stopped' = [stopped EXCEPT ![i] = FALSE]
  /\ blank' = [blank EXCEPT ![i] = TRUE]
  /\ UNCHANGED <<row, lease, pb, outbox, scan, alive, listening, shown>>

-----------------------------------------------------------------------------
(* The daemon.                                                               *)

BugActivate(r) ==
  /\ status[r] = "starting" /\ fresh[r]
  /\ status' = [status EXCEPT ![r] = "active"]
  /\ UNCHANGED <<chat, inst, sess, lease, request, outbox, scan, cc, turn, hook>>

\* activate_if_ready, and its timeout
Activate(r) ==
  /\ status[r] = "starting" /\ Confirmed(r) /\ fresh[r]
  /\ status' = [status EXCEPT ![r] = "active"]
  /\ UNCHANGED <<chat, inst, sess, lease, request, outbox, scan, cc, turn, hook>>

BugNeverReady(r) ==
  /\ status[r] = "starting" /\ Confirmed(r) /\ ~fresh[r] /\ suspect[r]
  /\ Terminate(r, "closed")
  /\ UNCHANGED <<scan, cc, turn, hook>>

NeverReady(r) ==
  /\ status[r] = "starting" /\ Confirmed(r) /\ ~fresh[r]
  /\ Terminate(r, "closed")
  /\ UNCHANGED <<scan, cc, turn, hook>>

BugExpirePending(r) ==
  /\ "late" \in Env /\ pb[r] = "pending"
  /\ pb' = [pb EXCEPT ![r] = "expired"]
  /\ UNCHANGED <<row, lease, latch, outbox, scan, cc, turn, hook>>

\* expire_stale_pending_binds
ExpirePending(r) ==
  /\ "late" \in Env /\ pb[r] = "pending"
  /\ CloseRequest(r, "expired", FALSE)
  /\ UNCHANGED <<scan, cc, turn, hook>>

\* death_scan reads all the rows first ...
DeathScan ==
  /\ "scan" \in Env /\ scan = {}
  /\ scan' = {[req |-> r, active |-> status[r] = "active", fresh |-> fresh[r],
               suspect |-> suspect[r]] : r \in {q \in Request : Live(q)}}
  /\ UNCHANGED <<row, lease, request, outbox, cc, turn, hook>>

\* ... and then probes and judges them one by one.  UNKNOWN counts as alive.
Judge(x) ==
  /\ x \in scan /\ scan' = scan \ {x}
  /\ UNCHANGED <<cc, turn, hook>>

CCGone(x) ==
  /\ Judge(x) /\ ~alive[inst[x.req]]
  /\ Terminate(x.req, "closed")

SeemsAlive(x) == alive[inst[x.req]] \/ "unknown" \in Env

Suspect(x) ==
  /\ Judge(x) /\ SeemsAlive(x) /\ x.active /\ x.fresh = x.suspect
  /\ suspect' = [suspect EXCEPT ![x.req] = IF status[x.req] = "active" THEN ~x.fresh ELSE @]
  /\ UNCHANGED <<row, fresh, request, outbox>>

BugListenerGone(x) ==
  /\ Judge(x) /\ ~alive[inst[x.req]] /\ x.active /\ ~x.fresh /\ x.suspect
  /\ Terminate(x.req, "dead")

ListenerGone(x) ==
  /\ Judge(x) /\ SeemsAlive(x) /\ x.active /\ ~x.fresh /\ x.suspect
  /\ Terminate(x.req, "dead")

\* Not active, or nothing new, or in the grace after a sleep, or suspected
\* for too short a time.
PassOver(x) ==
  /\ Judge(x) /\ SeemsAlive(x) /\ ~(x.active /\ x.fresh /\ x.suspect)
  /\ UNCHANGED <<row, lease, request, outbox>>

DaemonCrash ==
  /\ "crash" \in Env /\ scan # {}
  /\ scan' = {}
  /\ UNCHANGED <<row, lease, request, outbox, cc, turn, hook>>

-----------------------------------------------------------------------------
(* The listener, the user and the clock.                                     *)

\* The first beat takes the row over, the next ones renew the lease.
Beat(r) ==
  /\ Live(r) /\ alive[inst[r]] /\ listening[inst[r]]
  /\ fresh' = [fresh EXCEPT ![r] = TRUE] /\ suspect' = [suspect EXCEPT ![r] = FALSE]
  /\ UNCHANGED <<row, request, outbox, scan, cc, turn, hook>>

Prompt(i) ==
  /\ alive[i] /\ hook[i] = Idle /\ (stopped[i] \/ chain[i] = "bind")
  /\ chain' = [chain EXCEPT ![i] = "plain"] /\ stopped' = [stopped EXCEPT ![i] = FALSE]
  /\ UNCHANGED <<row, lease, request, outbox, scan, cc, shown, blank, hook>>

\* A Stop hook runs out of time, or fails on a busy database: what it has not
\* done yet it drops.
HookKilled(i) ==
  /\ "kill" \in Env /\ hook[i].pc \in {"pending", "handshake", "miss", "forward", "queue"}
  /\ Done(i)
  /\ UNCHANGED <<row, lease, request, outbox, scan, cc, turn>>

ListenerDies(i) ==
  /\ "listener" \in Env /\ listening[i]
  /\ listening' = [listening EXCEPT ![i] = FALSE]
  /\ UNCHANGED <<row, lease, request, outbox, scan, alive, cur, turn, hook>>

InstanceDies(i) ==
  /\ "die" \in Env /\ alive[i]
  /\ alive' = [alive EXCEPT ![i] = FALSE] /\ Done(i)
  /\ UNCHANGED <<row, lease, request, outbox, scan, listening, cur, turn>>

\* No beat for a while (once a row is closed, nothing reads the column).
Silence(r) ==
  /\ Live(r) /\ fresh[r]
  /\ fresh' = [fresh EXCEPT ![r] = FALSE]
  /\ UNCHANGED <<row, suspect, request, outbox, scan, cc, turn, hook>>

-----------------------------------------------------------------------------
CLI      == \E r \in Request : Unbind(r) \/ \E i \in Instance, c \in Chat : Bind(r, i, c)
Hooks(i) == \/ \E m \in Request \cup {None} : Stop(i, m)
            \/ Route(i) \/ Handshake(i) \/ Miss(i) \/ Lookup(i) \/ Queue(i)
            \/ EndSession(i) \/ EndBinding(i) \/ EndRequest(i) \/ EndLatch(i)
Daemon   == \/ \E r \in Request : Activate(r) \/ NeverReady(r) \/ ExpirePending(r)
            \/ DeathScan
            \/ \E x \in scan : CCGone(x) \/ Suspect(x) \/ ListenerGone(x) \/ PassOver(x)
World    == \/ DaemonCrash \/ \E r \in Request : Beat(r) \/ Silence(r)
            \/ \E i \in Instance : Prompt(i) \/ HookKilled(i) \/ ListenerDies(i) \/ InstanceDies(i)

Next == CLI \/ (\E i \in Instance : Hooks(i)) \/ Daemon \/ World

Spec == Init /\ [][Next]_vars

\* The daemon loops for ever and deadlines pass.  A dead process is probed
\* with a definite answer some time, and a suspicion that is not lifted
\* outlasts SUSPECT_CONFIRM_MS and any grace.
Fairness ==
  /\ \A r \in Request :
       /\ WF_vars(Silence(r)) /\ WF_vars(ExpirePending(r))
       /\ WF_vars(Activate(r) \/ NeverReady(r))
       /\ SF_vars(\E x \in scan : x.req = r /\ CCGone(x))
       /\ SF_vars(\E x \in scan : x.req = r /\ ~x.suspect /\ Suspect(x))
       /\ SF_vars(\E x \in scan : x.req = r /\ ListenerGone(x))
  /\ WF_vars(DeathScan)
  /\ WF_vars(\E x \in scan : CCGone(x) \/ Suspect(x) \/ ListenerGone(x) \/ PassOver(x))

FairSpec == Spec /\ Fairness

-----------------------------------------------------------------------------
(* Properties.                                                               *)

\* The columns have their types.  A row belongs to an instance from its birth
\* on, and has a session when it is active: no heartbeat of the listener
\* activates a binding before the handshake filled it in.
TypeOK ==
  /\ status \in [Request -> {"none", "starting", "active", "dead", "closed"}]
  /\ chat \in [Request -> Chat \cup {None}] /\ inst \in [Request -> Instance \cup {None}]
  /\ sess \in [Request -> Session \cup {None}]
  /\ fresh \in [Request -> BOOLEAN] /\ suspect \in [Request -> BOOLEAN]
  /\ pb \in [Request -> {"none", "pending", "consumed", "failed", "expired"}]
  /\ latch \in [Request -> BOOLEAN]
  /\ outbox \in [Request -> SUBSET {"plain", "bind"}]
  /\ scan \subseteq [req : Request, active : BOOLEAN, fresh : BOOLEAN, suspect : BOOLEAN]
  /\ alive \in [Instance -> BOOLEAN] /\ listening \in [Instance -> BOOLEAN]
  /\ cur \in [Instance -> Session]
  /\ chain \in [Instance -> {"plain", "bind"}] /\ stopped \in [Instance -> BOOLEAN]
  /\ hook \in [Instance -> [pc : {"idle", "pending", "handshake", "miss", "forward", "queue",
                                  "end binding", "end request", "end latch"},
                           msg : Request \cup {None}, req : Request \cup {None}]]
  /\ shown \in [Request -> Session \cup {None}] /\ blank \in [Instance -> BOOLEAN]
  /\ \A r \in Request : /\ status[r] = "none" <=> inst[r] = None
                        /\ status[r] = "active" => sess[r] \in Session

\* Two live bindings share no chat, no instance and no session, through
\* supersession, handshakes of resumed sessions and rollbacks.
OneToOne ==
  \A q, r \in Request : q # r /\ Live(q) /\ Live(r) =>
    chat[q] # chat[r] /\ inst[q] # inst[r] /\ (sess[q] = None \/ sess[q] # sess[r])

\* The binding and its request tell the same story, whoever of the CLI, the
\* hooks and the daemon ends either.  A request waits for its marker exactly
\* as long as its binding waits for the confirmation: so the orphan sweeps of
\* create_binding and of recovery._close_orphan_starting find nothing, and no
\* chat stays taken by a request that nobody can answer any more.  A binding
\* is active only if its own instance printed its marker, in the session the
\* binding has, while the request was pending: nobody else's turn, and no late
\* or earlier one, can activate it.
RequestAgrees ==
  \A r \in Request :
    /\ pb[r] = "pending" <=> (status[r] = "starting" /\ ~Confirmed(r))
    /\ status[r] = "active" => pb[r] = "consumed" /\ Confirmed(r) /\ shown[r] = sess[r]

\* The turn in which the user binds, its continuations included, is never
\* forwarded to a chat.
BindTurnIsSecret == \A r \in Request : "bind" \notin outbox[r]

\* After SessionEnd, and until the next bind, nothing of the instance is
\* left: no live binding, no request waiting for a marker, no open latch
\* that would swallow a turn of the next session.
SessionEndReleases ==
  \A i \in Instance : blank[i] =>
    \A r \in Of(i) : ~Live(r) /\ pb[r] # "pending" /\ ~latch[r]

\* No bind stays half done: the chat and the instance that a starting
\* binding occupies become active or free.
BindSettles == \A r \in Request : status[r] = "starting" ~> status[r] # "starting"

\* What a dead instance holds is released, and so is what an instance holds
\* whose listener is gone.
LostIsReleased ==
  \A r \in Request : Live(r) /\ ~(alive[inst[r]] /\ listening[inst[r]]) ~> ~Live(r)
=============================================================================
