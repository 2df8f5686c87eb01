---------------------------- MODULE BindingProofs ----------------------------
(***************************************************************************)
(* Binding's safety, for any number of requests, chats, instances and      *)
(* sessions and whatever the environment does.                             *)
(*                                                                         *)
(* The argument: a live binding that was confirmed has the session its     *)
(* instance runs, and its marker was shown there; one that was not waits   *)
(* for its marker.  So at most one live binding can answer to a SessionEnd *)
(* hook or to a turn, and what the hook remembers between its transactions *)
(* is still true when it comes back to the tables.                         *)
(***************************************************************************)
EXTENDS Binding, TLAPS

Forwarding == {"pending", "handshake", "miss", "forward"}
Working    == Forwarding \cup {"queue"}
Pcs        == Working \cup {"idle", "end binding", "end request", "end latch"}

\* A row belongs to an instance from its birth on.
Born ==
  \A r \in Request :
    IF status[r] = "none" THEN inst[r] = None /\ sess[r] = None /\ pb[r] = "none"
    ELSE inst[r] \in Instance

\* A confirmed binding has the session in which its marker was shown, and its
\* instance still runs that session.
Proven ==
  \A r \in Request : Live(r) /\ Confirmed(r) =>
    pb[r] = "consumed" /\ shown[r] = sess[r] /\ cur[inst[r]] = sess[r]

Unconfirmed(i) == \A r \in Of(i) : Live(r) => ~Confirmed(r)
Vacant(i)      == \A r \in Of(i) : ~Live(r)

\* What the hook of an instance knows between two of its transactions.
Knows(i) ==
  /\ hook[i].pc = "pending" =>
       \A r \in Of(i) : hook[i].msg = r => shown[r] = cur[i]
  /\ hook[i].pc \in {"handshake", "miss"} => hook[i].req \in Of(i)
  /\ hook[i].pc = "handshake" => shown[hook[i].req] = cur[i]
  /\ hook[i].pc = "queue" => chain[i] = "plain"
  /\ hook[i].pc \in Working => stopped[i]
  /\ hook[i].pc \in {"end request", "end latch"} => Unconfirmed(i)
  /\ hook[i].pc = "end latch" => Vacant(i)

\* Until the next prompt, a confirmation of the bind turn keeps the latch open,
\* and no hook that forwards is under way.
Latched(i) ==
  chain[i] = "bind" => /\ hook[i].pc \in Forwarding => Unconfirmed(i)
                       /\ \A r \in Of(i) : Live(r) /\ Confirmed(r) => latch[r] /\ stopped[i]

-----------------------------------------------------------------------------
(* Types.                                                                    *)

RowsOK ==
  /\ status \in [Request -> {"none", "starting", "active", "dead", "closed"}]
  /\ chat \in [Request -> Chat \cup {None}] /\ inst \in [Request -> Instance \cup {None}]
  /\ sess \in [Request -> Session \cup {None}]
  /\ fresh \in [Request -> BOOLEAN] /\ suspect \in [Request -> BOOLEAN]
  /\ pb \in [Request -> {"none", "pending", "consumed", "failed", "expired"}]
  /\ latch \in [Request -> BOOLEAN]
  /\ outbox \in [Request -> SUBSET {"plain", "bind"}]

ScanOK == scan \subseteq [req : Request, active : BOOLEAN, fresh : BOOLEAN, suspect : BOOLEAN]

InstancesOK ==
  /\ alive \in [Instance -> BOOLEAN] /\ listening \in [Instance -> BOOLEAN]
  /\ cur \in [Instance -> Session]
  /\ chain \in [Instance -> {"plain", "bind"}] /\ stopped \in [Instance -> BOOLEAN]
  /\ shown \in [Request -> Session \cup {None}] /\ blank \in [Instance -> BOOLEAN]

HookOK == hook \in [Instance -> [pc : Pcs, msg : Request \cup {None}, req : Request \cup {None}]]

Types == RowsOK /\ ScanOK /\ InstancesOK /\ HookOK

LEMMA TypeInit == Init => Types
  BY DEF Init, Types, RowsOK, ScanOK, InstancesOK, HookOK, Pcs, Working, Forwarding, Idle

LEMMA GotoTypes ==
  ASSUME HookOK, NEW i \in Instance, NEW pc \in Pcs, NEW r \in Request \cup {None},
         Goto(i, pc, r) \/ Done(i)
  PROVE  HookOK'
<1>1. PICK h \in [pc : Pcs, msg : Request \cup {None}, req : Request \cup {None}] :
        hook' = [hook EXCEPT ![i] = h]
  BY DEF Goto, Done, Idle, Pcs, Working, Forwarding
<1> QED
  BY <1>1 DEF HookOK

LEMMA TerminateTypes ==
  ASSUME RowsOK, NEW r, NEW as \in {"dead", "closed"}, Terminate(r, as)
  PROVE  RowsOK'
<1>1. status' \in [Request -> {"none", "starting", "active", "dead", "closed"}]
  BY DEF RowsOK, Terminate, Terminated
<1>2. pb' \in [Request -> {"none", "pending", "consumed", "failed", "expired"}]
  BY DEF RowsOK, Terminate, Expired
<1>3. latch' \in [Request -> BOOLEAN]
  BY DEF RowsOK, Terminate
<1> QED
  BY <1>1, <1>2, <1>3 DEF RowsOK, Terminate, lease

LEMMA CloseTypes ==
  ASSUME RowsOK, NEW r, NEW as \in {"failed", "expired"}, NEW open \in BOOLEAN,
         CloseRequest(r, as, open)
  PROVE  RowsOK'
<1>1. status' \in [Request -> {"none", "starting", "active", "dead", "closed"}]
  BY DEF RowsOK, CloseRequest, Terminated
<1> QED
  BY <1>1 DEF RowsOK, CloseRequest, lease

LEMMA BindTypes ==
  ASSUME Types, NEW r \in Request, NEW i \in Instance, NEW c \in Chat, Bind(r, i, c)
  PROVE  Types'
<1>1. status' \in [Request -> {"none", "starting", "active", "dead", "closed"}]
  BY DEF Types, RowsOK, Bind, Terminated
<1>2. /\ pb' \in [Request -> {"none", "pending", "consumed", "failed", "expired"}]
      /\ latch' \in [Request -> BOOLEAN]
  BY DEF Types, RowsOK, Bind
<1>3. RowsOK'
  BY <1>1, <1>2 DEF Types, RowsOK, Bind, lease
<1>4. InstancesOK'
  BY DEF Types, InstancesOK, Bind, cc
<1> QED
  BY <1>3, <1>4 DEF Types, Bind, ScanOK, HookOK

LEMMA HooksTypes == ASSUME Types, NEW i \in Instance, Hooks(i) PROVE Types'
<1> USE DEF Types, Of
<1>1. ASSUME NEW m \in Request \cup {None}, Stop(i, m) PROVE Types'
  <2>1. RowsOK' /\ ScanOK'
    BY <1>1 DEF Stop, RowsOK, ScanOK, row, lease
  <2>2. InstancesOK'
    BY <1>1 DEF Stop, InstancesOK, cc
  <2>3. HookOK'
    <3>1. [pc |-> "pending", msg |-> m, req |-> None]
            \in [pc : Pcs, msg : Request \cup {None}, req : Request \cup {None}]
      BY DEF Pcs, Working, Forwarding
    <3> QED
      BY <1>1, <3>1 DEF Stop, HookOK
  <2> QED
    BY <2>1, <2>2, <2>3
<1>2. CASE Route(i)
  BY <1>2, GotoTypes DEF Route, RowsOK, ScanOK, InstancesOK, row, lease, request, cc, turn, Pcs, Working, Forwarding, Of
<1>3. CASE Handshake(i)
  <2>1. HookOK'
    BY <1>3, GotoTypes DEF Handshake, Pcs, Working, Forwarding, HookOK
  <2>2. cur[i] \in Session
    BY DEF InstancesOK
  <2>3. RowsOK'
    <3>1. CASE Confirm(hook[i].req, cur[i], TRUE)
      BY <1>3, <2>2, <3>1 DEF Handshake, Confirm, RowsOK, lease
    <3>2. CASE UNCHANGED <<row, request>>
      BY <1>3, <3>2 DEF Handshake, RowsOK, row, lease, request
    <3> QED
      BY <1>3, <3>1, <3>2 DEF Handshake
  <2> QED
    BY <1>3, <2>1, <2>3 DEF Handshake, ScanOK, InstancesOK, cc, turn
<1>4. CASE Miss(i)
  <2>1. HookOK'
    BY <1>4, GotoTypes DEF Miss, Pcs, Working, Forwarding
  <2>2. RowsOK'
    BY <1>4, CloseTypes DEF Miss, RowsOK, row, lease, request
  <2> QED
    BY <1>4, <2>1, <2>2 DEF Miss, ScanOK, InstancesOK, cc, turn
<1>5. CASE Lookup(i)
  BY <1>5, GotoTypes DEF Lookup, RowsOK, ScanOK, InstancesOK, row, lease, request, cc, turn, Pcs, Working, Forwarding
<1>6. CASE Queue(i)
  <2>1. HookOK'
    BY <1>6, GotoTypes DEF Queue, Pcs, Working, Forwarding
  <2>2. chain[i] \in {"plain", "bind"}
    BY DEF InstancesOK
  <2>3. outbox' \in [Request -> SUBSET {"plain", "bind"}]
    BY <1>6, <2>2 DEF Queue, RowsOK
  <2> QED
    BY <1>6, <2>1, <2>3 DEF Queue, RowsOK, ScanOK, InstancesOK, row, lease, request, cc, turn
<1>7. CASE EndSession(i)
  <2>1. HookOK'
    BY <1>7 DEF EndSession, HookOK, Pcs, Working, Forwarding
  <2> QED
    BY <1>7, <2>1 DEF EndSession, RowsOK, ScanOK, InstancesOK, row, lease, request, cc, turn
<1>8. CASE EndBinding(i)
  <2>1. HookOK'
    BY <1>8, GotoTypes DEF EndBinding, Pcs, Working, Forwarding
  <2>2. RowsOK'
    BY <1>8, TerminateTypes DEF EndBinding, RowsOK, row, lease, request
  <2> QED
    BY <1>8, <2>1, <2>2 DEF EndBinding, ScanOK, InstancesOK, cc, turn
<1>9. CASE EndRequest(i)
  <2>1. HookOK'
    BY <1>9, GotoTypes DEF EndRequest, Pcs, Working, Forwarding
  <2>2. RowsOK'
    BY <1>9, CloseTypes DEF EndRequest, RowsOK, row, lease, request
  <2> QED
    BY <1>9, <2>1, <2>2 DEF EndRequest, ScanOK, InstancesOK, cc, turn
<1>10. CASE EndLatch(i)
  <2>1. HookOK'
    BY <1>10, GotoTypes DEF EndLatch, Pcs, Working, Forwarding
  <2> QED
    BY <1>10, <2>1 DEF EndLatch, RowsOK, ScanOK, InstancesOK, row, lease
<1> QED
  BY <1>1, <1>2, <1>3, <1>4, <1>5, <1>6, <1>7, <1>8, <1>9, <1>10 DEF Hooks

LEMMA DaemonTypes == ASSUME Types, Daemon PROVE Types'
<1> USE DEF Types, Of
<1>1. ASSUME NEW r \in Request, Activate(r) \/ NeverReady(r) \/ ExpirePending(r) PROVE Types'
  <2>1. RowsOK'
    <3>1. CASE Activate(r)
      BY <3>1 DEF Activate, RowsOK, lease, request
    <3>2. CASE NeverReady(r) \/ ExpirePending(r)
      BY <3>2, TerminateTypes, CloseTypes DEF NeverReady, ExpirePending
    <3> QED
      BY <1>1, <3>1, <3>2
  <2> QED
    BY <1>1, <2>1 DEF Activate, NeverReady, ExpirePending, ScanOK, InstancesOK, HookOK, cc, turn
<1>2. CASE DeathScan
  <2>1. \A r \in Request : [req |-> r, active |-> status[r] = "active", fresh |-> fresh[r],
               suspect |-> suspect[r]] \in [req : Request, active : BOOLEAN, fresh : BOOLEAN, suspect : BOOLEAN]
    BY DEF RowsOK
  <2>2. ScanOK'
    BY <1>2, <2>1 DEF DeathScan, ScanOK
  <2> QED
    BY <1>2, <2>2 DEF DeathScan, RowsOK, InstancesOK, HookOK, row, lease, request, cc, turn
<1>3. ASSUME NEW x \in scan, CCGone(x) \/ Suspect(x) \/ ListenerGone(x) \/ PassOver(x) PROVE Types'
  <2>1. x \in [req : Request, active : BOOLEAN, fresh : BOOLEAN, suspect : BOOLEAN]
    BY DEF ScanOK
  <2>2. RowsOK'
    BY <1>3, <2>1, TerminateTypes
    DEF CCGone, Suspect, ListenerGone, PassOver, RowsOK, row, lease, request
  <2> QED
    BY <1>3, <2>2 DEF CCGone, Suspect, ListenerGone, PassOver, Judge, ScanOK, InstancesOK, HookOK, cc, turn
<1> QED
  BY <1>1, <1>2, <1>3 DEF Daemon

LEMMA WorldTypes == ASSUME Types, World PROVE Types'
<1> USE DEF Types, row, lease, request, cc, turn
<1>1. CASE DaemonCrash
  BY <1>1 DEF DaemonCrash, ScanOK, RowsOK, InstancesOK, HookOK
<1>2. ASSUME NEW r \in Request, Beat(r) \/ Silence(r) PROVE Types'
  <2>1. RowsOK'
    BY <1>2 DEF Beat, Silence, RowsOK
  <2> QED
    BY <1>2, <2>1 DEF Beat, Silence, ScanOK, InstancesOK, HookOK
<1>3. ASSUME NEW i \in Instance, Prompt(i) \/ ListenerDies(i) PROVE Types'
  <2>1. InstancesOK'
    BY <1>3 DEF Prompt, ListenerDies, InstancesOK
  <2> QED
    BY <1>3, <2>1 DEF Prompt, ListenerDies, ScanOK, RowsOK, HookOK
<1>4. ASSUME NEW i \in Instance, HookKilled(i) \/ InstanceDies(i) PROVE Types'
  <2>1. HookOK'
    BY <1>4, GotoTypes DEF HookKilled, InstanceDies, Pcs, Working, Forwarding
  <2> QED
    <3>1. InstancesOK'
      BY <1>4 DEF HookKilled, InstanceDies, InstancesOK
    <3> QED
      BY <1>4, <2>1, <3>1 DEF HookKilled, InstanceDies, ScanOK, RowsOK
<1> QED
  BY <1>1, <1>2, <1>3, <1>4 DEF World

LEMMA TypeNext == Types /\ [Next]_vars => Types'
<1> SUFFICES ASSUME Types, [Next]_vars PROVE Types'
  OBVIOUS
<1>1. ASSUME NEW r \in Request, Unbind(r) PROVE Types'
  BY <1>1, TerminateTypes DEF Types, Unbind, ScanOK, InstancesOK, HookOK, cc, turn
<1>2. CASE UNCHANGED vars
  BY <1>2 DEF vars, row, lease, request, cc, turn, Types, RowsOK, ScanOK, InstancesOK, HookOK
<1> QED
  BY <1>1, <1>2, BindTypes, HooksTypes, DaemonTypes, WorldTypes DEF Next, CLI

-----------------------------------------------------------------------------
(* The invariant.                                                            *)

Inv ==
  /\ Types /\ Born /\ OneToOne /\ RequestAgrees /\ Proven
  /\ \A i \in Instance : Knows(i) /\ Latched(i)
  /\ BindTurnIsSecret /\ SessionEndReleases

LEMMA InvInit == Init => Inv
<1> SUFFICES ASSUME Init PROVE Inv
  OBVIOUS
<1>1. Types
  BY TypeInit
<1>2. \A r \in Request : status[r] = "none" /\ inst[r] = None /\ sess[r] = None /\ pb[r] = "none" /\ outbox[r] = {}
  BY DEF Init
<1>3. \A i \in Instance : hook[i].pc = "idle" /\ chain[i] = "plain" /\ Of(i) = {}
  BY <1>2, NoneIsNone DEF Init, Idle, Of
<1> QED
  BY <1>1, <1>2, <1>3 DEF Inv, Born, OneToOne, RequestAgrees, Proven, Live, Confirmed, Knows, Latched,
     Working, Forwarding, BindTurnIsSecret, SessionEndReleases

\* A step of others that proves nothing wrong.
LEMMA StillKnows ==
  ASSUME NEW i \in Instance, Knows(i), hook'[i] = hook[i],
         cur'[i] = cur[i], chain'[i] = chain[i], stopped[i] => stopped'[i], Of(i)' = Of(i),
         \A r \in Of(i) : shown[r] = cur[i] => shown'[r] = cur[i],
         Unconfirmed(i) => Unconfirmed(i)', Vacant(i) => Vacant(i)'
  PROVE  Knows(i)'
<1>1. hook[i].pc = "pending" => \A r \in Of(i)' : hook'[i].msg = r => shown'[r] = cur'[i]
  BY DEF Knows
<1>2. hook[i].pc \in {"handshake", "miss"} => hook'[i].req \in Of(i)'
  BY DEF Knows
<1>3. hook[i].pc = "handshake" => shown'[hook'[i].req] = cur'[i]
  BY <1>2 DEF Knows
<1> QED
  BY <1>1, <1>2, <1>3 DEF Knows

\* What a termination leaves of a row: nothing changes, or the binding ends and
\* its request with it.
Same(q) == status'[q] = status[q] /\ pb'[q] = pb[q] /\ latch'[q] = latch[q]
Ended(q) ==
  /\ Live(q) /\ status'[q] \in {"dead", "closed"} /\ pb'[q] # "pending"
  /\ pb[q] = "pending" \/ (latch'[q] = latch[q] /\ pb'[q] = pb[q])

LEMMA TerminateEnds ==
  ASSUME Types, NEW r, NEW as \in {"dead", "closed"}, Terminate(r, as), NEW q \in Request
  PROVE  Same(q) \/ Ended(q)
<1>1. CASE q = r /\ Live(r)
  BY <1>1 DEF Types, RowsOK, Terminate, Terminated, Expired, Same, Ended
<1>2. CASE ~(q = r /\ Live(r))
  BY <1>2 DEF Types, RowsOK, Terminate, Terminated, Expired, Same
<1> QED
  BY <1>1, <1>2

LEMMA CloseEnds ==
  ASSUME Types, RequestAgrees, NEW r \in Request, NEW as \in {"failed", "expired"}, NEW open \in BOOLEAN,
         pb[r] = "pending", CloseRequest(r, as, open), NEW q \in Request
  PROVE  Same(q) \/ Ended(q)
<1>1. Live(r)
  BY DEF RequestAgrees, Live
<1>2. CASE q = r
  BY <1>1, <1>2 DEF Types, RowsOK, CloseRequest, Terminated, Same, Ended
<1>3. CASE q # r
  BY <1>3 DEF Types, RowsOK, CloseRequest, Terminated, Same
<1> QED
  BY <1>2, <1>3

\* Rows only end, and the hooks go where what they know lets them go.
LEMMA EndsInv ==
  ASSUME Inv, Types', UNCHANGED <<chat, inst, sess, cur, turn>>,
         \A q \in Request : Same(q) \/ Ended(q),
         \A i \in Instance : \/ hook'[i] = hook[i]
                             \/ Knows(i)' /\ (hook'[i].pc \in Forwarding => hook[i].pc \in Forwarding),
         BindTurnIsSecret'
  PROVE  Inv'
<1> USE DEF turn
<1>1. \A q \in Request : Live(q)' => Live(q) /\ Same(q)
  BY DEF Same, Ended, Live
<1>2. Born' /\ OneToOne' /\ Proven'
  BY <1>1 DEF Inv, Born, OneToOne, Proven, Same, Ended, Live, Confirmed
<1>3. RequestAgrees'
  <2> SUFFICES ASSUME NEW q \in Request
               PROVE  /\ pb'[q] = "pending" <=> (status'[q] = "starting" /\ ~Confirmed(q)')
                      /\ status'[q] = "active" => pb'[q] = "consumed" /\ Confirmed(q)' /\ shown'[q] = sess'[q]
    BY DEF RequestAgrees
  <2>1. CASE Same(q)
    BY <2>1 DEF Inv, RequestAgrees, Same, Confirmed
  <2>2. CASE Ended(q)
    BY <2>2 DEF Ended
  <2> QED
    BY <2>1, <2>2
<1>4. ASSUME NEW i \in Instance
      PROVE  /\ Of(i)' = Of(i)
             /\ Unconfirmed(i) => Unconfirmed(i)'
             /\ Vacant(i) => Vacant(i)'
  BY <1>1 DEF Of, Unconfirmed, Vacant, Confirmed
<1>5. SessionEndReleases'
  <2> SUFFICES ASSUME NEW i \in Instance, blank[i], NEW r \in Of(i)
               PROVE  ~Live(r)' /\ pb'[r] # "pending" /\ ~latch'[r]
    BY <1>4 DEF SessionEndReleases
  <2>1. r \in Request /\ ~Live(r) /\ pb[r] # "pending" /\ ~latch[r]
    BY DEF Inv, SessionEndReleases, Of
  <2> QED
    BY <1>1, <2>1 DEF Same, Ended
<1>6. ASSUME NEW i \in Instance PROVE Knows(i)' /\ Latched(i)'
  <2>1. Knows(i) /\ Latched(i)
    BY DEF Inv
  <2>2. Knows(i)'
    <3>1. CASE hook'[i] = hook[i]
      <4>1. cur' = cur /\ shown' = shown /\ chain' = chain /\ stopped' = stopped /\ Of(i)' = Of(i)
        BY <1>4
      <4> QED
        BY <1>4, <2>1, <3>1, <4>1, StillKnows
    <3> QED
      BY <3>1
  <2>3. hook'[i].pc \in Forwarding => hook[i].pc \in Forwarding
    OBVIOUS
  <2>4. ASSUME chain[i] = "bind", NEW r \in Of(i), Live(r)', Confirmed(r)' PROVE latch'[r] /\ stopped[i]
    BY <1>1, <2>1, <2>4 DEF Latched, Confirmed, Same, Of
  <2>5. Latched(i)'
    BY <1>4, <2>1, <2>3, <2>4 DEF Latched
  <2> QED
    BY <2>2, <2>5
<1> QED
  BY <1>2, <1>3, <1>5, <1>6 DEF Inv

LEMMA Moves ==
  ASSUME Types, NEW i \in Instance, NEW pc, NEW r, Goto(i, pc, r)
  PROVE  /\ hook'[i] = [pc |-> pc, msg |-> None, req |-> r]
         /\ hook'[i].pc = pc /\ hook'[i].msg = None /\ hook'[i].req = r
         /\ \A k \in Instance : k # i => hook'[k] = hook[k]
  BY DEF Goto, Types, HookOK

LEMMA Rests ==
  ASSUME Types, NEW i \in Instance, Done(i)
  PROVE  /\ hook'[i] = Idle /\ hook'[i].pc = "idle" /\ Knows(i)'
         /\ \A k \in Instance : k # i => hook'[k] = hook[k]
<1>1. hook'[i] = Idle /\ \A k \in Instance : k # i => hook'[k] = hook[k]
  BY DEF Done, Types, HookOK
<1>2. hook'[i].pc = "idle"
  BY <1>1 DEF Idle
<1> QED
  BY <1>1, <1>2 DEF Knows, Working, Forwarding

\* A hook that is done, or that goes on, in a step that at most ends rows.
LEMMA DoneInv ==
  ASSUME Inv, Types', NEW i \in Instance, Done(i),
         UNCHANGED <<chat, inst, sess, cur, turn>>, BindTurnIsSecret',
         \A q \in Request : Same(q) \/ Ended(q)
  PROVE  Inv'
<1>1. Types
  BY DEF Inv
<1>2. \A k \in Instance : hook'[k] = hook[k] \/ (Knows(k)' /\ (hook'[k].pc \in Forwarding => hook[k].pc \in Forwarding))
  BY <1>1, Rests DEF Forwarding
<1> QED
  BY <1>2, EndsInv

LEMMA GoesOnInv ==
  ASSUME Inv, Types', NEW i \in Instance, NEW pc, NEW r, Goto(i, pc, r), Knows(i)',
         pc \in Forwarding => hook[i].pc \in Forwarding,
         UNCHANGED <<chat, inst, sess, cur, turn>>, BindTurnIsSecret',
         \A q \in Request : Same(q) \/ Ended(q)
  PROVE  Inv'
<1>1. hook'[i] = [pc |-> pc, msg |-> None, req |-> r] /\ \A k \in Instance : k # i => hook'[k] = hook[k]
  BY Moves DEF Inv
<1>2. hook'[i].pc = pc
  BY <1>1
<1>3. \A k \in Instance : hook'[k] = hook[k] \/ (Knows(k)' /\ (hook'[k].pc \in Forwarding => hook[k].pc \in Forwarding))
  BY <1>1, <1>2
<1> QED
  BY <1>3, EndsInv

\* Steps that leave the rows of bindings and requests, and the hooks, alone.
LEMMA StillInv ==
  ASSUME Inv, Types', UNCHANGED <<row, request, outbox, cur, turn, hook>>
  PROVE  Inv'
<1>1. \A q \in Request : Same(q)
  BY DEF Same, row, request
<1>2. BindTurnIsSecret'
  BY DEF Inv, BindTurnIsSecret
<1>3. UNCHANGED <<chat, inst, sess, cur, turn, hook>>
  BY DEF row
<1> QED
  BY <1>1, <1>2, <1>3, EndsInv

\* The pending request of an instance belongs to its one live binding.
LEMMA OnePending ==
  ASSUME Inv, NEW i \in Instance, NEW r \in Of(i), pb[r] = "pending"
  PROVE  /\ status[r] = "starting" /\ ~Confirmed(r)
         /\ \A q \in Of(i) : Live(q) => q = r
  BY DEF Inv, OneToOne, RequestAgrees, Of, Live

-----------------------------------------------------------------------------
(* The CLI.                                                                  *)

LEMMA BindInv ==
  ASSUME Inv, Types', NEW r \in Request, NEW i \in Instance, NEW c \in Chat, Bind(r, i, c)
  PROVE  Inv'
<1> DEFINE old == {q \in LiveOf(i) : status[q] = "starting"}
           orphan == {q \in Of(i) : pb[q] = "pending"}
<1>1. /\ status' = [Terminated(status, old, "closed") EXCEPT ![r] = "starting"]
      /\ pb' = [q \in Request |-> IF q = r THEN "pending"
                                  ELSE IF q \in orphan THEN "expired" ELSE pb[q]]
      /\ latch' = [q \in Request |-> latch[q] /\ q \notin orphan
                     /\ ~(old # {} /\ q \in Of(i) /\ pb[q] = "consumed")]
      /\ status[r] = "none" /\ hook[i] = Idle
      /\ \A q \in Request \ old : Live(q) => chat[q] # c /\ inst[q] # i
      /\ chat' = [chat EXCEPT ![r] = c] /\ inst' = [inst EXCEPT ![r] = i]
      /\ chain' = [chain EXCEPT ![i] = "bind"] /\ blank' = [blank EXCEPT ![i] = FALSE]
      /\ UNCHANGED <<sess, outbox, cur, stopped, shown, hook>>
  BY DEF Bind, cc
<1>2. /\ status \in [Request -> {"none", "starting", "active", "dead", "closed"}]
      /\ chat \in [Request -> Chat \cup {None}] /\ inst \in [Request -> Instance \cup {None}]
      /\ chain \in [Instance -> {"plain", "bind"}] /\ blank \in [Instance -> BOOLEAN]
  BY DEF Inv, Types, RowsOK, InstancesOK
<1>3. inst[r] = None /\ sess[r] = None /\ pb[r] = "none" /\ r \notin old /\ r \notin Of(i) /\ ~Live(r)
  BY <1>1, NoneIsNone DEF Inv, Born, LiveOf, Of, Live
\* What is pending is starting and not confirmed, so the orphans end too.
<1>4. orphan \subseteq old /\ \A q \in Of(i) : pb[q] = "pending" => q \in orphan
  BY DEF Inv, RequestAgrees, LiveOf, Of, Live
<1>5. old = {q \in Of(i) : Live(q)}
  BY <1>1 DEF LiveOf, Of
<1> HIDE DEF old, orphan
<1>6. /\ status'[r] = "starting" /\ pb'[r] = "pending" /\ chat'[r] = c /\ inst'[r] = i /\ sess'[r] = None
      /\ \A q \in Request \ {r} : chat'[q] = chat[q] /\ inst'[q] = inst[q] /\ sess'[q] = sess[q]
  BY <1>1, <1>2, <1>3 DEF Terminated
<1>7. \A q \in old : status'[q] = "closed" /\ pb'[q] # "pending"
  <2> SUFFICES ASSUME NEW q \in old PROVE status'[q] = "closed" /\ pb'[q] # "pending"
    OBVIOUS
  <2>1. q \in Of(i) /\ q \in Request /\ Live(q) /\ q # r
    BY <1>3, <1>5 DEF Of
  <2> QED
    BY <1>1, <1>2, <1>4, <2>1 DEF Terminated
<1>8. \A q \in Request \ ({r} \cup old) : status'[q] = status[q] /\ pb'[q] = pb[q]
  BY <1>1, <1>2, <1>4 DEF Terminated
<1>9. \A q \in Request : Live(q)' => q = r \/ (q \notin old /\ Live(q) /\ chat[q] # c /\ inst[q] # i)
  BY <1>1, <1>7, <1>8 DEF Live
<1>10. Born' /\ OneToOne' /\ Proven'
  <2>1. Born'
    BY <1>3, <1>5, <1>6, <1>7, <1>8 DEF Inv, Born, Of
  <2>2. OneToOne'
    BY <1>3, <1>6, <1>9 DEF Inv, OneToOne
  <2>3. Proven'
    BY <1>1, <1>6, <1>8, <1>9 DEF Inv, Proven, Confirmed
  <2> QED
    BY <2>1, <2>2, <2>3
<1>11. RequestAgrees'
  <2> SUFFICES ASSUME NEW q \in Request
               PROVE  /\ pb'[q] = "pending" <=> (status'[q] = "starting" /\ ~Confirmed(q)')
                      /\ status'[q] = "active" => pb'[q] = "consumed" /\ Confirmed(q)' /\ shown'[q] = sess'[q]
    BY DEF RequestAgrees
  <2>1. CASE q = r
    BY <1>6, <2>1 DEF Confirmed
  <2>2. CASE q \in old
    BY <1>7, <2>2
  <2>3. CASE q \notin {r} \cup old
    BY <1>1, <1>6, <1>8, <2>3 DEF Inv, RequestAgrees, Confirmed
  <2> QED
    BY <2>1, <2>2, <2>3
<1>12. BindTurnIsSecret'
  BY <1>1 DEF Inv, BindTurnIsSecret
<1>13. ASSUME NEW k \in Instance, k # i
       PROVE  /\ Of(k)' = Of(k) /\ chain'[k] = chain[k] /\ blank'[k] = blank[k]
              /\ \A q \in Of(k) : status'[q] = status[q] /\ pb'[q] = pb[q] /\ sess'[q] = sess[q] /\ latch'[q] = latch[q]
  <2>1. Of(k)' = Of(k)
    BY <1>3, <1>6, <1>13, NoneIsNone DEF Of
  <2>2. \A q \in Of(k) : q \notin old /\ q \notin Of(i) /\ q # r /\ q \in Request
    BY <1>3, <1>5, <1>13, NoneIsNone DEF Of
  <2>3. \A q \in Of(k) : latch'[q] = latch[q]
    BY <1>1, <1>4, <2>2 DEF Inv, Types, RowsOK
  <2> QED
    BY <1>1, <1>2, <1>6, <1>8, <1>13, <2>1, <2>2, <2>3
<1>14. SessionEndReleases'
  <2> SUFFICES ASSUME NEW k \in Instance, blank'[k], NEW q \in Of(k)'
               PROVE  ~Live(q)' /\ pb'[q] # "pending" /\ ~latch'[q]
    BY DEF SessionEndReleases
  <2>1. k # i
    BY <1>1, <1>2
  <2> QED
    BY <1>13, <2>1 DEF Inv, SessionEndReleases, Live
<1>15. ASSUME NEW k \in Instance PROVE Knows(k)' /\ Latched(k)'
  <2>1. CASE k = i
    <3>1. hook'[k].pc = "idle"
      BY <1>1, <2>1 DEF Idle
    <3>2. \A q \in Of(k)' : Live(q)' => ~Confirmed(q)'
      BY <1>6, <1>9, <2>1 DEF Of, Confirmed
    <3> QED
      BY <3>1, <3>2 DEF Knows, Latched, Working, Forwarding
  <2>2. CASE k # i
    <3>1. /\ Of(k)' = Of(k) /\ chain'[k] = chain[k]
          /\ hook' = hook /\ shown' = shown /\ cur' = cur /\ stopped' = stopped
          /\ \A q \in Of(k) : (Live(q)' <=> Live(q)) /\ (Confirmed(q)' <=> Confirmed(q)) /\ latch'[q] = latch[q]
      BY <1>1, <1>13, <2>2 DEF Live, Confirmed
    <3>2. (Unconfirmed(k)' <=> Unconfirmed(k)) /\ (Vacant(k)' <=> Vacant(k))
      BY <3>1 DEF Unconfirmed, Vacant
    <3>3. Knows(k) /\ Latched(k)
      BY DEF Inv
    <3>4. Knows(k)'
      BY <3>1, <3>2, <3>3, StillKnows
    <3>5. Latched(k)'
      BY <3>1, <3>2, <3>3 DEF Latched
    <3> QED
      BY <3>4, <3>5
  <2> QED
    BY <2>1, <2>2
<1> QED
  BY <1>10, <1>11, <1>12, <1>14, <1>15 DEF Inv

LEMMA UnbindInv == ASSUME Inv, Types', NEW r \in Request, Unbind(r) PROVE Inv'
<1>1. \A q \in Request : Same(q) \/ Ended(q)
  BY TerminateEnds DEF Inv, Unbind
<1>2. BindTurnIsSecret' /\ UNCHANGED <<chat, inst, sess, cur, turn, hook>>
  BY DEF Unbind, Terminate, Inv, BindTurnIsSecret, cc
<1> QED
  BY <1>1, <1>2, EndsInv

-----------------------------------------------------------------------------
(* The Stop hook.                                                            *)

LEMMA StopInv ==
  ASSUME Inv, Types', NEW i \in Instance, NEW m \in Request \cup {None}, Stop(i, m)
  PROVE  Inv'
<1> DEFINE latched == \E r \in Of(i) : latch[r]
<1>1. /\ hook[i] = Idle /\ stopped' = [stopped EXCEPT ![i] = TRUE]
      /\ shown' = [r \in Request |-> IF r = m /\ inst[r] = i THEN cur[i] ELSE shown[r]]
      /\ UNCHANGED <<status, chat, inst, sess, pb, outbox, cur, chain, blank>>
      /\ IF latched /\ stopped[i] THEN UNCHANGED <<latch, hook>>
         ELSE /\ latch' = [r \in Request |-> latch[r] /\ r \notin Of(i)]
              /\ hook' = [hook EXCEPT ![i] = [pc |-> "pending", msg |-> m, req |-> None]]
  BY DEF Stop, row, cc
<1>2. stopped \in [Instance -> BOOLEAN] /\ latch \in [Request -> BOOLEAN] /\ hook \in [Instance -> [pc : Pcs, msg : Request \cup {None}, req : Request \cup {None}]]
  BY DEF Inv, Types, RowsOK, InstancesOK, HookOK
<1>3. /\ \A q \in Request : (Live(q)' <=> Live(q)) /\ (Confirmed(q)' <=> Confirmed(q))
      /\ \A k \in Instance : Of(k)' = Of(k)
      /\ \A k \in Instance : (Unconfirmed(k)' <=> Unconfirmed(k)) /\ (Vacant(k)' <=> Vacant(k))
  BY <1>1 DEF Live, Confirmed, Of, Unconfirmed, Vacant
\* A marker is shown in the session that the instance runs.
<1>4. \A q \in Request : shown'[q] = shown[q] \/ (inst[q] = i /\ shown'[q] = cur[i])
  BY <1>1
<1>5. Proven' /\ Born' /\ OneToOne' /\ BindTurnIsSecret'
  <2>1. Proven'
    BY <1>1, <1>3, <1>4 DEF Inv, Proven
  <2> QED
    BY <1>1, <1>3, <2>1 DEF Inv, Born, OneToOne, BindTurnIsSecret
<1>6. RequestAgrees'
  BY <1>1, <1>3, <1>5 DEF Inv, RequestAgrees, Proven, Live
<1>7. \A q \in Request : latch'[q] => latch[q]
  BY <1>1, <1>2
<1>8. SessionEndReleases'
  BY <1>1, <1>3, <1>7 DEF Inv, SessionEndReleases, Of
<1>9. ASSUME NEW k \in Instance, hook'[k] = hook[k] PROVE Knows(k)'
  <2>1. /\ hook'[k] = hook[k] /\ cur' = cur /\ chain' = chain /\ (stopped[k] => stopped'[k])
        /\ \A q \in Of(k) : shown[q] = cur[k] => shown'[q] = cur[k]
    BY <1>1, <1>2, <1>4, <1>9 DEF Of
  <2>2. Knows(k)
    BY DEF Inv
  <2> QED
    BY <1>3, <2>1, <2>2, StillKnows
<1>10. CASE latched /\ stopped[i]
  <2>1. UNCHANGED <<latch, hook>> /\ stopped' = stopped
    BY <1>1, <1>2, <1>10
  <2>2. \A k \in Instance : Latched(k)'
    BY <1>1, <1>3, <2>1 DEF Inv, Latched, Of
  <2> QED
    BY <1>5, <1>6, <1>8, <1>9, <2>1, <2>2 DEF Inv
<1>11. CASE ~(latched /\ stopped[i])
  <2>1. /\ latch' = [r \in Request |-> latch[r] /\ r \notin Of(i)]
        /\ hook' = [hook EXCEPT ![i] = [pc |-> "pending", msg |-> m, req |-> None]]
    BY <1>1, <1>11
  <2>2. ASSUME NEW k \in Instance, k # i PROVE Knows(k)' /\ Latched(k)'
    <3>1. hook'[k] = hook[k] /\ stopped'[k] = stopped[k] /\ chain' = chain
      BY <1>1, <1>2, <2>1, <2>2
    <3>2. \A q \in Of(k) : latch'[q] = latch[q]
      BY <1>2, <2>1, <2>2 DEF Of
    <3>3. Latched(k)
      BY DEF Inv
    <3>4. Latched(k)'
      BY <1>3, <3>1, <3>2, <3>3 DEF Latched, Of
    <3> QED
      BY <1>9, <3>1, <3>4
  <2>3. hook'[i].pc = "pending" /\ hook'[i].msg = m /\ stopped'[i]
    BY <1>1, <1>2, <2>1
  <2>4. Knows(i)'
    BY <1>1, <1>3, <2>3 DEF Knows, Working, Forwarding, Of
  \* In the bind turn a confirmed binding would have held this hook back.
  <2>5. chain[i] = "bind" => Unconfirmed(i)
    BY <1>11 DEF Inv, Latched, Unconfirmed
  <2>6. Latched(i)'
    BY <1>1, <1>3, <2>5 DEF Latched, Unconfirmed
  <2> QED
    BY <1>5, <1>6, <1>8, <2>2, <2>4, <2>6 DEF Inv
<1> QED
  BY <1>10, <1>11

\* Which transaction the hook goes on to, by what it has seen.
LEMMA RouteInv == ASSUME Inv, Types', NEW i \in Instance, Route(i) PROVE Inv'
<1> DEFINE open == {r \in Of(i) : pb[r] = "pending"}
<1>1. /\ hook[i].pc = "pending" /\ UNCHANGED <<row, request, outbox, cur, turn>>
      /\ UNCHANGED <<chat, inst, sess, shown, chain, stopped, status>>
      /\ Knows(i) /\ Types
  BY DEF Route, row, cc, turn, Inv
<1>2. (\A q \in Request : Same(q)) /\ BindTurnIsSecret'
  BY <1>1 DEF Same, row, request, Inv, BindTurnIsSecret
<1>3. Of(i)' = Of(i)
  BY <1>1 DEF Of
<1>4. stopped'[i]
  BY <1>1 DEF Knows, Working, Forwarding
<1>5. ASSUME NEW r \in open, hook[i].msg = r, Goto(i, "handshake", r) PROVE Inv'
  <2>1. hook'[i].pc = "handshake" /\ hook'[i].req = r
    <3>1. Goto(i, "handshake", r)
      BY <1>5
    <3> QED
      BY <1>1, <3>1, Moves
  <2>2. shown[r] = cur[i]
    BY <1>1, <1>5 DEF Knows
  <2>3. Knows(i)'
    BY <1>1, <1>3, <1>4, <2>1, <2>2 DEF Knows
  <2> QED
    BY <1>1, <1>2, <1>5, <2>3, GoesOnInv DEF Forwarding
<1>6. ASSUME NEW r \in open, Goto(i, "miss", r) PROVE Inv'
  <2>1. hook'[i].pc = "miss" /\ hook'[i].req = r
    BY <1>6, Moves DEF Inv
  <2>2. Knows(i)'
    BY <1>1, <1>3, <1>4, <2>1 DEF Knows
  <2> QED
    BY <1>1, <1>2, <1>6, <2>2, GoesOnInv DEF Forwarding
<1>7. CASE Done(i)
  BY <1>1, <1>2, <1>7, DoneInv
<1>8. CASE Goto(i, "forward", None)
  <2>1. hook'[i].pc = "forward"
    BY <1>8, Moves DEF Inv
  <2>2. Knows(i)'
    BY <1>1, <1>4, <2>1 DEF Knows
  <2> QED
    BY <1>1, <1>2, <1>8, <2>2, GoesOnInv DEF Forwarding
<1> QED
  BY <1>5, <1>6, <1>7, <1>8 DEF Route

\* The confirmation: its session is free, its marker was shown in it, and the
\* latch is open from now on.
LEMMA ConfirmInv ==
  ASSUME Inv, Types', NEW i \in Instance, NEW r \in Of(i), hook[i].pc = "handshake", hook[i].req = r,
         pb[r] = "pending", ~Taken(cur[i]), Confirm(r, cur[i], TRUE), Done(i),
         UNCHANGED <<lease, outbox, cur, turn>>
  PROVE  Inv'
<1>1. /\ status \in [Request -> {"none", "starting", "active", "dead", "closed"}]
      /\ pb \in [Request -> {"none", "pending", "consumed", "failed", "expired"}]
      /\ sess \in [Request -> Session \cup {None}] /\ latch \in [Request -> BOOLEAN]
      /\ cur \in [Instance -> Session] /\ r \in Request /\ inst[r] = i
  BY DEF Inv, Types, RowsOK, InstancesOK, Of
<1>2. /\ pb'[r] = "consumed" /\ latch'[r] /\ sess'[r] = cur[i] /\ status'[r] \in {"starting", "active"}
      /\ UNCHANGED <<chat, inst>> /\ cur[i] # None
      /\ \A q \in Request : q # r =>
           status'[q] = status[q] /\ pb'[q] = pb[q] /\ sess'[q] = sess[q] /\ latch'[q] = latch[q]
  BY <1>1, OnePending, NoneIsNone DEF Confirm
<1>3. /\ status[r] = "starting" /\ ~Confirmed(r) /\ Confirmed(r)' /\ Live(r) /\ Live(r)'
      /\ \A q \in Of(i) : Live(q) => q = r
  BY <1>2, OnePending DEF Confirmed, Live
<1>4. UNCHANGED <<shown, chain, stopped, blank, cur, outbox>> /\ \A k \in Instance : Of(k)' = Of(k)
  BY <1>2 DEF turn, Of
<1>5. Knows(i) /\ shown[r] = cur[i] /\ stopped[i]
  BY DEF Inv, Knows, Working, Forwarding
<1>6. \A q \in Request : q # r => (Live(q)' <=> Live(q)) /\ (Confirmed(q)' <=> Confirmed(q))
  BY <1>2 DEF Live, Confirmed
<1>7. Born' /\ BindTurnIsSecret'
  BY <1>1, <1>2, <1>3, <1>4 DEF Inv, Born, BindTurnIsSecret
<1>8. OneToOne'
  <2>1. \A q \in Request : Live(q) => sess[q] # cur[i]
    BY DEF Taken
  <2> QED
    BY <1>2, <1>3, <1>6, <2>1 DEF Inv, OneToOne
<1>9. Proven'
  BY <1>1, <1>2, <1>4, <1>5, <1>6 DEF Inv, Proven
<1>10. RequestAgrees'
  <2> SUFFICES ASSUME NEW q \in Request
               PROVE  /\ pb'[q] = "pending" <=> (status'[q] = "starting" /\ ~Confirmed(q)')
                      /\ status'[q] = "active" => pb'[q] = "consumed" /\ Confirmed(q)' /\ shown'[q] = sess'[q]
    BY DEF RequestAgrees
  <2>1. CASE q = r
    BY <1>2, <1>3, <1>4, <1>5, <2>1
  <2>2. CASE q # r
    BY <1>2, <1>4, <1>6, <2>2 DEF Inv, RequestAgrees
  <2> QED
    BY <2>1, <2>2
<1>11. SessionEndReleases'
  <2> SUFFICES ASSUME NEW k \in Instance, blank[k], NEW q \in Of(k)
               PROVE  ~Live(q)' /\ pb'[q] # "pending" /\ ~latch'[q]
    BY <1>4 DEF SessionEndReleases
  <2>1. q \in Request /\ ~Live(q) /\ pb[q] # "pending" /\ ~latch[q]
    BY DEF Inv, SessionEndReleases, Of
  <2> QED
    BY <1>2, <1>3, <1>6, <2>1
<1>12. ASSUME NEW k \in Instance PROVE Knows(k)' /\ Latched(k)'
  <2>1. CASE k = i
    <3>1. hook'[i].pc = "idle" /\ Knows(i)'
      BY Rests DEF Inv
    <3>2. \A q \in Of(i) : Live(q)' => latch'[q] /\ stopped'[i]
      BY <1>2, <1>3, <1>4, <1>5, <1>6 DEF Of
    <3> QED
      BY <1>4, <2>1, <3>1, <3>2 DEF Latched, Forwarding
  <2>2. CASE k # i
    <3>1. hook'[k] = hook[k]
      BY <2>2, Rests DEF Inv
    <3>2. r \notin Of(k)
      BY <1>1, <2>2 DEF Of
    <3>3. \A q \in Of(k) : (Live(q)' <=> Live(q)) /\ (Confirmed(q)' <=> Confirmed(q)) /\ latch'[q] = latch[q]
      BY <1>2, <1>6, <3>2 DEF Of
    <3>4. (Unconfirmed(k)' <=> Unconfirmed(k)) /\ (Vacant(k)' <=> Vacant(k))
      BY <1>4, <3>3 DEF Unconfirmed, Vacant
    <3>5. Knows(k) /\ Latched(k)
      BY DEF Inv
    <3>6. Knows(k)'
      BY <1>4, <3>1, <3>4, <3>5, StillKnows
    <3>7. Latched(k)'
      BY <1>4, <3>1, <3>3, <3>4, <3>5 DEF Latched
    <3> QED
      BY <3>6, <3>7
  <2> QED
    BY <2>1, <2>2
<1> QED
  BY <1>7, <1>8, <1>9, <1>10, <1>11, <1>12 DEF Inv

LEMMA HandshakeInv == ASSUME Inv, Types', NEW i \in Instance, Handshake(i) PROVE Inv'
<1> DEFINE r == hook[i].req
<1>1. /\ hook[i].pc = "handshake" /\ UNCHANGED <<lease, outbox, cur, turn>>
      /\ r \in Of(i) /\ stopped[i] /\ Knows(i)
  BY DEF Handshake, cc, Inv, Knows, Working, Forwarding
<1>2. CASE UNCHANGED <<row, request>>
  <2>1. (\A q \in Request : Same(q)) /\ BindTurnIsSecret' /\ UNCHANGED <<chat, inst, sess>>
    BY <1>1, <1>2 DEF Same, row, request, Inv, BindTurnIsSecret
  <2>2. CASE Done(i)
    BY <1>1, <2>1, <2>2, DoneInv
  <2>3. CASE Goto(i, "miss", r)
    <3>1. hook'[i].pc = "miss" /\ hook'[i].req = r
      BY <2>3, Moves DEF Inv
    <3>2. Of(i)' = Of(i) /\ stopped' = stopped
      BY <1>1, <2>1 DEF Of, turn
    <3>3. Knows(i)'
      BY <1>1, <3>1, <3>2 DEF Knows
    <3> QED
      BY <1>1, <2>1, <2>3, <3>3, GoesOnInv DEF Forwarding
  <2> QED
    BY <1>2, <2>2, <2>3, <1>1, ConfirmInv DEF Handshake
<1>3. CASE ~UNCHANGED <<row, request>>
  BY <1>1, <1>3, ConfirmInv DEF Handshake
<1> QED
  BY <1>2, <1>3

LEMMA MissInv == ASSUME Inv, Types', NEW i \in Instance, Miss(i) PROVE Inv'
<1>1. hook[i].req \in Request
  BY DEF Miss, Inv, Knows, Of
<1>2. \A q \in Request : Same(q) \/ Ended(q)
  BY <1>1, CloseEnds DEF Miss, Inv, Same, row, request
<1>3. UNCHANGED <<chat, inst, sess, outbox, cur, turn>>
  BY DEF Miss, CloseRequest, row, cc
<1> QED
  BY <1>2, <1>3, DoneInv DEF Miss, Inv, BindTurnIsSecret

\* A turn that is forwarded is no bind turn: its binding is confirmed.
LEMMA LookupInv == ASSUME Inv, Types', NEW i \in Instance, Lookup(i) PROVE Inv'
<1>1. /\ hook[i].pc = "forward" /\ UNCHANGED <<status, chat, inst, sess, pb, latch, outbox, cur, turn>>
      /\ Knows(i) /\ Latched(i)
  BY DEF Lookup, row, request, cc, Inv
<1>2. (\A q \in Request : Same(q)) /\ BindTurnIsSecret'
  BY <1>1 DEF Same, Inv, BindTurnIsSecret
<1>3. ASSUME NEW r \in Request, status[r] = "active", sess[r] = cur[i], inst[r] = i, Goto(i, "queue", r)
      PROVE  Inv'
  <2>1. r \in Of(i) /\ Live(r) /\ Confirmed(r)
    BY <1>3, NoneIsNone DEF Of, Live, Confirmed, Inv, RequestAgrees
  <2>2. chain[i] = "plain"
    BY <1>1, <2>1 DEF Latched, Unconfirmed, Forwarding, Inv, Types, InstancesOK
  <2>3. hook'[i].pc = "queue"
    BY <1>3, Moves DEF Inv
  <2>4. Knows(i)'
    BY <1>1, <2>2, <2>3 DEF Knows, Working, Forwarding, turn
  <2> QED
    BY <1>1, <1>2, <1>3, <2>4, GoesOnInv DEF Forwarding
<1>4. CASE Done(i)
  BY <1>1, <1>2, <1>4, DoneInv
<1> QED
  BY <1>3, <1>4 DEF Lookup

LEMMA QueueInv == ASSUME Inv, Types', NEW i \in Instance, Queue(i) PROVE Inv'
<1>1. chain[i] = "plain"
  BY DEF Queue, Inv, Knows
<1>2. BindTurnIsSecret'
  BY <1>1 DEF Queue, Inv, BindTurnIsSecret, Types, RowsOK
<1>3. (\A q \in Request : Same(q)) /\ UNCHANGED <<chat, inst, sess, cur, turn>>
  BY DEF Queue, Same, row, request, cc
<1> QED
  BY <1>2, <1>3, DoneInv DEF Queue

-----------------------------------------------------------------------------
(* The SessionEnd hook.                                                      *)

LEMMA EndSessionInv == ASSUME Inv, Types', NEW i \in Instance, EndSession(i) PROVE Inv'
<1>1. /\ hook'[i].pc = "end binding" /\ \A k \in Instance : k # i => hook'[k] = hook[k]
      /\ UNCHANGED <<row, request, outbox, cur, turn>>
  BY DEF EndSession, Inv, Types, HookOK, cc
<1>2. Knows(i)'
  BY <1>1 DEF Knows, Working, Forwarding
<1>3. (\A q \in Request : Same(q)) /\ BindTurnIsSecret' /\ UNCHANGED <<chat, inst, sess, cur, turn>>
  BY <1>1 DEF Same, row, request, Inv, BindTurnIsSecret
<1>4. \A k \in Instance : hook'[k] = hook[k] \/ (Knows(k)' /\ (hook'[k].pc \in Forwarding => hook[k].pc \in Forwarding))
  BY <1>1, <1>2 DEF Forwarding
<1> QED
  BY <1>3, <1>4, EndsInv

\* The one live binding of the session goes, so nothing confirmed of the
\* instance is left.
LEMMA EndBindingInv == ASSUME Inv, Types', NEW i \in Instance, EndBinding(i) PROVE Inv'
<1>1. /\ Goto(i, "end request", None) /\ UNCHANGED <<chat, inst, sess, outbox, cur, turn>>
      /\ hook'[i].pc = "end request"
  BY Moves DEF EndBinding, Terminate, row, cc, Inv
<1>2. \A q \in Request : Same(q) \/ Ended(q)
  BY TerminateEnds DEF EndBinding, Inv, Same, row, request
<1>3. ASSUME NEW r \in Of(i), Live(r)', Confirmed(r)' PROVE FALSE
  <2>1. r \in Request /\ inst[r] = i /\ Live(r) /\ Confirmed(r) /\ Same(r)
    BY <1>1, <1>2, <1>3 DEF Of, Same, Ended, Live, Confirmed
  <2>2. sess[r] = cur[i] /\ Live(r)
    BY <2>1 DEF Inv, Proven
  <2>3. PICK q \in Request : Live(q) /\ sess[q] = cur[i] /\ Terminate(q, "closed")
    BY <2>1, <2>2 DEF EndBinding
  <2>4. q = r
    BY <2>1, <2>2, <2>3 DEF Inv, OneToOne, Confirmed
  <2>5. status'[r] = "closed"
    BY <2>1, <2>3, <2>4 DEF Terminate, Terminated
  <2> QED
    BY <1>3, <2>5 DEF Live
<1>4. Of(i)' = Of(i)
  BY <1>1 DEF Of
<1>5. Knows(i)'
  BY <1>1, <1>3, <1>4 DEF Knows, Unconfirmed, Working, Forwarding
<1>6. BindTurnIsSecret'
  BY <1>1 DEF Inv, BindTurnIsSecret
<1> QED
  BY <1>1, <1>2, <1>5, <1>6, GoesOnInv DEF Forwarding

\* ... and with the pending request the rest.
LEMMA EndRequestInv == ASSUME Inv, Types', NEW i \in Instance, EndRequest(i) PROVE Inv'
<1>1. /\ Goto(i, "end latch", None) /\ UNCHANGED <<chat, inst, sess, outbox, cur, turn>>
      /\ hook'[i].pc = "end latch" /\ Unconfirmed(i)
  BY Moves DEF EndRequest, CloseRequest, row, cc, Inv, Knows
<1>2. \A q \in Request : Same(q) \/ Ended(q)
  BY CloseEnds DEF EndRequest, Inv, Same, row, request, Of
<1>3. ASSUME NEW r \in Of(i), Live(r)' PROVE FALSE
  <2>1. r \in Request /\ inst[r] = i /\ Live(r) /\ ~Confirmed(r)
    BY <1>1, <1>2, <1>3 DEF Of, Same, Ended, Live, Unconfirmed
  <2>2. pb[r] = "pending"
    BY <2>1 DEF Inv, RequestAgrees, Live
  <2>3. PICK q \in Of(i) : pb[q] = "pending" /\ CloseRequest(q, "expired", FALSE)
    BY <2>2 DEF EndRequest
  <2>4. q = r
    BY <2>1, <2>3, OnePending
  <2>5. status'[r] = "closed"
    BY <2>1, <2>3, <2>4 DEF CloseRequest, Terminated
  <2> QED
    BY <1>3, <2>5 DEF Live
<1>4. Of(i)' = Of(i)
  BY <1>1 DEF Of
<1>5. Vacant(i)' /\ Unconfirmed(i)'
  BY <1>3, <1>4 DEF Vacant, Unconfirmed
<1>6. Knows(i)'
  BY <1>1, <1>5 DEF Knows, Working, Forwarding
<1>7. BindTurnIsSecret'
  BY <1>1 DEF Inv, BindTurnIsSecret
<1> QED
  BY <1>1, <1>2, <1>6, <1>7, GoesOnInv DEF Forwarding

\* The next session finds nothing of the instance, and no latch.
LEMMA EndLatchInv == ASSUME Inv, Types', NEW i \in Instance, EndLatch(i) PROVE Inv'
<1>1. /\ hook[i].pc = "end latch" /\ UNCHANGED <<status, chat, inst, sess, pb, outbox, shown>>
      /\ latch' = [r \in Request |-> latch[r] /\ r \notin Of(i)]
      /\ chain' = [chain EXCEPT ![i] = "plain"] /\ stopped' = [stopped EXCEPT ![i] = FALSE]
      /\ blank' = [blank EXCEPT ![i] = TRUE]
  BY DEF EndLatch, row
<1>2. PICK s \in Session : cur' = [cur EXCEPT ![i] = s]
  BY DEF EndLatch
<1>3. /\ \A k \in Instance : k # i => /\ cur'[k] = cur[k] /\ chain'[k] = chain[k] /\ stopped'[k] = stopped[k]
                                      /\ blank'[k] = blank[k] /\ hook'[k] = hook[k]
      /\ hook'[i].pc = "idle" /\ Knows(i)' /\ chain'[i] = "plain" /\ Vacant(i)
  <2>1. Types /\ Done(i) /\ Vacant(i)
    BY <1>1 DEF EndLatch, Inv, Knows
  <2>2. /\ hook'[i].pc = "idle" /\ Knows(i)'
        /\ \A k \in Instance : k # i => hook'[k] = hook[k]
    BY <2>1, Rests
  <2> QED
    BY <1>1, <1>2, <2>1, <2>2 DEF Types, InstancesOK
<1>4. /\ \A q \in Request : (Live(q)' <=> Live(q)) /\ (Confirmed(q)' <=> Confirmed(q))
      /\ \A k \in Instance : Of(k)' = Of(k)
      /\ \A k \in Instance : (Unconfirmed(k)' <=> Unconfirmed(k)) /\ (Vacant(k)' <=> Vacant(k))
  BY <1>1 DEF Live, Confirmed, Of, Unconfirmed, Vacant
<1>5. /\ \A q \in Of(i) : ~Live(q) /\ ~latch'[q]
      /\ \A k \in Instance : k # i => \A q \in Of(k) : latch'[q] = latch[q]
  BY <1>1, <1>3 DEF Vacant, Of, Inv, Types, RowsOK
<1>6. Born' /\ OneToOne' /\ RequestAgrees' /\ BindTurnIsSecret'
  BY <1>1, <1>4 DEF Inv, Born, OneToOne, RequestAgrees, BindTurnIsSecret
<1>7. Proven'
  <2> SUFFICES ASSUME NEW q \in Request, Live(q)', Confirmed(q)'
               PROVE  pb'[q] = "consumed" /\ shown'[q] = sess'[q] /\ cur'[inst'[q]] = sess'[q]
    BY DEF Proven
  <2>1. Live(q) /\ Confirmed(q) /\ inst[q] \in Instance
    BY <1>4 DEF Live, Inv, Born
  <2>2. inst[q] # i
    BY <1>5, <2>1 DEF Of
  <2> QED
    BY <1>1, <1>3, <2>1, <2>2 DEF Inv, Proven
<1>8. SessionEndReleases'
  <2> SUFFICES ASSUME NEW k \in Instance, blank'[k], NEW q \in Of(k)
               PROVE  ~Live(q) /\ pb[q] # "pending" /\ ~latch'[q]
    BY <1>1, <1>4 DEF SessionEndReleases, Of
  <2>1. CASE k = i
    BY <1>5, <2>1 DEF Inv, RequestAgrees, Live, Of
  <2>2. CASE k # i
    BY <1>3, <1>5, <2>2 DEF Inv, SessionEndReleases
  <2> QED
    BY <2>1, <2>2
<1>9. ASSUME NEW k \in Instance PROVE Knows(k)' /\ Latched(k)'
  <2>1. CASE k = i
    BY <1>3, <2>1 DEF Latched
  <2>2. CASE k # i
    <3>1. Knows(k) /\ Latched(k)
      BY DEF Inv
    <3>2. Knows(k)'
      BY <1>1, <1>3, <1>4, <2>2, <3>1, StillKnows
    <3>3. Latched(k)'
      BY <1>3, <1>4, <1>5, <2>2, <3>1 DEF Latched, Of
    <3> QED
      BY <3>2, <3>3
  <2> QED
    BY <2>1, <2>2
<1> QED
  BY <1>6, <1>7, <1>8, <1>9 DEF Inv

-----------------------------------------------------------------------------
(* The daemon and the world.                                                 *)

LEMMA ActivateInv == ASSUME Inv, Types', NEW r \in Request, Activate(r) PROVE Inv'
<1>1. /\ status' = [status EXCEPT ![r] = "active"] /\ status[r] = "starting" /\ Confirmed(r)
      /\ UNCHANGED <<chat, inst, sess, pb, latch, outbox, cur, hook, chain, stopped, shown, blank>>
  BY DEF Activate, request, cc, turn
<1>2. /\ \A q \in Request : (Live(q)' <=> Live(q)) /\ (Confirmed(q)' <=> Confirmed(q))
      /\ \A q \in Request : q # r => status'[q] = status[q]
      /\ status'[r] = "active" /\ Live(r)
  BY <1>1 DEF Live, Confirmed, Inv, Types, RowsOK
<1>3. \A i \in Instance : /\ Of(i)' = Of(i)
                          /\ Unconfirmed(i)' <=> Unconfirmed(i)
                          /\ Vacant(i)' <=> Vacant(i)
  BY <1>1, <1>2 DEF Of, Unconfirmed, Vacant
<1>4. Born' /\ OneToOne' /\ Proven' /\ BindTurnIsSecret' /\ SessionEndReleases'
  BY <1>1, <1>2, <1>3 DEF Inv, Born, OneToOne, Proven, BindTurnIsSecret, SessionEndReleases, Of
<1>5. RequestAgrees'
  BY <1>1, <1>2 DEF Inv, RequestAgrees, Proven
<1>6. \A i \in Instance : Knows(i)'
  BY <1>1, <1>3, StillKnows DEF Inv
<1>7. \A i \in Instance : Latched(i)'
  BY <1>1, <1>2, <1>3 DEF Inv, Latched, Of
<1> QED
  BY <1>4, <1>5, <1>6, <1>7 DEF Inv

LEMMA JudgeInv ==
  ASSUME Inv, Types', NEW x \in scan, CCGone(x) \/ Suspect(x) \/ ListenerGone(x) \/ PassOver(x)
  PROVE  Inv'
<1>1. CASE CCGone(x) \/ ListenerGone(x)
  <2>1. \A q \in Request : Same(q) \/ Ended(q)
    BY <1>1, TerminateEnds DEF CCGone, ListenerGone, Inv
  <2>2. BindTurnIsSecret' /\ UNCHANGED <<chat, inst, sess, cur, turn, hook>>
    BY <1>1 DEF CCGone, ListenerGone, Judge, Terminate, Inv, BindTurnIsSecret, cc
  <2> QED
    BY <2>1, <2>2, EndsInv
<1>2. CASE Suspect(x) \/ PassOver(x)
  BY <1>2, StillInv DEF Suspect, PassOver, Judge, cc
<1> QED
  BY <1>1, <1>2

LEMMA DaemonInv == ASSUME Inv, Types', Daemon PROVE Inv'
<1>1. ASSUME NEW r \in Request, NeverReady(r) \/ ExpirePending(r) PROVE Inv'
  <2>1. \A q \in Request : Same(q) \/ Ended(q)
    BY <1>1, TerminateEnds, CloseEnds DEF NeverReady, ExpirePending, Inv
  <2>2. BindTurnIsSecret' /\ UNCHANGED <<chat, inst, sess, cur, turn, hook>>
    BY <1>1 DEF NeverReady, ExpirePending, Terminate, CloseRequest, Inv, BindTurnIsSecret, cc
  <2> QED
    BY <2>1, <2>2, EndsInv
<1>2. CASE DeathScan
  BY <1>2, StillInv DEF DeathScan, cc
<1> QED
  BY <1>1, <1>2, ActivateInv, JudgeInv DEF Daemon

LEMMA PromptInv == ASSUME Inv, Types', NEW i \in Instance, Prompt(i) PROVE Inv'
<1>1. /\ hook[i].pc = "idle" /\ chain' = [chain EXCEPT ![i] = "plain"]
      /\ stopped' = [stopped EXCEPT ![i] = FALSE]
      /\ UNCHANGED <<status, chat, inst, sess, pb, latch, outbox, cur, shown, blank, hook>>
  BY DEF Prompt, row, request, cc, Idle
<1>2. Born' /\ OneToOne' /\ RequestAgrees' /\ Proven' /\ BindTurnIsSecret' /\ SessionEndReleases'
  BY <1>1 DEF Inv, Born, OneToOne, RequestAgrees, Proven, BindTurnIsSecret, SessionEndReleases,
     Live, Confirmed, Of
<1>3. ASSUME NEW k \in Instance PROVE Knows(k)' /\ Latched(k)'
  <2>1. CASE k = i
    BY <1>1, <2>1 DEF Knows, Latched, Working, Forwarding, Inv, Types, InstancesOK
  <2>2. CASE k # i
    <3>1. chain'[k] = chain[k] /\ stopped'[k] = stopped[k] /\ Of(k)' = Of(k)
      BY <1>1, <2>2 DEF Of
    <3>2. (Unconfirmed(k)' <=> Unconfirmed(k)) /\ (Vacant(k)' <=> Vacant(k))
      BY <1>1 DEF Unconfirmed, Vacant, Of, Live, Confirmed
    <3>3. Knows(k) /\ Latched(k)
      BY DEF Inv
    <3>4. Knows(k)'
      BY <1>1, <3>1, <3>2, <3>3, StillKnows
    <3>5. Latched(k)'
      BY <1>1, <3>1, <3>2, <3>3 DEF Latched, Live, Confirmed
    <3> QED
      BY <3>4, <3>5
  <2> QED
    BY <2>1, <2>2
<1> QED
  BY <1>2, <1>3 DEF Inv

LEMMA WorldInv == ASSUME Inv, Types', World PROVE Inv'
<1>1. CASE DaemonCrash
  BY <1>1, StillInv DEF DaemonCrash, cc
<1>2. ASSUME NEW r \in Request, Beat(r) \/ Silence(r) PROVE Inv'
  BY <1>2, StillInv DEF Beat, Silence, cc
<1>3. ASSUME NEW i \in Instance, ListenerDies(i) PROVE Inv'
  BY <1>3, StillInv DEF ListenerDies
<1>4. ASSUME NEW i \in Instance, HookKilled(i) \/ InstanceDies(i) PROVE Inv'
  <2>1. Done(i) /\ UNCHANGED <<row, request, outbox, cur, turn>>
    BY <1>4 DEF HookKilled, InstanceDies, cc
  <2>2. (\A q \in Request : Same(q)) /\ BindTurnIsSecret' /\ UNCHANGED <<chat, inst, sess>>
    BY <2>1 DEF Same, row, request, Inv, BindTurnIsSecret
  <2> QED
    BY <2>1, <2>2, DoneInv
<1> QED
  BY <1>1, <1>2, <1>3, <1>4, PromptInv DEF World

-----------------------------------------------------------------------------
LEMMA InvNext == Inv /\ [Next]_vars => Inv'
<1> SUFFICES ASSUME Inv, [Next]_vars PROVE Inv'
  OBVIOUS
<1>1. Types'
  BY TypeNext DEF Inv
<1>2. CASE UNCHANGED vars
  BY <1>1, <1>2, StillInv DEF vars, cc
<1>3. ASSUME NEW i \in Instance, Hooks(i) PROVE Inv'
  BY <1>1, <1>3, StopInv, RouteInv, HandshakeInv, MissInv, LookupInv, QueueInv,
     EndSessionInv, EndBindingInv, EndRequestInv, EndLatchInv DEF Hooks
<1> QED
  BY <1>1, <1>2, <1>3, BindInv, UnbindInv, DaemonInv, WorldInv DEF Next, CLI

LEMMA Invariance == Spec => []Inv
  BY InvInit, InvNext, PTL DEF Spec

\* The columns have their types in every reachable state; a row has its
\* instance from its birth on and its session when it is active.
THEOREM BindingTyped == Spec => []TypeOK
<1>1. ASSUME Inv PROVE TypeOK
  <2>1. \A r \in Request : status[r] = "none" <=> inst[r] = None
    BY <1>1, NoneIsNone DEF Inv, Born
  <2>2. \A r \in Request : status[r] = "active" => sess[r] \in Session
    BY <1>1 DEF Inv, Types, RowsOK, RequestAgrees, Confirmed
  <2> QED
    BY <1>1, <2>1, <2>2
    DEF Inv, TypeOK, Types, RowsOK, ScanOK, InstancesOK, HookOK, Pcs, Working, Forwarding
<1> QED
  BY <1>1, Invariance, PTL

\* A chat, an instance and a session have at most one live binding: the indexes
\* and the checks of create_binding and of the handshake see to that, however
\* many CLIs, hooks and daemon loops interleave.
THEOREM Exclusive == Spec => []OneToOne
<1>1. Inv => OneToOne
  BY DEF Inv
<1> QED
  BY <1>1, Invariance, PTL

\* The two rows of a bind tell the same story, and no binding is active but by
\* the marker that its own instance showed in the session it has.
THEOREM TwoRowsAgree == Spec => []RequestAgrees
<1>1. Inv => RequestAgrees
  BY DEF Inv
<1> QED
  BY <1>1, Invariance, PTL

\* No turn in which the user binds is queued for a chat, whatever else the
\* instance's hooks, the timeouts and the user do in that turn.
THEOREM BindTurnStaysHome == Spec => []BindTurnIsSecret
<1>1. Inv => BindTurnIsSecret
  BY DEF Inv
<1> QED
  BY <1>1, Invariance, PTL

\* The three transactions of a SessionEnd hook leave nothing of the instance,
\* whatever the other processes commit between them.
THEOREM SessionEndsClean == Spec => []SessionEndReleases
<1>1. Inv => SessionEndReleases
  BY DEF Inv
<1> QED
  BY <1>1, Invariance, PTL

=============================================================================
