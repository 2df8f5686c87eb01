-------------------------- MODULE SupervisorProofs --------------------------
(***************************************************************************)
(* What Supervisor promises of the one daemon, for every number of callers, *)
(* of generations and of code versions.  ensure() acts on a state it read   *)
(* some time ago; the invariant says what such a state is still good for.   *)
(***************************************************************************)
EXTENDS Supervisor, NaturalsInduction, WellFoundedInduction, TLAPS

DaemonTypes ==
  /\ lock \in Daemon \cup {None} /\ row \in Reads /\ life \in [Daemon -> Lives]
  /\ code \in [Daemon -> Version \cup {None}] /\ stalled \subseteq Daemon

CallerTypes ==
  /\ flight \in Caller \cup {None} /\ pc \in [Caller -> Places] /\ again \in [Caller -> BOOLEAN]
  /\ base \in [Caller -> Daemon \cup {None, Lost}] /\ st \in [Caller -> Reads]
  /\ late \in [Caller -> SUBSET Daemon]

\* Before the lock, and before the signature.
Early == {"spawned", "locked"}

\* Who is past the lock holds it.
Holds == \A d \in Daemon : life[d] \notin {"none", "spawned"} <=> lock = d

\* The row is of one daemon, the one that holds the lock, once this one has signed it.
Signed == /\ row.beat = row.gen /\ row.proc = row.gen /\ row.by = row.gen
          /\ \A d \in Daemon : life[d] \notin {"none"} \cup Early => row.gen = d

\* A state that was read, by however many SELECTs and however long ago: if the process it
\* names lives, it is one that has signed; an old heartbeat was that of its own process.
Known(s) == /\ Alive(s.proc) => life[s.proc] \notin Early
            /\ Alive(s.beat) /\ ~s.fresh => s.beat \in stalled

\* The code in it is that of the process it names.
Coded(s) == Alive(s.proc) => code[s.proc] = s.code

\* The reason for which a caller is about to kill.
Chosen(c) == /\ pc[c] = "takeover" => ~st[c].fresh
             /\ pc[c] \in {"compare", "identify"} => Coded(st[c])
             /\ pc[c] = "identify" => st[c].code # Own[c]

\* A generation other than the one before the wait became ready during it.
Waits(c)   == pc[c] \in {"wait", "await"} /\ c \notin Watcher /\ base[c] # Lost
New(c, s)  == s.by # base[c] /\ s.phase = "running" => s.by \in late[c]
Watched(c) == /\ Waits(c) => New(c, row)
              /\ Waits(c) /\ pc[c] = "await" => New(c, st[c])

Facts   == DaemonTypes /\ Holds /\ Signed /\ Known(row) /\ Coded(row)
Mind(c) == Known(st[c]) /\ Chosen(c) /\ Watched(c)

Inv == Facts /\ CallerTypes /\ \A c \in Caller : Mind(c)

\* What most steps leave alone.
Same(k) == pc'[k] = pc[k] /\ base'[k] = base[k] /\ st'[k] = st[k] /\ late'[k] = late[k]

\* A process that lives after the step lived before it, with what is known of it.
Lasts(d) == life'[d] # "none" => /\ life[d] # "none" /\ code'[d] = code[d]
                                 /\ life[d] \notin Early => life'[d] \notin Early
                                 /\ d \in stalled => d \in stalled'

\* Whom a state speaks of.
Lasting(s) == /\ s.proc # None => Lasts(s.proc)
              /\ s.beat # None => Lasts(s.beat)

\* The row does not come to say "running".
Quiet == row'.phase = "running" => row.phase = "running" /\ row'.by = row.by

-----------------------------------------------------------------------------
(* The states that were read.                                                *)

LEMMA InitInv == Init => Inv
  BY DaemonAssumption DEF Init, Inv, Facts, DaemonTypes, CallerTypes, Holds, Signed, Early, Known, Coded,
     Alive, Mind, Chosen, Watched, Waits, New, NoRow, Reads, Lives, Phases, Places

LEMMA NoRowFacts == NoRow \in Reads /\ Known(NoRow) /\ Coded(NoRow)
  BY DEF NoRow, Reads, Phases, Known, Coded, Alive

\* What a caller keeps of a state it may keep.
LEMMA UseFacts ==
  ASSUME NEW s \in Reads, NEW place
  PROVE  /\ Use(place, s) \in Reads
         /\ Use(place, s).proc \in {None, s.proc}
         /\ Use(place, s).beat = None \/ (Use(place, s).beat = s.beat /\ Use(place, s).fresh = s.fresh)
         /\ place = "await" => \/ Use(place, s).by = s.by /\ Use(place, s).phase = s.phase
                               \/ Use(place, s).phase # "running"
         /\ place \in {"slow", "takeover"} => Use(place, s).fresh = s.fresh
         /\ place \in {"compare", "identify"} => Use(place, s).proc = s.proc /\ Use(place, s).code = s.code
<1>1. CASE place \in {"handoff", "probing", "await"}
  BY <1>1 DEF Use, Startup, Reads, NoRow, Phases
<1>2. CASE place = "fast"
  BY <1>2 DEF Use, Heartbeat, Reads, NoRow, Phases
<1>3. CASE place \in {"slow", "takeover"}
  BY <1>3 DEF Use, Heartbeat, Reads, NoRow, Phases
<1>4. CASE place \in {"compare", "identify"}
  BY <1>4 DEF Use, Reads, NoRow, Phases
<1>5. CASE place \notin {"handoff", "probing", "await", "fast", "slow", "takeover", "compare", "identify"}
  <2>1. Use(place, s) = NoRow
    BY <1>5 DEF Use
  <2>2. NoRow.proc = None /\ NoRow.beat = None
    BY DEF NoRow
  <2> QED
    BY <1>5, <2>1, <2>2, NoRowFacts, Zenon
<1> QED
  BY <1>1, <1>2, <1>3, <1>4, <1>5

\* So does a read that goes on: what the later SELECTs bring is of the daemon that has signed.
LEMMA LaterFacts ==
  ASSUME Inv, NEW s \in Reads, Known(s), NEW i \in 2 .. 6
  PROVE  /\ Later(s, i) \in Reads /\ Known(Later(s, i))
         /\ Coded(s) => Coded(Later(s, i))
         /\ \/ Later(s, i).phase = s.phase /\ Later(s, i).by = s.by
            \/ Later(s, i).phase = row.phase /\ Later(s, i).by = row.by
<1>1. Later(s, i) \in Reads /\ Later(s, i).proc \in {s.proc, row.proc, None}
  BY DEF Later, Inv, Facts, DaemonTypes, Reads
<1>2. Later(s, i).fresh = s.fresh /\ Later(s, i).beat = s.beat /\ Later(s, i).code = row.code
  BY DEF Later
<1>3. Known(Later(s, i))
  BY <1>1, <1>2 DEF Inv, Facts, Known, Alive
<1>4. Alive(s.proc) => s.proc = row.gen /\ row.proc = row.gen
  BY DaemonAssumption DEF Inv, Facts, DaemonTypes, Signed, Known, Alive, Reads
<1>5. Coded(s) => Coded(Later(s, i))
  BY <1>1, <1>2, <1>4 DEF Inv, Facts, Coded, Alive
<1>6. \/ Later(s, i).phase = s.phase /\ Later(s, i).by = s.by
      \/ Later(s, i).phase = row.phase /\ Later(s, i).by = row.by
  BY DEF Later
<1> QED
  BY <1>1, <1>3, <1>5, <1>6

\* A caller that takes no step keeps its mind.
LEMMA MindStays ==
  ASSUME Inv, NEW k \in Caller, Same(k), Quiet, Lasting(st[k])
  PROVE  Mind(k)'
<1>1. Known(st[k])'
  BY DEF Inv, Mind, Known, Alive, Same, Lasting, Lasts
<1>2. Chosen(k)'
  BY DEF Inv, Mind, Chosen, Coded, Alive, Same, Lasting, Lasts
<1>3. Watched(k)'
  BY DEF Inv, Mind, Watched, Waits, New, Same, Quiet
<1> QED
  BY <1>1, <1>2, <1>3 DEF Mind

\* A generation that nobody remembers, if there is one.
LEMMA FreeIsFree == Free # {} => Min(Free) \in Free
<1> SUFFICES ASSUME Free # {} PROVE Min(Free) \in Free
  OBVIOUS
<1> DEFINE R == {p \in Nat \X Nat : p[1] < p[2]}
<1>1. Free \subseteq Nat
  BY DaemonAssumption DEF Free, Daemon
<1>2. IsWellFoundedOn(R, Nat)
  BY NatLessThanWellFounded DEF OpToRel
<1>3. \A e, d \in Nat : e < d => <<e, d>> \in R
  OBVIOUS
<1> HIDE DEF R
<1>4. PICK d \in Free : \A e \in Free : <<e, d>> \notin R
  BY <1>1, <1>2, WFMin
<1>5. \A e \in Free : d <= e
  <2> SUFFICES ASSUME NEW e \in Free PROVE d <= e
    OBVIOUS
  <2>1. d \in Nat /\ e \in Nat
    BY <1>1
  <2>2. ~(e < d)
    BY <2>1, <1>3, <1>4
  <2> QED
    BY <2>1, <2>2
<1> QED
  BY <1>5 DEF Min

-----------------------------------------------------------------------------
(* The daemon.                                                               *)

\* What the row says of a process stays true as long as nobody writes it.
LEMMA RowStays ==
  ASSUME Inv, row' = row, \A e \in Daemon : Lasts(e)
  PROVE  Known(row)' /\ Coded(row)'
<1>1. row.proc \in Daemon \cup {None} /\ row.beat \in Daemon \cup {None}
  BY DEF Inv, Facts, DaemonTypes, Reads
<1> QED
  BY <1>1 DEF Inv, Facts, Known, Coded, Alive, Lasts

LEMMA DieFacts ==
  ASSUME Inv, NEW d \in Daemon, Die(d), row' = row
  PROVE  Facts' /\ (\A e \in Daemon : Lasts(e)) /\ Quiet
<1>1. DaemonTypes'
  BY DEF Die, Inv, Facts, DaemonTypes, Lives
<1>2. Holds' /\ Signed'
  BY DaemonAssumption DEF Die, Inv, Facts, DaemonTypes, Holds, Signed
<1>3. \A e \in Daemon : Lasts(e)
  BY DEF Die, Inv, Facts, DaemonTypes, Lasts
<1>4. Known(row)' /\ Coded(row)'
  BY <1>3, RowStays
<1> QED
  BY <1>1, <1>2, <1>3, <1>4 DEF Facts, Quiet

\* A step of the daemon that is none of its callers' business.
LEMMA DaemonStep ==
  ASSUME Inv, Facts', UNCHANGED <<callerVars, late>>, Quiet, \A e \in Daemon : Lasts(e)
  PROVE  Inv'
<1>1. CallerTypes' /\ \A k \in Caller : Same(k) /\ Lasting(st[k])
  BY DEF Inv, CallerTypes, callerVars, Same, Reads, Lasting
<1>2. \A k \in Caller : Mind(k)'
  BY <1>1, MindStays
<1> QED
  BY <1>1, <1>2 DEF Inv

LEMMA Dies ==
  ASSUME Inv, NEW d \in Daemon, Yield(d) \/ ConfigRefused(d) \/ Exit(d) \/ Crash(d)
  PROVE  Inv'
<1>1. Die(d) /\ row' = row /\ UNCHANGED <<callerVars, late>>
  BY DEF Yield, ConfigRefused, Exit, Crash
<1> QED
  BY <1>1, DieFacts, DaemonStep

LEMMA LockInv == ASSUME Inv, NEW d \in Daemon, Lock(d) PROVE Inv'
<1>1. DaemonTypes' /\ row' = row /\ (\A e \in Daemon : Lasts(e))
  BY DEF Lock, Step, Inv, Facts, DaemonTypes, Lives, Lasts, Early
<1>2. Holds' /\ Signed'
  BY DaemonAssumption DEF Lock, Step, Inv, Facts, DaemonTypes, Holds, Signed, Early
<1>3. Known(row)' /\ Coded(row)'
  BY <1>1, RowStays
<1>4. Facts'
  BY <1>1, <1>2, <1>3 DEF Facts
<1> QED
  BY <1>1, <1>4, DaemonStep DEF Lock, Quiet

\* The new daemon signs the row with its own generation and code.
LEMMA RecordIdentityInv == ASSUME Inv, NEW d \in Daemon, RecordIdentity(d) PROVE Inv'
<1>1. /\ row' = [fresh |-> TRUE, beat |-> d, proc |-> d, phase |-> "neither", by |-> d, gen |-> d,
                 code |-> code[d]]
      /\ code' = code /\ lock' = lock /\ life'[d] = "probing"
  BY DEF RecordIdentity, Step, Inv, Facts, DaemonTypes
<1>2. DaemonTypes' /\ (\A e \in Daemon : Lasts(e))
  BY DEF RecordIdentity, Step, Inv, Facts, DaemonTypes, Lives, Lasts, Early, Reads, Phases
<1>3. Holds' /\ Signed'
  BY <1>1, DaemonAssumption DEF RecordIdentity, Step, Inv, Facts, DaemonTypes, Holds, Signed, Early
<1>4. Known(row)' /\ Coded(row)' /\ Quiet
  BY <1>1 DEF Known, Coded, Early, Quiet
<1>5. Facts'
  BY <1>2, <1>3, <1>4 DEF Facts
<1> QED
  BY <1>2, <1>4, <1>5, DaemonStep DEF RecordIdentity

\* The steps of a daemon that has signed the row.
LEMMA SignedStep ==
  ASSUME Inv, NEW d \in Daemon, Conclude(d) \/ Refuse(d) \/ Serve(d) \/ Beat(d) \/ Stop(d)
  PROVE  /\ Facts' /\ (\A e \in Daemon : Lasts(e)) /\ row.by = d /\ row'.by = d
         /\ ~Conclude(d) => Quiet
<1>1. row.gen = d /\ lock' = lock /\ code' = code /\ stalled' = stalled
  BY DEF Conclude, Refuse, Serve, Beat, Stop, Step, Inv, Facts, Signed, Early
<1>2. /\ row'.gen = d /\ row'.beat = d /\ row'.proc = d /\ row'.by = d /\ row.by = d
      /\ row'.code = row.code /\ (row'.fresh = row.fresh \/ row'.fresh) /\ (~Conclude(d) => Quiet)
  BY <1>1 DEF Signed, Conclude, Refuse, Serve, Beat, Stop, Inv, Facts, DaemonTypes, Reads, Quiet
<1>3. row' \in Reads
  BY DEF Conclude, Refuse, Serve, Beat, Stop, Inv, Facts, DaemonTypes, Reads, Phases
<1>4. /\ life' \in [Daemon -> Lives] /\ \A e \in Daemon : e # d => life'[e] = life[e]
      /\ {life[d], life'[d]} \subseteq {"probing", "ready", "loop", "told", "leaving"}
  BY DEF Conclude, Refuse, Serve, Beat, Stop, Step, Inv, Facts, DaemonTypes, Lives
<1>5. DaemonTypes' /\ \A e \in Daemon : Lasts(e)
  BY <1>1, <1>3, <1>4 DEF Inv, Facts, DaemonTypes, Lasts, Early
<1>6. Holds' /\ Signed'
  BY <1>1, <1>2, <1>4 DEF Inv, Facts, Holds, Signed, Early
<1>7. Known(row)' /\ Coded(row)'
  BY <1>1, <1>2, <1>4 DEF Inv, Facts, Signed, Known, Coded, Alive, Early
<1> QED
  BY <1>1, <1>2, <1>5, <1>6, <1>7 DEF Facts

LEMMA ServingInv ==
  ASSUME Inv, NEW d \in Daemon, Refuse(d) \/ Serve(d) \/ Beat(d) \/ Stop(d)
  PROVE  Inv'
<1>1. ~Conclude(d)
  BY DEF Conclude, Refuse, Serve, Beat, Stop, Step, Inv, Facts, DaemonTypes
<1>2. UNCHANGED <<callerVars, late>>
  BY DEF Refuse, Serve, Beat, Stop
<1> QED
  BY <1>1, <1>2, SignedStep, DaemonStep

\* Everybody who waits at this moment has seen it become ready.
LEMMA ConcludeInv == ASSUME Inv, NEW d \in Daemon, Conclude(d) PROVE Inv'
<1>1. Facts' /\ (\A e \in Daemon : Lasts(e)) /\ row'.by = d /\ UNCHANGED callerVars
  BY SignedStep DEF Conclude
<1>2. late' = [c \in Caller |-> IF pc[c] \in {"wait", "await"} /\ c \notin Watcher
                                THEN late[c] \cup {d} ELSE late[c]]
  BY DEF Conclude
<1>3. CallerTypes'
  BY <1>1, <1>2 DEF Inv, CallerTypes, callerVars
<1> SUFFICES ASSUME NEW c \in Caller PROVE Mind(c)'
  BY <1>1, <1>3 DEF Inv
<1>4. pc' = pc /\ st' = st /\ base' = base /\ {st[c].proc, st[c].beat} \subseteq Daemon \cup {None}
  BY <1>1 DEF Inv, CallerTypes, callerVars, Reads
<1>5. Known(st[c])'
  BY <1>1, <1>4 DEF Inv, Mind, Known, Alive, Lasts
<1>6. Chosen(c)'
  BY <1>1, <1>4 DEF Inv, Mind, Chosen, Coded, Alive, Lasts
<1>7. Watched(c)'
  BY <1>1, <1>2, <1>4 DEF Inv, Mind, Watched, Waits, New
<1> QED
  BY <1>5, <1>6, <1>7 DEF Mind

LEMMA SilenceInv == ASSUME Inv, Silence PROVE Inv'
<1>1. /\ row' = [row EXCEPT !.fresh = FALSE] /\ UNCHANGED <<lock, life, code, callerVars, late>>
      /\ row.gen \in Daemon \cup {None}
  BY DEF Silence, Inv, Facts, DaemonTypes, Reads
<1>2. stalled' \subseteq Daemon /\ stalled \subseteq stalled' /\ (Alive(row.gen) => row.gen \in stalled')
  BY <1>1 DEF Silence, Inv, Facts, DaemonTypes, Alive
<1>3. /\ row' \in Reads /\ row'.gen = row.gen /\ row'.code = row.code /\ row'.beat = row.beat
      /\ row'.proc = row.proc /\ row'.by = row.by /\ Quiet
  BY <1>1 DEF Inv, Facts, DaemonTypes, Reads, Quiet
<1>4. /\ DaemonTypes' /\ Holds' /\ Signed' /\ Known(row)' /\ Coded(row)'
      /\ \A e \in Daemon : Lasts(e)
  BY <1>1, <1>2, <1>3 DEF Inv, Facts, DaemonTypes, Holds, Signed, Known, Coded, Alive, Lasts
<1>5. Facts'
  BY <1>4 DEF Facts
<1> QED
  BY <1>1, <1>3, <1>4, <1>5, DaemonStep

-----------------------------------------------------------------------------
(* The callers.                                                              *)

\* What a call's step leaves as it is, and where its caller's state comes from.
Others(c) == \A k \in Caller : k # c => Same(k)
Alone(c)  == /\ Others(c)
             /\ \/ st'[c] \in {st[c], NoRow}
                \/ \E s \in {row, st[c]} : st'[c] = Use(pc'[c], s)

LEMMA CallerStep ==
  ASSUME Inv, NEW c \in Caller, row' = row, Facts', CallerTypes', Others(c),
         \A k \in Caller : Lasting(st[k]), Known(st[c])', Chosen(c)', Watched(c)'
  PROVE  Inv'
<1>1. \A k \in Caller : k # c => Mind(k)'
  BY MindStays DEF Others, Quiet
<1> QED
  BY <1>1 DEF Inv, Mind

\* Most steps of a caller touch no daemon.
LEMMA Undisturbed ==
  ASSUME Inv, UNCHANGED daemonVars
  PROVE  Facts' /\ row' = row /\ (\A e : Lasts(e)) /\ \A s : Lasting(s)
  BY DEF daemonVars, Inv, Facts, DaemonTypes, Holds, Signed, Known, Coded, Alive, Lasts, Lasting

LEMMA QuietStep ==
  ASSUME Inv, NEW c \in Caller, UNCHANGED daemonVars, CallerTypes', Alone(c), Chosen(c)', Watched(c)'
  PROVE  Inv'
<1>1. life' = life /\ stalled' = stalled
  BY DEF daemonVars
<1>2. Known(row) /\ Known(st[c]) /\ Known(NoRow) /\ row \in Reads /\ st[c] \in Reads
  BY NoRowFacts DEF Inv, Facts, DaemonTypes, CallerTypes, Mind
<1>3. ASSUME NEW s \in Reads, Known(s), st'[c] = Use(pc'[c], s) PROVE Known(st[c])'
  BY <1>1, <1>3, UseFacts DEF Known, Alive
<1>4. Known(st[c])'
  BY <1>1, <1>2, <1>3 DEF Alone, Known, Alive
<1> QED
  BY <1>4, Undisturbed, CallerStep DEF Alone

\* Of nothing a caller keeps nothing.
LEMMA UseNoRow == \A place : Use(place, NoRow) = NoRow
  BY DEF Use, Startup, Heartbeat, NoRow

\* The end of a call.
LEMMA AnswerFacts ==
  ASSUME Inv, NEW c \in Caller, NEW ok \in BOOLEAN, Answer(c, ok)
  PROVE  /\ CallerTypes' /\ Alone(c) /\ Chosen(c)' /\ Watched(c)'
         /\ pc'[c] \in {"idle", "match", "bound"}
<1>1. pc'[c] \in {"idle", "match", "bound"} /\ (\A k \in Caller : k # c => pc'[k] = pc[k]) /\ pc' \in [Caller -> Places]
  BY DEF Answer, Inv, CallerTypes, Places
<1>2. again' \in [Caller -> BOOLEAN]
  BY DEF Answer, Inv, CallerTypes
<1>3. st' \in [Caller -> Reads] /\ st'[c] = NoRow /\ \A k \in Caller : k # c => st'[k] = st[k]
  BY UseNoRow, NoRowFacts DEF Answer, LookAt, Inv, CallerTypes
<1>4. /\ base' \in [Caller -> Daemon \cup {None, Lost}] /\ late' \in [Caller -> SUBSET Daemon]
      /\ flight' \in Caller \cup {None}
      /\ \A k \in Caller : k # c => base'[k] = base[k] /\ late'[k] = late[k]
  BY DEF Answer, Inv, CallerTypes
<1> QED
  BY <1>1, <1>2, <1>3, <1>4 DEF CallerTypes, Alone, Others, Same, Chosen, Watched, Waits

LEMMA AnswerInv ==
  ASSUME Inv, NEW c \in Caller, NEW ok \in BOOLEAN, Answer(c, ok), UNCHANGED daemonVars
  PROVE  Inv'
  BY AnswerFacts, QuietStep

\* A call goes on with nothing in mind.
LEMMA ForgetFacts ==
  ASSUME Inv, NEW c \in Caller, NEW from \in Places, NEW to \in Places \ {"takeover", "compare", "identify"},
         Forget(c, from, to), to \in {"wait", "await"} => from = "await"
  PROVE  CallerTypes' /\ Alone(c) /\ Chosen(c)' /\ (row' = row => Watched(c)') /\ pc'[c] = to
<1>1. /\ pc' = [pc EXCEPT ![c] = to] /\ st' = [st EXCEPT ![c] = NoRow] /\ UNCHANGED <<flight, again, base, late>>
      /\ pc[c] = from
  BY UseNoRow DEF Forget, Goto, LookAt
<1>2. CallerTypes' /\ st'[c] = NoRow /\ pc'[c] = to /\ Alone(c)
  BY <1>1, NoRowFacts DEF Inv, CallerTypes, Alone, Others, Same
<1>3. Chosen(c)'
  BY <1>2 DEF Chosen
<1>4. row' = row => Watched(c)'
  BY <1>1, <1>2 DEF Inv, CallerTypes, Mind, Watched, Waits, New, NoRow
<1> QED
  BY <1>2, <1>3, <1>4

LEMMA ForgetInv ==
  ASSUME Inv, NEW c \in Caller, NEW from \in Places, NEW to \in Places \ {"takeover", "compare", "identify"},
         Forget(c, from, to), to \in {"wait", "await"} => from = "await", UNCHANGED daemonVars
  PROVE  Inv'
  BY ForgetFacts, QuietStep DEF daemonVars

\* The steps between one look and the next.
LEMMA PaceInv ==
  ASSUME Inv, NEW c \in Caller,
         Start(c) \/ Enter(c) \/ Busy(c) \/ Hand(c) \/ Read(c) \/ Probe(c) \/ AwaitExit(c) \/ Bound(c)
  PROVE  Inv'
<1>1. UNCHANGED daemonVars /\ late' = late
  BY DEF Start, Enter, Busy, Hand, Read, Probe, AwaitExit, Bound
<1>2. /\ pc' \in [Caller -> Places] /\ pc'[c] \notin {"takeover", "compare", "identify", "wait", "await"}
      /\ \A k \in Caller : k # c => pc'[k] = pc[k]
  BY DEF Start, Enter, Busy, Hand, Read, Probe, AwaitExit, Bound, Goto, Inv, CallerTypes, Places
<1>3. st' = st \/ st' = [st EXCEPT ![c] = Use(pc'[c], row)] \/ st' = [st EXCEPT ![c] = NoRow]
  BY UseNoRow DEF Start, Enter, Busy, Hand, Read, Probe, AwaitExit, Bound, LookAt
<1>4. /\ st'[c] \in {st[c], NoRow} \/ st'[c] = Use(pc'[c], row)
      /\ st' \in [Caller -> Reads] /\ \A k \in Caller : k # c => st'[k] = st[k]
  <2>1. Use(pc'[c], row) \in Reads
    BY UseFacts DEF Inv, Facts, DaemonTypes
  <2> QED
    BY <1>3, <2>1, NoRowFacts DEF Inv, CallerTypes
<1>5. /\ base' \in [Caller -> Daemon \cup {None, Lost}] /\ \A k \in Caller : k # c => base'[k] = base[k]
  <2>1. Baselines \subseteq Daemon \cup {None, Lost}
    BY DEF Baselines, Inv, Facts, DaemonTypes, Reads
  <2> QED
    BY <2>1 DEF Start, Enter, Busy, Hand, Read, Probe, AwaitExit, Bound, Inv, CallerTypes
<1>6. flight' \in Caller \cup {None} /\ again' \in [Caller -> BOOLEAN]
  BY DEF Start, Enter, Busy, Hand, Read, Probe, AwaitExit, Bound, Acquire, Inv, CallerTypes
<1>7. CallerTypes' /\ Alone(c) /\ Chosen(c)' /\ Watched(c)'
  BY <1>1, <1>2, <1>4, <1>5, <1>6 DEF Inv, CallerTypes, Alone, Others, Same, Chosen, Watched, Waits
<1> QED
  BY <1>1, <1>7, QuietStep

LEMMA HandoffInv == ASSUME Inv, NEW c \in Caller, Handoff(c) PROVE Inv'
  BY AnswerInv, ForgetInv DEF Handoff, Places

LEMMA FastInv == ASSUME Inv, NEW c \in Caller, Fast(c) PROVE Inv'
<1>1. CASE Goto(c, "fast", "slow") /\ LookAt(c, st[c]) /\ UNCHANGED <<flight, again, base, late>> /\ UNCHANGED daemonVars
  <2>1. Use(pc'[c], st[c]) \in Reads
    BY UseFacts DEF Inv, CallerTypes
  <2>2. CallerTypes' /\ Alone(c) /\ Chosen(c)' /\ Watched(c)'
    BY <1>1, <2>1 DEF Goto, LookAt, Inv, CallerTypes, Places, Alone, Others, Same, Chosen, Watched, Waits
  <2> QED
    BY <1>1, <2>2, QuietStep
<1> QED
  BY <1>1, AnswerInv DEF Fast

\* A takeover is planned only of a state with an old heartbeat.
LEMMA SlowInv == ASSUME Inv, NEW c \in Caller, Slow(c) PROVE Inv'
<1>1. PICK held \in BOOLEAN : Goto(c, "slow", Plan(held, st[c]))
  BY DEF Slow, Held
<1>2. /\ Plan(held, st[c]) \in {"spawn", "takeover", "unlock", "probe"}
      /\ Plan(held, st[c]) = "takeover" => ~st[c].fresh
  BY DEF Plan, Inv, CallerTypes, Reads
<1>3. /\ pc' \in [Caller -> Places] /\ pc'[c] \in {"spawn", "takeover", "unlock", "probe"}
      /\ pc'[c] = "takeover" => ~st[c].fresh
      /\ \A k \in Caller : k # c => pc'[k] = pc[k]
  BY <1>1, <1>2 DEF Goto, Inv, CallerTypes, Places
<1>4. st' = [st EXCEPT ![c] = Use(pc'[c], st[c])] /\ UNCHANGED <<daemonVars, flight, again, base, late>>
  BY DEF Slow, LookAt
<1>5. Use(pc'[c], st[c]) \in Reads /\ (pc'[c] = "takeover" => Use(pc'[c], st[c]).fresh = st[c].fresh)
  BY UseFacts DEF Inv, CallerTypes
<1>6. CallerTypes' /\ Alone(c) /\ Chosen(c)' /\ Watched(c)'
  BY <1>3, <1>4, <1>5 DEF Inv, CallerTypes, Alone, Others, Same, Chosen, Watched, Waits
<1> QED
  BY <1>4, <1>6, QuietStep

LEMMA ProbingInv == ASSUME Inv, NEW c \in Caller, Probing(c) PROVE Inv'
  BY AnswerInv, ForgetInv DEF Probing, Places

LEMMA WaitInv == ASSUME Inv, NEW c \in Caller, Wait(c) PROVE Inv'
<1>1. /\ pc[c] = "wait" /\ pc' = [pc EXCEPT ![c] = "await"] /\ st' = [st EXCEPT ![c] = Use(pc'[c], row)]
      /\ UNCHANGED <<daemonVars, flight, again, base, late>> /\ row' = row
  BY DEF Wait, Goto, LookAt, daemonVars
<1>2. pc'[c] = "await" /\ st'[c] = Use(pc'[c], row)
  BY <1>1 DEF Inv, CallerTypes
<1>3. /\ st'[c] \in Reads
      /\ (st'[c].by = row.by /\ st'[c].phase = row.phase) \/ st'[c].phase # "running"
  BY <1>2, UseFacts DEF Inv, Facts, DaemonTypes
<1>4. CallerTypes' /\ Alone(c) /\ Chosen(c)'
  BY <1>1, <1>2, <1>3 DEF Inv, CallerTypes, Places, Alone, Others, Same, Chosen
<1>5. Watched(c)'
  BY <1>1, <1>2, <1>3 DEF Inv, Mind, Watched, Waits, New
<1> QED
  BY <1>1, <1>4, <1>5, QuietStep

\* A read that goes on.
LEMMA SelectInv == ASSUME Inv, NEW c \in Caller, Select(c) PROVE Inv'
<1>1. PICK i \in 2 .. 6 : /\ i \in Selects(pc[c]) /\ UNCHANGED <<daemonVars, flight, pc, again, base, late>>
                          /\ st' = [st EXCEPT ![c] = Use(pc'[c], Later(st[c], i))]
  <2>1. Selects(pc[c]) \subseteq 2 .. 6
    BY DEF Selects
  <2> QED
    BY <2>1 DEF Select, LookAt
<1>2. pc[c] \in {"fast", "handoff", "probing", "await", "compare"} /\ pc' = pc
  BY <1>1 DEF Selects
<1> DEFINE t == Later(st[c], i)
<1>3. st[c] \in Reads /\ Known(st[c])
  BY DEF Inv, CallerTypes, Mind
<1>4. t \in Reads /\ Known(t) /\ (Coded(st[c]) => Coded(t))
      /\ \/ t.phase = st[c].phase /\ t.by = st[c].by
         \/ t.phase = row.phase /\ t.by = row.by
  BY <1>3, LaterFacts
<1>5. st'[c] = Use(pc[c], t)
  BY <1>1, <1>2 DEF Inv, CallerTypes
<1> HIDE DEF t
<1>6. CallerTypes' /\ Others(c)
  <2>1. Use(pc'[c], t) \in Reads
    BY <1>4, UseFacts
  <2> QED
    BY <1>1, <1>2, <2>1 DEF t, Inv, CallerTypes, Others, Same
<1>7. life' = life /\ code' = code /\ stalled' = stalled /\ row' = row /\ base' = base /\ late' = late
  BY <1>1 DEF daemonVars
<1>8. Known(st[c])'
  BY <1>4, <1>5, <1>7, UseFacts DEF Known, Alive
<1>9. Chosen(c)'
  <2>1. pc[c] = "compare" => Coded(t)
    BY <1>4 DEF Inv, Mind, Chosen
  <2> QED
    BY <1>2, <1>4, <1>5, <1>7, <2>1, UseFacts DEF Chosen, Coded, Alive
<1>10. Watched(c)'
  BY <1>2, <1>4, <1>5, <1>7, UseFacts DEF Inv, Mind, Watched, Waits, New
<1> QED
  BY <1>1, <1>6, <1>7, <1>8, <1>9, <1>10, Undisturbed, CallerStep

LEMMA AwaitInv == ASSUME Inv, NEW c \in Caller, Await(c) PROVE Inv'
  BY AnswerInv, ForgetInv DEF Await, Places

LEMMA LeaveInv == ASSUME Inv, NEW c \in Caller, GiveUp(c) \/ Killed(c) PROVE Inv'
  BY AnswerInv DEF GiveUp, Killed

\* The process a state names is asked to stop, or dies of it.
LEMMA SigtermFacts ==
  ASSUME Inv, NEW d \in Daemon, Sigterm(d), row' = row
  PROVE  Facts' /\ \A e \in Daemon : Lasts(e)
<1>1. CASE life[d] \in {"loop", "told", "leaving"}
  <2>1. /\ life' = [life EXCEPT ![d] = IF @ = "loop" THEN "told" ELSE @]
        /\ UNCHANGED <<lock, code, stalled>>
    BY <1>1 DEF Sigterm
  <2>2. /\ life' \in [Daemon -> Lives] /\ life'[d] \in {"told", "leaving"}
        /\ \A e \in Daemon : e # d => life'[e] = life[e]
    BY <1>1, <2>1 DEF Inv, Facts, DaemonTypes, Lives
  <2>3. DaemonTypes' /\ (\A e \in Daemon : Lasts(e)) /\ Holds' /\ Signed'
    BY <1>1, <2>1, <2>2 DEF Inv, Facts, DaemonTypes, Lasts, Early, Holds, Signed
  <2> QED
    BY <2>3, RowStays DEF Facts
<1>2. CASE life[d] \notin {"loop", "told", "leaving"}
  BY <1>2, DieFacts DEF Sigterm
<1> QED
  BY <1>1, <1>2

LEMMA KillInv ==
  ASSUME Inv, NEW c \in Caller, NEW from \in {"takeover", "identify"}, NEW to \in {"exit", "quit"},
         Alive(st[c].proc), Forget(c, from, to), Sigterm(st[c].proc), row' = row
  PROVE  Inv'
<1>1. PICK d \in Daemon : d = st[c].proc
  BY DEF Inv, CallerTypes, Reads, Alive
<1>2. Facts' /\ \A e \in Daemon : Lasts(e)
  BY <1>1, SigtermFacts
<1>3. CallerTypes' /\ Alone(c) /\ Chosen(c)' /\ Watched(c)' /\ st'[c] = NoRow
  <2>1. from \in Places /\ to \in Places \ {"takeover", "compare", "identify"} /\ to \notin {"wait", "await"}
    BY DEF Places
  <2>2. st'[c] = NoRow
    BY UseNoRow DEF Forget, LookAt, Inv, CallerTypes
  <2> QED
    BY <2>1, <2>2, ForgetFacts
<1>4. Known(st[c])'
  BY <1>3 DEF NoRow, Known, Alive
<1>5. \A k \in Caller : Lasting(st[k])
  BY <1>2 DEF Inv, CallerTypes, Reads, Lasting
<1> QED
  BY <1>2, <1>3, <1>4, <1>5, CallerStep DEF Alone

LEMMA TakeoverInv == ASSUME Inv, NEW c \in Caller, Takeover(c) PROVE Inv'
<1>1. CASE Alive(st[c].proc) /\ Forget(c, "takeover", "exit") /\ Sigterm(st[c].proc) /\ UNCHANGED row
  BY <1>1, KillInv
<1> QED
  BY <1>1, AnswerInv DEF Takeover

LEMMA IdentifyInv == ASSUME Inv, NEW c \in Caller, Identify(c) PROVE Inv'
<1>1. CASE Alive(st[c].proc) /\ Forget(c, "identify", "quit") /\ Sigterm(st[c].proc) /\ UNCHANGED row
  BY <1>1, KillInv
<1>2. CASE Forget(c, "identify", "gone") /\ UNCHANGED daemonVars
  BY <1>2, ForgetInv DEF Places
<1> QED
  BY <1>1, <1>2 DEF Identify

\* A new process takes a number that neither the row nor a caller remembers.
LEMMA SpawnInv == ASSUME Inv, NEW c \in Caller, Spawn(c) PROVE Inv'
<1>1. CASE Free = {}
  BY <1>1, AnswerInv DEF Spawn
<1>2. CASE Free # {}
  <2>1. PICK d \in Free : d = Min(Free)
    BY <1>2, FreeIsFree
  <2>2. PICK g \in Baselines :
           /\ pc' = [pc EXCEPT ![c] = "wait"] /\ base' = [base EXCEPT ![c] = g]
           /\ st' = [st EXCEPT ![c] = NoRow] /\ life' = [life EXCEPT ![d] = "spawned"]
           /\ code' = [code EXCEPT ![d] = Own[c]]
           /\ UNCHANGED <<lock, row, stalled, flight, again, late>>
    BY <1>2, <2>1, UseNoRow DEF Spawn, Goto, LookAt
  <2>3. /\ d \in Daemon /\ life[d] = "none" /\ d # row.gen /\ Own[c] \in Version
        /\ \A k \in Caller : d # st[k].proc /\ d # st[k].beat
    BY CallerAssumption DEF Free
  <2>4. /\ row.beat = row.gen /\ row.proc = row.gen /\ row.by = row.gen
        /\ row.gen \in Daemon \cup {None} /\ g \in {row.gen, Lost}
        /\ \A k \in Caller : st[k].proc \in Daemon \cup {None} /\ st[k].beat \in Daemon \cup {None}
    BY DEF Inv, Facts, DaemonTypes, CallerTypes, Reads, Signed, Baselines
  <2>5. DaemonTypes' /\ \A e \in Daemon \ {d} : Lasts(e)
    BY <2>2, <2>3 DEF Inv, Facts, DaemonTypes, Lives, Lasts
  <2>6. Holds' /\ Signed'
    BY <2>2, <2>3 DEF Inv, Facts, DaemonTypes, Holds, Signed, Early
  <2>7. Known(row)' /\ Coded(row)'
    BY <2>2, <2>3, <2>4, <2>5 DEF Inv, Facts, Known, Coded, Alive, Lasts
  <2>8. Facts'
    BY <2>5, <2>6, <2>7 DEF Facts
  <2>9. CallerTypes' /\ Others(c) /\ Chosen(c)' /\ pc'[c] = "wait" /\ st'[c] = NoRow
    BY <2>2, <2>4, NoRowFacts DEF Inv, CallerTypes, Places, Others, Same, Chosen
  <2>10. Watched(c)'
    BY <2>2, <2>4, <2>9 DEF Inv, CallerTypes, Watched, Waits, New
  <2>11. Known(st[c])' /\ \A k \in Caller : Lasting(st[k])
    BY <2>3, <2>4, <2>5, <2>9 DEF Known, Alive, NoRow, Lasting
  <2> QED
    BY <2>2, <2>8, <2>9, <2>10, <2>11, CallerStep
<1> QED
  BY <1>1, <1>2

\* A second ensure() for the code's sake.
LEMMA AgainInv ==
  ASSUME Inv, NEW c \in Caller, NEW from \in Places, EnsureAgain(c, from)
  PROVE  Inv'
<1>1. /\ pc' = [pc EXCEPT ![c] = "enter"] /\ again' = [again EXCEPT ![c] = TRUE]
      /\ st' = [st EXCEPT ![c] = NoRow] /\ UNCHANGED <<daemonVars, flight, base, late>>
  BY UseNoRow DEF EnsureAgain, Goto, LookAt
<1>2. CallerTypes' /\ Alone(c) /\ Chosen(c)' /\ Watched(c)'
  BY <1>1, NoRowFacts DEF Inv, CallerTypes, Places, Alone, Others, Same, Chosen, Watched, Waits
<1> QED
  BY <1>1, <1>2, QuietStep

LEMMA MatchInv == ASSUME Inv, NEW c \in Caller, Match(c) PROVE Inv'
<1>1. CASE Goto(c, "match", "compare") /\ LookAt(c, row) /\ UNCHANGED <<daemonVars, flight, again, base, late>>
  <2>1. pc' = [pc EXCEPT ![c] = "compare"] /\ st' = [st EXCEPT ![c] = Use("compare", row)] /\ pc'[c] = "compare"
    BY <1>1 DEF Goto, LookAt, Inv, CallerTypes
  <2>2. Use("compare", row) \in Reads /\ Use("compare", row).proc = row.proc /\ Use("compare", row).code = row.code
    BY UseFacts DEF Inv, Facts, DaemonTypes
  <2>3. CallerTypes' /\ Alone(c) /\ Watched(c)'
    BY <1>1, <2>1, <2>2 DEF Inv, CallerTypes, Places, Alone, Others, Same, Watched, Waits
  <2>4. Chosen(c)'
    BY <1>1, <2>1, <2>2 DEF Inv, Facts, CallerTypes, Chosen, Coded, Alive, daemonVars
  <2> QED
    BY <1>1, <2>3, <2>4, QuietStep
<1>2. CASE Goto(c, "match", "gone") /\ LookAt(c, NoRow) /\ UNCHANGED <<daemonVars, flight, again, base, late>>
  <2>1. Forget(c, "match", "gone") /\ UNCHANGED daemonVars
    BY <1>2 DEF Forget
  <2> QED
    BY <2>1, ForgetInv DEF Places
<1> QED
  BY <1>1, <1>2, AgainInv DEF Match, Places

LEMMA CompareInv == ASSUME Inv, NEW c \in Caller, Compare(c) PROVE Inv'
<1>1. CASE Goto(c, "compare", "bound") /\ LookAt(c, NoRow) /\ UNCHANGED <<daemonVars, flight, again, base, late>>
  <2>1. Forget(c, "compare", "bound") /\ UNCHANGED daemonVars
    BY <1>1 DEF Forget
  <2> QED
    BY <2>1, ForgetInv DEF Places
<1>2. CASE st[c].code # Own[c] /\ Goto(c, "compare", "identify") /\ UNCHANGED <<st, daemonVars, flight, again, base, late>>
  <2>1. CallerTypes' /\ Alone(c) /\ Watched(c)'
    BY <1>2 DEF Goto, Inv, CallerTypes, Places, Alone, Others, Same, Watched, Waits
  <2>2. Chosen(c)'
    BY <1>2 DEF Goto, Inv, Mind, CallerTypes, Chosen, Coded, Alive, daemonVars
  <2> QED
    BY <1>2, <2>1, <2>2, QuietStep
<1> QED
  BY <1>1, <1>2 DEF Compare

LEMMA QuitInv == ASSUME Inv, NEW c \in Caller, Quit(c) PROVE Inv'
  BY AgainInv, AnswerInv DEF Quit, Places

-----------------------------------------------------------------------------
(* The theorems.                                                             *)

LEMMA Next_Inv == Inv /\ [Next]_vars => Inv'
<1> SUFFICES ASSUME Inv, [Next]_vars PROVE Inv'
  OBVIOUS
<1>1. CASE UNCHANGED vars
  BY <1>1 DEF vars, daemonVars, callerVars, Inv, Facts, DaemonTypes, CallerTypes, Holds, Signed, Known,
     Coded, Alive, Mind, Chosen, Watched, Waits, New
<1>2. ASSUME NEW d \in Daemon, Starting(d) PROVE Inv'
  BY <1>2, LockInv, Dies, RecordIdentityInv, ConcludeInv, ServingInv DEF Starting
<1>3. ASSUME NEW d \in Daemon, Running(d) PROVE Inv'
  BY <1>3, Dies, ServingInv DEF Running
<1>4. ASSUME NEW c \in Caller, Ensuring(c) PROVE Inv'
  BY <1>4, PaceInv, HandoffInv, FastInv, SlowInv, ProbingInv, TakeoverInv, SpawnInv, WaitInv,
     AwaitInv, LeaveInv DEF Ensuring
<1>5. ASSUME NEW c \in Caller, Reconcile(c) PROVE Inv'
  BY <1>5, MatchInv, CompareInv, IdentifyInv, QuitInv, PaceInv DEF Reconcile
<1>6. ASSUME NEW c \in Caller, Start(c) \/ Select(c) \/ Killed(c) PROVE Inv'
  BY <1>6, PaceInv, SelectInv, LeaveInv
<1>7. CASE Silence
  BY <1>7, SilenceInv
<1> QED
  BY <1>1, <1>2, <1>3, <1>4, <1>5, <1>6, <1>7 DEF Next

LEMMA AlwaysInv == Spec => []Inv
  BY InitInv, Next_Inv, PTL DEF Spec

\* One daemon holds the lock and signs the row, whoever brings up or stops it
\* and whatever it dies of (daemon.py acquires bridge.lock before it publishes).
THEOREM OneDaemonHolds == Spec => []TypeOK
<1>1. Inv => TypeOK
  BY DEF Inv, Facts, DaemonTypes, CallerTypes, Holds, TypeOK
<1> QED
  BY <1>1, AlwaysInv, PTL

\* The step on which a caller goes from a takeover to the wait for the exit is its
\* own kill, and so is the one of bind.
LEMMA KillerIs ==
  ASSUME Inv, [Next]_vars, NEW c \in Caller
  PROVE  /\ pc[c] = "takeover" /\ pc'[c] = "exit" => Alive(st[c].proc)
         /\ pc[c] = "identify" /\ pc'[c] = "quit" => Alive(st[c].proc)
         /\ pc[c] = "await" /\ pc'[c] \in {"match", "bound"} =>
              c \notin Watcher /\ st[c].gen # base[c] /\ st[c].by = st[c].gen /\ st[c].phase = "running"
<1>1. pc \in [Caller -> Places]
  BY DEF Inv, CallerTypes
<1>2. CASE UNCHANGED pc
  BY <1>2, <1>1
<1>3. ASSUME NEW k \in Caller, k # c, Start(k) \/ Ensuring(k) \/ Reconcile(k) \/ Select(k) \/ Killed(k) PROVE pc'[c] = pc[c]
  <2>1. \A ok \in BOOLEAN : Answer(k, ok) => pc'[c] = pc[c]
    BY <1>1, <1>3 DEF Answer
  <2>2. \A from, to : Goto(k, from, to) => pc'[c] = pc[c]
    BY <1>1, <1>3 DEF Goto
  <2>3. CASE Start(k) \/ Killed(k) \/ GiveUp(k) \/ Select(k)
    BY <2>1, <2>2, <2>3 DEF Start, Killed, GiveUp, Select
  <2>4. CASE Enter(k) \/ Busy(k) \/ Hand(k) \/ Read(k) \/ Probe(k) \/ AwaitExit(k) \/ Wait(k) \/ Slow(k)
    BY <2>2, <2>4 DEF Enter, Busy, Hand, Read, Probe, AwaitExit, Wait, Slow
  <2>5. CASE Handoff(k) \/ Fast(k) \/ Probing(k) \/ Await(k) \/ Takeover(k) \/ Spawn(k)
    BY <2>1, <2>2, <2>5 DEF Handoff, Fast, Probing, Await, Takeover, Spawn, Forget
  <2>6. CASE Reconcile(k)
    BY <2>1, <2>2, <2>6 DEF Reconcile, Match, Compare, Identify, Quit, Bound, EnsureAgain, Forget
  <2> QED
    BY <1>3, <2>3, <2>4, <2>5, <2>6 DEF Ensuring
<1>4. ASSUME NEW d \in Daemon, Starting(d) \/ Running(d) \/ Silence PROVE UNCHANGED pc
  BY <1>4 DEF Starting, Running, Silence, Lock, Yield, ConfigRefused, RecordIdentity, Conclude, Refuse, Serve,
     Beat, Stop, Exit, Crash, callerVars
<1>5. ASSUME pc[c] = "takeover", pc'[c] = "exit", Start(c) \/ Ensuring(c) \/ Reconcile(c) \/ Killed(c)
      PROVE  Alive(st[c].proc)
  <2>1. \A ok \in BOOLEAN : Answer(c, ok) => pc'[c] # "exit"
    BY AnswerFacts
  <2>2. CASE Takeover(c)
    BY <1>5, <2>1, <2>2 DEF Takeover
  <2>3. CASE Killed(c) \/ GiveUp(c)
    BY <1>5, <2>1, <2>3 DEF Killed, GiveUp
  <2> QED
    BY <1>5, <2>2, <2>3 DEF Start, Ensuring, Reconcile, Goto, Forget, EnsureAgain, Enter, Busy, Hand, Handoff, Read, Fast,
       Slow, Probe, Probing, AwaitExit, Spawn, Wait, Await, Match, Compare, Identify, Quit, Bound
<1>6. ASSUME pc[c] = "identify", pc'[c] = "quit", Start(c) \/ Ensuring(c) \/ Reconcile(c) \/ Killed(c)
      PROVE  Alive(st[c].proc)
  <2>1. \A ok \in BOOLEAN : Answer(c, ok) => pc'[c] # "quit"
    BY AnswerFacts
  <2>2. CASE Identify(c)
    <3>1. ~Forget(c, "identify", "gone")
      BY <1>1, <1>6 DEF Forget, Goto
    <3> QED
      BY <2>2, <3>1 DEF Identify
  <2>3. CASE Killed(c) \/ GiveUp(c)
    BY <1>6, <2>1, <2>3 DEF Killed, GiveUp
  <2> QED
    BY <1>6, <2>2, <2>3 DEF Start, Ensuring, Reconcile, Goto, Forget, EnsureAgain, Enter, Busy, Hand, Handoff, Read, Fast,
       Slow, Probe, Probing, AwaitExit, Spawn, Wait, Await, Match, Compare, Takeover, Quit, Bound
<1>7. ASSUME pc[c] = "await", pc'[c] \in {"match", "bound"}, Start(c) \/ Ensuring(c) \/ Reconcile(c) \/ Killed(c)
      PROVE  c \notin Watcher /\ st[c].gen # base[c] /\ st[c].by = st[c].gen /\ st[c].phase = "running"
  <2>1. (Answer(c, FALSE) => pc'[c] = "idle") /\ (Answer(c, TRUE) /\ c \in Watcher => pc'[c] = "idle")
    BY <1>1 DEF Answer
  <2>2. CASE Await(c)
    <3>1. ~Forget(c, "await", "wait")
      BY <1>1, <1>7 DEF Forget, Goto
    <3> QED
      BY <1>7, <2>1, <2>2, <3>1 DEF Await, IsNew, Ready
  <2>3. CASE Killed(c) \/ GiveUp(c)
    BY <1>7, <2>1, <2>3 DEF Killed, GiveUp
  <2> QED
    BY <1>7, <2>2, <2>3 DEF Start, Ensuring, Reconcile, Goto, Forget, EnsureAgain, Enter, Busy, Hand, Handoff, Read, Fast,
       Slow, Probe, Probing, AwaitExit, Spawn, Wait, Takeover, Match, Compare, Identify, Quit, Bound
<1>8. CASE Silence
  BY <1>8, <1>2 DEF Silence, callerVars
<1>9. CASE UNCHANGED vars
  BY <1>9, <1>2 DEF vars, callerVars
<1>10. ASSUME NEW k \in Caller, Start(k) \/ Ensuring(k) \/ Reconcile(k) \/ Select(k) \/ Killed(k)
       PROVE  k = c \/ pc'[c] = pc[c]
  BY <1>3, <1>10
<1>11. CASE Select(c)
  BY <1>2, <1>11 DEF Select
<1> QED
  BY <1>2, <1>4, <1>5, <1>6, <1>7, <1>8, <1>9, <1>10, <1>11 DEF Next

\* However a caller's state was put together, and however long ago, a kill hits the daemon
\* that holds the lock and has signed the state, and for the reason the caller has: its old
\* heartbeat, unless the one that was read is a predecessor's, or its code (ctl.py,
\* _takeover_and_restart and reconcile_code_identity).
THEOREM NoHastyKill == Spec => KillIsJustified
<1>1. ASSUME Inv, [Next]_vars
      PROVE  \A c \in Caller :
               /\ pc[c] = "takeover" /\ pc'[c] = "exit" =>
                    lock = st[c].proc /\ (st[c].proc \in stalled \/ st[c].beat # st[c].proc)
               /\ pc[c] = "identify" /\ pc'[c] = "quit" =>
                    lock = st[c].proc /\ code[st[c].proc] # Own[c]
  <2> TAKE c \in Caller
  <2>1. Known(st[c]) /\ Chosen(c) /\ st[c].proc \in Daemon \cup {None}
    BY <1>1 DEF Inv, Mind, CallerTypes, Reads
  <2>2. Alive(st[c].proc) => lock = st[c].proc
    BY <1>1, <2>1 DEF Inv, Facts, Holds, Known, Alive, Early
  <2> QED
    BY <1>1, <2>1, <2>2, KillerIs DEF Known, Chosen, Coded
<1> QED
  BY <1>1, AlwaysInv, PTL DEF Spec, KillIsJustified

\* What a call reports as started was started while it waited, if the generation before it
\* could be read (ctl.py, ensure's baseline generation).
THEOREM StartedMeansStarted == Spec => StartedIsNew
<1>1. ASSUME Inv, [Next]_vars
      PROVE  \A c \in Caller : pc[c] = "await" /\ pc'[c] \in {"match", "bound"} /\ base[c] # Lost =>
                                 st[c].gen \in late[c]
  BY <1>1, KillerIs DEF Inv, Mind, Watched, Waits, New
<1> QED
  BY <1>1, AlwaysInv, PTL DEF Spec, StartedIsNew

=============================================================================
