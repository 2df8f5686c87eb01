---------------------------- MODULE InboundProofs ----------------------------
(***************************************************************************)
(* Inbound's safety, for any bindings, messages, events and clicks, any    *)
(* caps and whatever the environment does.                                 *)
(*                                                                         *)
(* The argument: an event is pinned to a binding that was live when it was *)
(* staged, a row keeps its first pin, and a row past the gate has a        *)
(* binding that was active, so the end of that binding finds everything    *)
(* that is still open.  The row, its approval and what was told about it   *)
(* move together, also when a download has them waiting in between.        *)
(***************************************************************************)
EXTENDS Inbound, TLAPS

\* What Slack will not send again is in the database, staged or further.
Staged ==
  /\ \A e \in Event : wire[e] = "acked" => event[e] # "none"
  /\ \A e \in hand : event[e] # "none"
  /\ \A e \in Event : event[e] \in {"none", "staged"} => tries[e] < DrainMax

\* An event is pinned to a binding that was live, and its row with it.
Pinned ==
  /\ \A e \in Event : pin[e] # None => pin[e] \in witness[MessageOf(e)]
  /\ \A m \in Message : home[m] # None => home[m] \in witness[m]

\* Past the gate: the row's own binding has been active.
Opened(m) == At(m) \in {"active"} \cup Terminal

Gated(m) ==
  /\ inbox[m] = "materializing" => Opened(m) /\ reason[m] # "none"
  /\ pending[m] # "none" => /\ Opened(m) /\ full[m] = shown[m]
                            /\ inbox[m] \notin {"none", "received", "waiting_binding"}
  /\ reason[m] = "owner" => m \in owned
  /\ inbox[m] = "materializing" => (reason[m] = "approved" <=> pending[m] = "approved")

\* There is a delivery exactly when the row says so, and who let the message in
\* had the right to.
Delivered(m) ==
  /\ delivery[m] # "no" <=> inbox[m] = "enqueued"
  /\ delivery[m] # "no" => home[m] # None
  /\ delivery[m] = "owner" => m \in owned
  /\ delivery[m] = "approved" => pending[m] = "approved"

Story(m) == Gated(m) /\ Delivered(m) /\ Outcome(m) /\ Settled(m)

-----------------------------------------------------------------------------
(* Types.                                                                    *)

States ==
  {"none", "received", "ignored_not_mentioned", "waiting_binding", "awaiting_approval",
   "materializing", "rejected", "expired", "enqueued", "undeliverable", "failed",
   "unsupported", "unbound", "session_closed"}
Grants   == {"none", "owner", "allowlist", "approved"}
Outcomes == {"approved_pending_files", "delivered", "rejected", "expired",
             "attachment_failed", "closed_undelivered"}

WhoOK ==
  /\ binding \in [Binding -> {"none", "starting", "active", "unbound", "session_closed"}]
  /\ trusted \in BOOLEAN /\ owned \subseteq PerhapsOwner /\ silent \subseteq PerhapsSilent
SlackOK == wire \in [Event -> {"none", "sent", "acked"}] /\ hand \subseteq Event
StageOK ==
  /\ event \in [Event -> {"none", "staged", "consumed", "quarantined"}]
  /\ pin \in [Event -> Binding \cup {None}] /\ tries \in [Event -> 0..DrainMax]
  /\ witness \in [Message -> SUBSET Binding]
RowOK ==
  /\ inbox \in [Message -> States] /\ home \in [Message -> Binding \cup {None}]
  /\ full \in [Message -> BOOLEAN] /\ reason \in [Message -> Grants]
VerdictOK ==
  /\ pending \in [Message -> {"none", "pending", "approved", "rejected", "expired"}]
  /\ told \in [Message -> SUBSET Outcomes] /\ shown \in [Message -> BOOLEAN]
  /\ delivery \in [Message -> {"no", "owner", "allowlist", "approved"}]
LoadOK == loading \in Message \cup {None}

Types == WhoOK /\ SlackOK /\ StageOK /\ RowOK /\ VerdictOK /\ LoadOK

Inv == Types /\ Staged /\ Pinned /\ \A m \in Message : Story(m)

LEMMA TypesSay == Types => TypeOK
  BY DEF Types, WhoOK, SlackOK, StageOK, RowOK, VerdictOK, LoadOK, TypeOK, States, InboxStates,
     Terminal, Grants, Outcomes

LEMMA MessageOfEvent ==
  ASSUME NEW e \in Event
  PROVE  MessageOf(e) \in Message
  BY DEF Event, Texts, Clicks, MessageOf

LEMMA InvInit == Init => Inv
<1> SUFFICES ASSUME Init PROVE Inv
  OBVIOUS
<1>1. Types
  <2>1. WhoOK /\ SlackOK /\ LoadOK
    BY DEF Init, WhoOK, SlackOK, LoadOK
  <2>2. StageOK
    BY Shape DEF Init, StageOK
  <2>3. RowOK /\ VerdictOK
    BY DEF Init, RowOK, VerdictOK, States, Grants, Outcomes
  <2> QED
    BY <2>1, <2>2, <2>3 DEF Types
<1>2. Staged
  BY Shape DEF Init, Staged
<1>3. Pinned
  BY DEF Init, Pinned
<1>4. ASSUME NEW m \in Message PROVE Story(m)
  BY DEF Init, Story, Gated, Delivered, Outcome, Settled
<1> QED
  BY <1>1, <1>2, <1>3, <1>4 DEF Inv

LEMMA CurrentIsLive == Current # None => Current \in LiveNow
  BY DEF Current

LEMMA CurrentTypes == Current \in Binding \cup {None}
  BY DEF Current, LiveNow

LEMMA ConsumerTypes ==
  ASSUME Types, Staged, NEW e \in Event, Stage(e) \/ Ack(e) \/ AckLost(e) \/ DrainError(e)
  PROVE  Types'
<1>1. WhoOK' /\ RowOK' /\ VerdictOK' /\ LoadOK'
  BY DEF Types, WhoOK, RowOK, VerdictOK, LoadOK, Stage, Ack, AckLost, DrainError, who, row, verdict
<1>2. SlackOK'
  BY DEF Types, SlackOK, Stage, Ack, AckLost, DrainError, slack
<1>3. StageOK'
  <2>1. CASE Stage(e)
    <3>1. CASE Insert(e)
      <4>1. witness' \in [Message -> SUBSET Binding]
        BY <3>1 DEF Insert, Types, StageOK, LiveNow
      <4> QED
        BY <3>1, <4>1, CurrentTypes DEF Insert, Types, StageOK
    <3>2. CASE UNCHANGED <<stage, witness>>
      BY <3>2 DEF stage, Types, StageOK
    <3> QED
      BY <2>1, <3>1, <3>2 DEF Stage
  <2>2. CASE Ack(e) \/ AckLost(e)
    BY <2>2 DEF Ack, AckLost, stage, Types, StageOK
  <2>3. CASE DrainError(e)
    <3>1. tries[e] \in 0..DrainMax /\ tries[e] < DrainMax /\ DrainMax \in Nat
      BY <2>3, Shape DEF DrainError, Due, Staged, Types, StageOK
    <3>2. tries[e] + 1 \in 0..DrainMax
      BY <3>1
    <3>3. tries' \in [Event -> 0..DrainMax]
      BY <2>3, <3>2 DEF DrainError, Types, StageOK
    <3>4. event' \in [Event -> {"none", "staged", "consumed", "quarantined"}]
      BY <2>3 DEF DrainError, Types, StageOK
    <3> QED
      BY <2>3, <3>3, <3>4 DEF DrainError, Types, StageOK
  <2> QED
    BY <2>1, <2>2, <2>3
<1> QED
  BY <1>1, <1>2, <1>3 DEF Types

LEMMA DrainTypes == ASSUME Types, NEW e \in Event, Ingest(e) \/ Click(e) PROVE Types'
<1>1. StageOK'
  BY DEF Types, StageOK, Ingest, Click, Consume
<1>2. WhoOK' /\ SlackOK' /\ LoadOK'
  BY DEF Types, WhoOK, SlackOK, LoadOK, Ingest, Click, who, slack
<1>3. RowOK'
  <2>1. CASE Ingest(e)
    <3>1. inbox' \in [Message -> States] /\ reason' = reason
      BY <2>1 DEF Types, RowOK, Ingest, States
    <3>2. home' \in [Message -> Binding \cup {None}]
      BY <2>1 DEF Types, RowOK, StageOK, Ingest, Origin
    <3>3. full' \in [Message -> BOOLEAN]
      BY <2>1 DEF Types, RowOK, Ingest
    <3> QED
      BY <3>1, <3>2, <3>3 DEF Types, RowOK
  <2>2. CASE Click(e)
    BY <2>2 DEF Types, RowOK, Click, Conclude, States, Grants
  <2> QED
    BY <2>1, <2>2
<1>4. VerdictOK'
  <2>1. CASE Ingest(e)
    BY <2>1 DEF Types, VerdictOK, Ingest, verdict
  <2>2. CASE Click(e)
    <3>1. pending' \in [Message -> {"none", "pending", "approved", "rejected", "expired"}]
      BY <2>2 DEF Types, VerdictOK, Click
    <3>2. told' \in [Message -> SUBSET Outcomes]
      BY <2>2 DEF Types, VerdictOK, Click, Conclude, Outcomes
    <3>3. delivery' \in [Message -> {"no", "owner", "allowlist", "approved"}]
      BY <2>2 DEF Types, VerdictOK, Click
    <3> QED
      BY <2>2, <3>1, <3>2, <3>3 DEF Types, VerdictOK, Click
  <2> QED
    BY <2>1, <2>2
<1> QED
  BY <1>1, <1>2, <1>3, <1>4 DEF Types

LEMMA AtTypes ==
  ASSUME WhoOK, RowOK, NEW m \in Message
  PROVE  At(m) \in {"none", "starting", "active", "unbound", "session_closed"}
  BY DEF At, WhoOK, RowOK

LEMMA GateTypes ==
  ASSUME Types, NEW m \in Message, Gate(m), UNCHANGED <<home, full>>
  PROVE  RowOK' /\ VerdictOK'
<1>1. ASSUME NEW by \in {"owner", "allowlist"}, LetIn(m, by) PROVE RowOK' /\ VerdictOK'
  BY <1>1 DEF LetIn, Types, RowOK, VerdictOK, verdict, States, Grants
<1>2. CASE OverQuota(m)
  BY <1>2 DEF OverQuota, Types, RowOK, VerdictOK, verdict, States
<1>3. CASE Ask(m)
  BY <1>3 DEF Ask, Types, RowOK, VerdictOK, States
<1>4. CASE Unsupported(m)
  BY <1>4 DEF Unsupported, Become, Types, RowOK, VerdictOK, verdict, States
<1> QED
  BY <1>1, <1>2, <1>3, <1>4 DEF Gate

LEMMA RouteTypes == ASSUME Types, NEW m \in Message, Route(m) PROVE Types'
<1>1. ASSUME NEW state \in States, Become(m, state), UNCHANGED <<home, full>> PROVE RowOK' /\ VerdictOK'
  BY <1>1 DEF Become, Types, RowOK, VerdictOK, verdict
<1>2. RowOK' /\ VerdictOK'
  BY <1>1, GateTypes DEF Route, Resolve, Wait, States, Terminal
<1> QED
  BY <1>2 DEF Route, Types, WhoOK, SlackOK, StageOK, LoadOK, who, slack, stage

LEMMA LoadTypes ==
  ASSUME Types, \A m \in Message : inbox[m] = "materializing" => Opened(m) /\ reason[m] # "none",
         Loaded \/ DaemonCrash \/ \E m \in Message : FinalizeNotActive(m) \/ StartLoad(m)
  PROVE  Types'
<1>1. WhoOK' /\ SlackOK' /\ StageOK'
  BY DEF Loaded, LoadSucceeds, LoadRetry, LoadFails, DaemonCrash, FinalizeNotActive, StartLoad, Rest,
     who, slack, stage, Types, WhoOK, SlackOK, StageOK
<1>2. LoadOK'
  BY DEF Loaded, LoadSucceeds, LoadRetry, LoadFails, DaemonCrash, FinalizeNotActive, StartLoad, Types, LoadOK
<1>3. ASSUME NEW m \in Message, NEW state \in States, NEW o \in Outcomes, Conclude(m, state, o),
             UNCHANGED <<home, full, reason, pending, shown, delivery>>
      PROVE  RowOK' /\ VerdictOK'
  BY <1>3 DEF Conclude, Types, RowOK, VerdictOK
<1>4. ASSUME NEW m \in Message, NotActive(m), Opened(m), At(m) # "active",
             UNCHANGED <<home, full, reason, pending, shown, delivery>>
      PROVE  RowOK' /\ VerdictOK'
  <2>1. At(m) \in States
    BY <1>4 DEF Opened, Terminal, States
  <2>2. CASE Conclude(m, "undeliverable", "closed_undelivered")
    BY <1>3, <1>4, <2>2 DEF States, Outcomes
  <2>3. CASE inbox' = [inbox EXCEPT ![m] = At(m)] /\ UNCHANGED told
    BY <1>4, <2>1, <2>3 DEF Types, RowOK, VerdictOK
  <2> QED
    BY <1>4, <2>2, <2>3 DEF NotActive
<1>5. RowOK' /\ VerdictOK'
  <2>1. ASSUME NEW m \in Message, FinalizeNotActive(m) PROVE RowOK' /\ VerdictOK'
    BY <1>4, <2>1 DEF FinalizeNotActive, Loadable, Rest
  <2>2. ASSUME UNCHANGED <<inbox, told, delivery, home, full, reason, pending, shown>> PROVE RowOK' /\ VerdictOK'
    BY <2>2 DEF Types, RowOK, VerdictOK
  <2>3. CASE LoadFails
    <3>1. loading \in Message /\ UNCHANGED <<home, full, reason, pending, shown, delivery>>
      BY <2>3 DEF LoadFails, Rest, Types, LoadOK
    <3>2. CASE inbox' = [inbox EXCEPT ![loading] = "failed"] /\ UNCHANGED told
      BY <3>1, <3>2 DEF Types, RowOK, VerdictOK, States
    <3> QED
      BY <1>3, <2>2, <2>3, <3>1, <3>2 DEF LoadFails, States, Outcomes
  <2>4. CASE LoadSucceeds
    <3>1. loading \in Message /\ UNCHANGED <<home, full, reason, pending, shown>>
      BY <2>4 DEF LoadSucceeds, Rest, Types, LoadOK
    <3>2. CASE inbox[loading] # "materializing"
      BY <2>2, <2>4, <3>1, <3>2 DEF LoadSucceeds
    <3>3. CASE inbox[loading] = "materializing" /\ At(loading) # "active"
      BY <1>4, <2>4, <3>1, <3>3 DEF LoadSucceeds
    <3>4. CASE inbox[loading] = "materializing" /\ At(loading) = "active"
      <4>1. reason[loading] \in {"owner", "allowlist", "approved"}
        BY <3>1, <3>4 DEF Types, RowOK, Grants
      <4>2. delivery' \in [Message -> {"no", "owner", "allowlist", "approved"}]
        BY <2>4, <3>4, <4>1 DEF LoadSucceeds, Types, VerdictOK
      <4>3. inbox' \in [Message -> States] /\ told' \in [Message -> SUBSET Outcomes]
        BY <2>4, <3>1, <3>4 DEF LoadSucceeds, Conclude, Types, RowOK, VerdictOK, States, Outcomes
      <4> QED
        BY <3>1, <4>2, <4>3 DEF Types, RowOK, VerdictOK
    <3> QED
      BY <3>2, <3>3, <3>4
  <2> QED
    BY <2>1, <2>2, <2>3, <2>4 DEF Loaded, LoadRetry, DaemonCrash, StartLoad, Rest, row, verdict
<1> QED
  BY <1>1, <1>2, <1>5 DEF Types

LEMMA OthersTypes ==
  ASSUME Types, Others \/ \E m \in Message : Expire(m)
  PROVE  Types'
<1> USE DEF who, slack, stage, row, verdict
<1>1. ASSUME NEW m \in Message, Send(m) PROVE Types'
  BY <1>1 DEF Send, Types, WhoOK, SlackOK, StageOK, RowOK, VerdictOK, LoadOK
<1>2. ASSUME NEW e \in Event, SendClick(e) PROVE Types'
  BY <1>2 DEF SendClick, Types, WhoOK, SlackOK, StageOK, RowOK, VerdictOK, LoadOK
<1>3. ASSUME NEW b \in Binding, Bind(b) \/ Activate(b) PROVE Types'
  <2>1. WhoOK'
    BY <1>3 DEF Bind, Activate, Types, WhoOK
  <2> QED
    BY <1>3, <2>1 DEF Bind, Activate, Types, SlackOK, StageOK, RowOK, VerdictOK, LoadOK
<1>4. CASE EditAllowlist
  BY <1>4 DEF EditAllowlist, Types, WhoOK, SlackOK, StageOK, RowOK, VerdictOK, LoadOK
<1>5. ASSUME NEW m \in Message, Expire(m) PROVE Types'
  <2>1. RowOK'
    BY <1>5 DEF Expire, Conclude, Types, RowOK, States
  <2>2. VerdictOK'
    BY <1>5 DEF Expire, Conclude, Types, VerdictOK, Outcomes
  <2> QED
    BY <1>5, <2>1, <2>2 DEF Expire, Types, WhoOK, SlackOK, StageOK, LoadOK
<1>6. ASSUME NEW b \in Binding, NEW as \in Terminal, Terminate(b, as) PROVE Types'
  <2>1. WhoOK'
    BY <1>6 DEF Terminate, Types, WhoOK, Terminal
  <2>2. inbox' \in [Message -> States]
    BY <1>6 DEF Terminate, Types, RowOK, States, Terminal
  <2>3. told' \in [Message -> SUBSET Outcomes]
    BY <1>6 DEF Terminate, Types, VerdictOK, Outcomes
  <2>4. pending' \in [Message -> {"none", "pending", "approved", "rejected", "expired"}]
    BY <1>6 DEF Terminate, Types, VerdictOK
  <2>5. RowOK' /\ VerdictOK'
    BY <1>6, <2>2, <2>3, <2>4 DEF Terminate, Types, RowOK, VerdictOK
  <2> QED
    BY <1>6, <2>1, <2>5 DEF Terminate, Types, SlackOK, StageOK, LoadOK
<1> QED
  BY <1>1, <1>2, <1>3, <1>4, <1>5, <1>6 DEF Others

-----------------------------------------------------------------------------
(* What is acknowledged is kept, and what is staged is pinned.               *)

LEMMA StagedNext ==
  ASSUME Inv, Next
  PROVE  Staged'
<1>1. CASE UNCHANGED <<wire, hand, event, tries>>
  BY <1>1 DEF Inv, Staged
<1>2. ASSUME NEW e \in Event, Stage(e) PROVE Staged'
  <2>1. hand' = hand \cup {e} /\ wire' = wire /\ tries' = tries /\ wire[e] = "sent"
    BY <1>2 DEF Stage, Insert, stage
  <2>2. /\ event'[e] # "none" /\ (event'[e] = "staged" => event[e] \in {"none", "staged"})
        /\ \A d \in Event : d # e => event'[d] = event[d]
    BY <1>2 DEF Stage, Insert, stage, Inv, Types, StageOK
  <2> QED
    BY <2>1, <2>2 DEF Inv, Staged, Types, SlackOK
<1>3. ASSUME NEW e \in Event, Ack(e) \/ AckLost(e) PROVE Staged'
  BY <1>3 DEF Ack, AckLost, stage, Inv, Staged, Types, SlackOK
<1>4. ASSUME NEW e \in Event, Ingest(e) \/ Click(e) PROVE Staged'
  <2>1. UNCHANGED <<wire, hand, tries>> /\ event' = [event EXCEPT ![e] = "consumed"]
    BY <1>4 DEF Ingest, Click, Consume, slack
  <2>2. \A d \in Event : event'[d] = event[d] \/ event'[d] = "consumed"
    BY <2>1 DEF Inv, Types, StageOK
  <2> QED
    BY <2>1, <2>2 DEF Inv, Staged
<1>5. ASSUME NEW e \in Event, DrainError(e) PROVE Staged'
  <2>1. DrainMax \in Nat /\ tries[e] \in 0..DrainMax
    BY Shape DEF Inv, Types, StageOK
  <2>2. /\ UNCHANGED <<wire, hand>> /\ event[e] = "staged"
        /\ tries' = [tries EXCEPT ![e] = tries[e] + 1]
        /\ event' = IF tries[e] + 1 >= DrainMax THEN [event EXCEPT ![e] = "quarantined"] ELSE event
    BY <1>5 DEF DrainError, Due, slack
  <2>3. \A d \in Event : event[d] # "none" => event'[d] # "none"
    BY <2>2 DEF Inv, Types, StageOK
  <2>4. ASSUME NEW d \in Event, event'[d] \in {"none", "staged"} PROVE tries'[d] < DrainMax
    <3>1. CASE d = e
      BY <2>1, <2>2, <2>4, <3>1 DEF Inv, Types, StageOK
    <3>2. CASE d # e
      BY <2>2, <2>4, <3>2 DEF Inv, Types, StageOK, Staged
    <3> QED
      BY <3>1, <3>2
  <2> QED
    BY <2>2, <2>3, <2>4 DEF Inv, Staged
<1>6. ASSUME NEW m \in Message, Send(m) PROVE Staged'
  BY <1>6 DEF Send, stage, Inv, Staged, Types, SlackOK
<1>7. ASSUME NEW e \in Event, SendClick(e) PROVE Staged'
  BY <1>7 DEF SendClick, stage, Inv, Staged, Types, SlackOK
<1>8. Loaded => UNCHANGED <<wire, hand, event, tries>>
  BY DEF Loaded, LoadSucceeds, LoadRetry, LoadFails, Rest, slack, stage
<1>9. ASSUME NEW m \in Message, Route(m) \/ FinalizeNotActive(m) \/ StartLoad(m) \/ Expire(m)
      PROVE  UNCHANGED <<wire, hand, event, tries>>
  BY <1>9 DEF Route, FinalizeNotActive, StartLoad, Expire, Rest, slack, stage
<1>10. ASSUME DaemonCrash \/ EditAllowlist \/ \E b \in Binding : Bind(b) \/ Activate(b) \/ \E as \in Terminal : Terminate(b, as)
       PROVE  UNCHANGED <<wire, hand, event, tries>>
  BY <1>10 DEF DaemonCrash, EditAllowlist, Bind, Activate, Terminate, slack, stage
<1> QED
  BY <1>1, <1>2, <1>3, <1>4, <1>5, <1>6, <1>7, <1>8, <1>9, <1>10 DEF Next, Consumer, Daemon, Others

LEMMA PinnedNext ==
  ASSUME Inv, Next
  PROVE  Pinned'
<1>1. CASE UNCHANGED <<pin, witness, home>>
  BY <1>1 DEF Inv, Pinned
<1>2. ASSUME NEW e \in Event, Stage(e) PROVE Pinned'
  <2>1. CASE Insert(e)
    <3>1. /\ \A m \in Message : witness[m] \subseteq witness'[m]
          /\ Current # None => Current \in witness'[MessageOf(e)]
      BY <2>1, CurrentIsLive, MessageOfEvent DEF Insert, Inv, Types, StageOK
    <3>2. \A d \in Event : pin'[d] = pin[d] \/ (d = e /\ pin'[d] = Current)
      BY <2>1 DEF Insert, Inv, Types, StageOK
    <3>3. home' = home
      BY <1>2 DEF Stage, row
    <3> QED
      BY <3>1, <3>2, <3>3, MessageOfEvent DEF Inv, Pinned
  <2> QED
    BY <1>1, <1>2, <2>1 DEF Stage, stage, row
<1>3. ASSUME NEW e \in Event, Ingest(e) PROVE Pinned'
  <2>1. UNCHANGED <<pin, witness>>
    BY <1>3 DEF Ingest, Consume
  <2>2. \A m \in Message : home'[m] = home[m] \/ (m = MessageOf(e) /\ home'[m] = pin[e])
    BY <1>3 DEF Ingest, Origin, Inv, Types, RowOK
  <2> QED
    BY <2>1, <2>2 DEF Inv, Pinned
<1>4. ASSUME NEW e \in Event, Ack(e) \/ AckLost(e) \/ Click(e) \/ DrainError(e) \/ SendClick(e)
      PROVE  UNCHANGED <<pin, witness, home>>
  BY <1>4 DEF Ack, AckLost, Click, Consume, DrainError, SendClick, stage, row
<1>5. Loaded \/ DaemonCrash \/ EditAllowlist => UNCHANGED <<pin, witness, home>>
  BY DEF Loaded, LoadSucceeds, LoadRetry, LoadFails, Rest, DaemonCrash, EditAllowlist, stage, row
<1>6. ASSUME NEW m \in Message, Route(m) \/ FinalizeNotActive(m) \/ StartLoad(m) \/ Expire(m) \/ Send(m)
      PROVE  UNCHANGED <<pin, witness, home>>
  BY <1>6 DEF Route, FinalizeNotActive, StartLoad, Expire, Send, Rest, stage, row
<1>7. ASSUME NEW b \in Binding, Bind(b) \/ Activate(b) \/ \E as \in Terminal : Terminate(b, as)
      PROVE  UNCHANGED <<pin, witness, home>>
  BY <1>7 DEF Bind, Activate, Terminate, stage, row
<1> QED
  BY <1>1, <1>2, <1>3, <1>4, <1>5, <1>6, <1>7 DEF Next, Consumer, Daemon, Others

-----------------------------------------------------------------------------
(* The story of a message.                                                   *)

Untouched(k) ==
  /\ inbox'[k] = inbox[k] /\ home'[k] = home[k] /\ full'[k] = full[k] /\ reason'[k] = reason[k]
  /\ pending'[k] = pending[k] /\ told'[k] = told[k] /\ shown'[k] = shown[k]
  /\ delivery'[k] = delivery[k]

LEMMA AnnouncedIs ==
  ASSUME NEW m
  PROVE  Announced(m) = IF Attached(m) THEN {"approved_pending_files"} ELSE {}
  BY DEF Announced

LEMMA UntouchedStory ==
  ASSUME NEW k \in Message, Story(k), Untouched(k), At(k)' = At(k), owned' = owned,
         home[k] # None => binding'[home[k]] = binding[home[k]]
  PROVE  Story(k)'
<1>1. Opened(k)' <=> Opened(k)
  BY DEF Opened
<1>2. (Attached(k)' <=> Attached(k)) /\ Announced(k)' = Announced(k)
  BY DEF Attached, Announced, Untouched
<1>3. Gated(k)' /\ Delivered(k)' /\ Settled(k)'
  BY <1>1 DEF Story, Gated, Delivered, Settled, Untouched
<1>4. Outcome(k)'
  BY <1>2 DEF Story, Outcome, Untouched
<1> QED
  BY <1>3, <1>4 DEF Story

\* A step on one message leaves the others alone.
LEMMA OneMessage ==
  ASSUME Inv, UNCHANGED <<binding, owned>>, NEW m, m \in Message => Story(m)',
         \A k \in Message : k # m => Untouched(k)
  PROVE  \A k \in Message : Story(k)'
<1> SUFFICES ASSUME NEW k \in Message, k # m PROVE Story(k)'
  OBVIOUS
<1>1. Untouched(k) /\ At(k)' = At(k) /\ Story(k)
  BY DEF Untouched, At, Inv
<1> QED
  BY <1>1, UntouchedStory

LEMMA StillStory ==
  ASSUME Inv, UNCHANGED <<binding, owned, row, verdict, delivery>>
  PROVE  \A k \in Message : Story(k)'
<1>1. ASSUME NEW k \in Message PROVE Untouched(k) /\ At(k)' = At(k) /\ Story(k)
  BY DEF Untouched, At, Inv, row, verdict
<1> QED
  BY <1>1, UntouchedStory

LEMMA IngestStory == ASSUME Inv, NEW e \in Event, Ingest(e) PROVE \A k \in Message : Story(k)'
<1> DEFINE m == MessageOf(e)
<1>1. m \in Message /\ Story(m)
  BY MessageOfEvent DEF Inv
<1>2. /\ UNCHANGED <<binding, owned, reason, pending, told, shown, delivery>>
      /\ \/ inbox[m] = "none" /\ inbox'[m] = "received"
         \/ inbox[m] = "received" /\ inbox'[m] = "received" /\ home'[m] = home[m]
         \/ Untouched(m)
      /\ \A k \in Message : k # m => Untouched(k)
  BY <1>1 DEF Ingest, Upgradable, Untouched, Inv, Types, RowOK, who, verdict
<1>3. Story(m)'
  <2>1. CASE Untouched(m)
    BY <1>1, <1>2, <2>1, UntouchedStory DEF Untouched, At
  <2>2. CASE inbox[m] \in {"none", "received"} /\ inbox'[m] = "received"
    BY <1>1, <1>2, <2>2 DEF Story, Gated, Delivered, Outcome, Settled
  <2> QED
    BY <1>2, <2>1, <2>2
<1> QED
  BY <1>2, <1>3, OneMessage

\* What holds while an approval is open.
LEMMA OpenFacts ==
  ASSUME Inv, NEW m \in Message, pending[m] = "pending"
  PROVE  /\ inbox[m] = "awaiting_approval" /\ told[m] = {} /\ full[m] = shown[m] /\ delivery[m] = "no"
         /\ At(m) = "active" \/ home[m] = None
<1>1. Story(m)
  BY DEF Inv
<1>2. inbox[m] = "awaiting_approval" /\ told[m] = {} /\ full[m] = shown[m] /\ delivery[m] = "no" /\ Opened(m)
  BY <1>1 DEF Story, Outcome, Gated, Delivered
<1> QED
  BY <1>1, <1>2 DEF Story, Settled, Opened, At

LEMMA ActiveHasHome ==
  ASSUME NEW m, At(m) = "active"
  PROVE  home[m] # None /\ binding[home[m]] = "active"
  BY DEF At

LEMMA ClickStory == ASSUME Inv, NEW e \in Event, Click(e) PROVE \A k \in Message : Story(k)'
<1> DEFINE m == MessageOf(e)
<1>1. m \in Message /\ Story(m)
  BY MessageOfEvent DEF Inv
<1>2. /\ UNCHANGED <<binding, owned, home, full, shown>>
      /\ \A k \in Message : k # m => Untouched(k)
  BY <1>1 DEF Click, Conclude, Untouched, Inv, Types, RowOK, VerdictOK, who
<1>3. At(m)' = At(m) /\ (Opened(m)' <=> Opened(m)) /\ (Attached(m)' <=> Attached(m)) /\ Announced(m)' = Announced(m)
  BY <1>2 DEF At, Opened, Attached, Announced
<1>4. Story(m)'
  <2>1. CASE pending[m] # "pending"
    BY <1>1, <1>2, <1>3, <2>1, UntouchedStory DEF Click, Untouched
  <2>2. CASE pending[m] = "pending"
    <3>1. /\ inbox[m] = "awaiting_approval" /\ told[m] = {} /\ full[m] = shown[m] /\ delivery[m] = "no"
          /\ At(m) = "active" \/ home[m] = None
      BY <1>1, <2>2, OpenFacts
    <3>2. Opened(m) /\ (reason[m] = "owner" => m \in owned)
      BY <1>1, <2>2 DEF Story, Gated
    <3>3. CASE e \in Rejecting
      <4>1. /\ pending'[m] = "rejected" /\ inbox'[m] = "rejected" /\ told'[m] = {"rejected"}
            /\ delivery'[m] = "no" /\ reason'[m] = reason[m]
        BY <1>1, <2>2, <3>1, <3>3 DEF Click, Conclude, Inv, Types, RowOK, VerdictOK
      <4> QED
        BY <1>2, <1>3, <3>1, <3>2, <4>1 DEF Story, Gated, Delivered, Outcome, Settled
    <3>4. CASE e \notin Rejecting /\ Attached(m)
      <4>1. /\ pending'[m] = "approved" /\ inbox'[m] = "materializing" /\ told'[m] = {"approved_pending_files"}
            /\ delivery'[m] = "no" /\ reason'[m] = "approved"
        BY <1>1, <2>2, <3>1, <3>4 DEF Click, Conclude, Inv, Types, RowOK, VerdictOK
      <4>2. Outcome(m)'
        BY <1>3, <3>4, <4>1, AnnouncedIs DEF Outcome
      <4>3. Settled(m)'
        BY <1>2, <3>1, <4>1 DEF Settled, At, Terminal
      <4> QED
        BY <1>2, <1>3, <3>1, <3>2, <4>1, <4>2, <4>3 DEF Story, Gated, Delivered
    <3>5. CASE e \notin Rejecting /\ ~Attached(m) /\ At(m) = "active"
      <4>1. /\ pending'[m] = "approved" /\ inbox'[m] = "enqueued" /\ told'[m] = {"delivered"}
            /\ delivery'[m] = "approved" /\ reason'[m] = reason[m]
        BY <1>1, <2>2, <3>1, <3>5 DEF Click, Conclude, Inv, Types, RowOK, VerdictOK
      <4>2. told'[m] = Announced(m)' \cup {"delivered"}
        BY <1>3, <3>5, <4>1, AnnouncedIs
      <4>3. home[m] # None
        BY <3>5, ActiveHasHome
      <4> QED
        BY <1>2, <1>3, <3>1, <3>2, <4>1, <4>2, <4>3 DEF Story, Gated, Delivered, Outcome, Settled
    <3>6. CASE e \notin Rejecting /\ ~Attached(m) /\ At(m) # "active"
      <4>1. /\ pending'[m] = "approved" /\ inbox'[m] = "undeliverable" /\ told'[m] = {"closed_undelivered"}
            /\ delivery'[m] = "no" /\ reason'[m] = reason[m]
        BY <1>1, <2>2, <3>1, <3>6 DEF Click, Conclude, Inv, Types, RowOK, VerdictOK
      <4>2. told'[m] = Announced(m)' \cup {"closed_undelivered"}
        BY <1>3, <3>6, <4>1, AnnouncedIs
      <4> QED
        BY <1>2, <1>3, <3>1, <3>2, <4>1, <4>2 DEF Story, Gated, Delivered, Outcome, Settled
    <3> QED
      BY <3>3, <3>4, <3>5, <3>6
  <2> QED
    BY <2>1, <2>2
<1> QED
  BY <1>2, <1>4, OneMessage

\* Nothing has been told of a row that has not been decided on.
LEMMA UndecidedFacts ==
  ASSUME Inv, NEW m \in Message, inbox[m] \in {"received", "waiting_binding"}
  PROVE  /\ pending[m] = "none" /\ told[m] = {} /\ delivery[m] = "no"
         /\ reason[m] = "owner" => m \in owned
  BY DEF Inv, Story, Gated, Delivered, Outcome

\* A decision of the router that opens nothing: told nothing, delivered nothing.
LEMMA BecomeStory ==
  ASSUME Inv, NEW m \in Message, inbox[m] \in {"received", "waiting_binding"},
         NEW state \in {"ignored_not_mentioned", "waiting_binding", "failed", "unsupported"} \cup Terminal,
         state = "waiting_binding" => At(m) = "starting",
         inbox' = [inbox EXCEPT ![m] = state],
         UNCHANGED <<binding, owned, home, full, reason, verdict, delivery>>
  PROVE  \A k \in Message : Story(k)'
<1>1. inbox'[m] = state /\ \A k \in Message : k # m => Untouched(k)
  BY DEF Untouched, Inv, Types, RowOK, verdict
<1>2. /\ pending'[m] = "none" /\ told'[m] = {} /\ delivery'[m] = "no"
      /\ reason'[m] = "owner" => m \in owned'
  BY UndecidedFacts DEF verdict
<1>3. Settled(m)'
  BY <1>1, <1>2 DEF Settled, At, Terminal
<1>4. Story(m)'
  BY <1>1, <1>2, <1>3 DEF Story, Gated, Delivered, Outcome, Terminal
<1> QED
  BY <1>1, <1>4, OneMessage

LEMMA GateStory ==
  ASSUME Inv, NEW m \in Message, inbox[m] \in {"received", "waiting_binding"}, At(m) = "active",
         Gate(m), UNCHANGED <<binding, owned, home, full>>
  PROVE  \A k \in Message : Story(k)'
<1>1. /\ pending[m] = "none" /\ told[m] = {} /\ delivery[m] = "no"
      /\ reason[m] = "owner" => m \in owned
  BY UndecidedFacts
<1>2. At(m)' = "active" /\ Opened(m)' /\ home[m] # None /\ binding[home[m]] = "active"
  BY ActiveHasHome DEF At, Opened
<1>3. Settled(m)'
  BY <1>2 DEF Settled, Terminal
<1>4. ASSUME NEW by \in {"owner", "allowlist"}, LetIn(m, by), by = "owner" => m \in owned
      PROVE  \A k \in Message : Story(k)'
  <2>1. UNCHANGED <<pending, told, shown>>
    BY <1>4 DEF LetIn, verdict
  <2>2. CASE Attached(m)
    <3>1. /\ inbox'[m] = "materializing" /\ reason'[m] = by /\ delivery' = delivery
          /\ \A k \in Message : k # m => Untouched(k)
      BY <1>4, <2>1, <2>2 DEF LetIn, Untouched, Inv, Types, RowOK
    <3>2. Story(m)'
      BY <1>1, <1>2, <1>3, <1>4, <2>1, <3>1 DEF Story, Gated, Delivered, Outcome
    <3> QED
      BY <3>1, <3>2, OneMessage
  <2>3. CASE ~Attached(m)
    <3>1. /\ inbox'[m] = "enqueued" /\ delivery'[m] = by /\ reason' = reason
          /\ \A k \in Message : k # m => Untouched(k)
      BY <1>4, <2>1, <2>3 DEF LetIn, Untouched, Inv, Types, RowOK, VerdictOK
    <3>2. Story(m)'
      BY <1>1, <1>2, <1>3, <1>4, <2>1, <3>1 DEF Story, Gated, Delivered, Outcome
    <3> QED
      BY <3>1, <3>2, OneMessage
  <2> QED
    BY <2>2, <2>3
<1>5. CASE OverQuota(m)
  BY <1>5, BecomeStory DEF OverQuota
<1>7. CASE Unsupported(m)
  BY <1>7, BecomeStory DEF Unsupported, Become
<1>6. CASE Ask(m)
  <2>1. /\ inbox'[m] = "awaiting_approval" /\ pending'[m] = "pending" /\ shown'[m] = full[m]
        /\ UNCHANGED <<told, reason, delivery>>
        /\ \A k \in Message : k # m => Untouched(k)
    BY <1>6 DEF Ask, Untouched, Inv, Types, RowOK, VerdictOK
  <2>2. Story(m)'
    BY <1>1, <1>2, <1>3, <2>1 DEF Story, Gated, Delivered, Outcome
  <2> QED
    BY <2>1, <2>2, OneMessage
<1> QED
  BY <1>4, <1>5, <1>6, <1>7 DEF Gate

LEMMA RouteStory == ASSUME Inv, NEW m \in Message, Route(m) PROVE \A k \in Message : Story(k)'
<1>1. inbox[m] \in {"received", "waiting_binding"} /\ UNCHANGED <<binding, owned, home, full>>
  BY DEF Route, Resolve, Wait, who
<1>2. ASSUME NEW state \in {"ignored_not_mentioned", "waiting_binding"} \cup Terminal, Become(m, state),
             state = "waiting_binding" => At(m) = "starting"
      PROVE  \A k \in Message : Story(k)'
  BY <1>1, <1>2, BecomeStory DEF Become
<1>3. CASE At(m) = "active" /\ Gate(m)
  BY <1>1, <1>3, GateStory
<1> QED
  BY <1>2, <1>3 DEF Route, Resolve, Wait, Terminal

\* What a row says while its attachments are fetched.
LEMMA LoadingFacts ==
  ASSUME Inv, NEW m \in Message, inbox[m] = "materializing"
  PROVE  /\ Opened(m) /\ delivery[m] = "no" /\ reason[m] \in {"owner", "allowlist", "approved"}
         /\ reason[m] = "owner" => m \in owned
         /\ reason[m] = "approved" => pending[m] = "approved" /\ told[m] = Announced(m) /\ full[m] = shown[m]
         /\ reason[m] # "approved" => pending[m] = "none" /\ told[m] = {}
<1>1. Story(m) /\ reason[m] \in Grants
  BY DEF Inv, Types, RowOK
<1>2. Opened(m) /\ delivery[m] = "no" /\ reason[m] \in {"owner", "allowlist", "approved"}
  BY <1>1 DEF Story, Gated, Delivered, Grants
<1> QED
  BY <1>1, <1>2 DEF Story, Gated, Outcome

\* The end of a download, whatever it is.
LEMMA LoadedStory ==
  ASSUME Inv, NEW m \in Message, inbox[m] = "materializing",
         NEW state \in {"enqueued", "failed", "undeliverable"} \cup Terminal, NEW o,
         <<state, o>> \in {<<"enqueued", "delivered">>, <<"failed", "attachment_failed">>,
                           <<"undeliverable", "closed_undelivered">>}
           \/ (reason[m] # "approved" /\ state \in Terminal),
         inbox' = [inbox EXCEPT ![m] = state],
         told' = IF reason[m] = "approved" THEN [told EXCEPT ![m] = @ \cup {o}] ELSE told,
         IF state = "enqueued" THEN At(m) = "active" /\ delivery' = [delivery EXCEPT ![m] = reason[m]]
                               ELSE UNCHANGED delivery,
         state = "undeliverable" => reason[m] = "approved",
         UNCHANGED <<binding, owned, home, full, reason, pending, shown>>
  PROVE  \A k \in Message : Story(k)'
<1>1. /\ Opened(m) /\ delivery[m] = "no" /\ reason[m] \in {"owner", "allowlist", "approved"}
      /\ reason[m] = "owner" => m \in owned
      /\ reason[m] = "approved" => pending[m] = "approved" /\ told[m] = Announced(m) /\ full[m] = shown[m]
      /\ reason[m] # "approved" => pending[m] = "none" /\ told[m] = {}
  BY LoadingFacts
<1>2. /\ inbox'[m] = state
      /\ told'[m] = IF reason[m] = "approved" THEN told[m] \cup {o} ELSE told[m]
      /\ delivery'[m] = IF state = "enqueued" THEN reason[m] ELSE "no"
      /\ \A k \in Message : k # m => Untouched(k)
  BY <1>1 DEF Untouched, Inv, Types, RowOK, VerdictOK
<1>3. At(m)' = At(m) /\ (Opened(m)' <=> Opened(m)) /\ Announced(m)' = Announced(m)
  BY DEF At, Opened, Announced, Attached
<1>4. Gated(m)'
  BY <1>1, <1>2, <1>3 DEF Gated, Terminal
<1>5. Delivered(m)'
  <2>1. state = "enqueued" => home[m] # None
    BY ActiveHasHome
  <2> QED
    BY <1>1, <1>2, <2>1 DEF Delivered, Terminal
<1>6. Outcome(m)'
  <2>1. CASE reason[m] = "approved"
    <3>1. /\ pending'[m] = "approved" /\ told'[m] = Announced(m)' \cup {o}
          /\ <<state, o>> \in {<<"enqueued", "delivered">>, <<"failed", "attachment_failed">>,
                               <<"undeliverable", "closed_undelivered">>}
      BY <1>1, <1>2, <1>3, <2>1
    <3> QED
      BY <1>2, <3>1 DEF Outcome
  <2>2. CASE reason[m] # "approved"
    BY <1>1, <1>2, <2>2 DEF Outcome, Terminal
  <2> QED
    BY <2>1, <2>2
<1>7. Settled(m)'
  BY <1>1, <1>2 DEF Settled, Terminal
<1> QED
  BY <1>2, <1>4, <1>5, <1>6, <1>7, OneMessage DEF Story

LEMMA NotActiveStory ==
  ASSUME Inv, NEW m \in Message, inbox[m] = "materializing", At(m) # "active", NotActive(m),
         UNCHANGED <<binding, owned, home, full, reason, pending, shown, delivery>>
  PROVE  \A k \in Message : Story(k)'
<1>1. CASE reason[m] = "approved"
  BY <1>1, LoadedStory DEF NotActive, Conclude
<1>2. CASE reason[m] # "approved"
  <2>1. At(m) \in Terminal
    BY LoadingFacts DEF Opened
  <2>2. inbox' = [inbox EXCEPT ![m] = At(m)] /\ told' = told
    BY <1>2 DEF NotActive
  <2>3. PICK state \in Terminal : state = At(m)
    BY <2>1
  <2>4. inbox' = [inbox EXCEPT ![m] = state] /\ state \notin {"enqueued", "undeliverable"}
    BY <2>2, <2>3 DEF Terminal
  <2> QED
    BY <1>2, <2>2, <2>3, <2>4, LoadedStory
<1> QED
  BY <1>1, <1>2

LEMMA FetchStory ==
  ASSUME Inv, Loaded \/ DaemonCrash \/ \E m \in Message : FinalizeNotActive(m) \/ StartLoad(m)
  PROVE  \A k \in Message : Story(k)'
<1>1. ASSUME UNCHANGED <<inbox, told, delivery, Rest>> PROVE \A k \in Message : Story(k)'
  BY <1>1, StillStory DEF Rest, who, row, verdict
<1>2. ASSUME NEW m \in Message, FinalizeNotActive(m) PROVE \A k \in Message : Story(k)'
  BY <1>2, NotActiveStory DEF FinalizeNotActive, Loadable, Rest, who
<1>3. ASSUME NEW m \in Message, StartLoad(m) PROVE \A k \in Message : Story(k)'
  BY <1>1, <1>3 DEF StartLoad
<1>4. CASE DaemonCrash
  BY <1>4, StillStory DEF DaemonCrash, who
<1>5. CASE LoadFails
  <2>1. loading \in Message /\ UNCHANGED <<binding, owned, home, full, reason, pending, shown, delivery>>
    BY <1>5 DEF LoadFails, Rest, who, Inv, Types, LoadOK
  <2>2. CASE inbox[loading] = "materializing"
    <3>1. PICK m \in Message : m = loading
      BY <2>1
    <3>2. inbox[m] = "materializing" /\ inbox' = [inbox EXCEPT ![m] = "failed"]
      BY <1>5, <2>2, <3>1 DEF LoadFails, Conclude
    <3>3. told' = IF reason[m] = "approved" THEN [told EXCEPT ![m] = @ \cup {"attachment_failed"}] ELSE told
      BY <1>5, <2>2, <3>1 DEF LoadFails, Conclude
    <3> QED
      BY <2>1, <3>2, <3>3, LoadedStory
  <2>3. CASE inbox[loading] # "materializing"
    BY <1>1, <1>5, <2>3 DEF LoadFails
  <2> QED
    BY <2>2, <2>3
<1>6. CASE LoadSucceeds
  <2>1. loading \in Message /\ UNCHANGED <<binding, owned, home, full, reason, pending, shown>>
    BY <1>6 DEF LoadSucceeds, Rest, who, Inv, Types, LoadOK
  <2>2. CASE inbox[loading] = "materializing" /\ At(loading) = "active"
    <3>1. PICK m \in Message : m = loading
      BY <2>1
    <3>2. /\ inbox[m] = "materializing" /\ inbox' = [inbox EXCEPT ![m] = "enqueued"] /\ At(m) = "active"
          /\ delivery' = [delivery EXCEPT ![m] = reason[m]]
      BY <1>6, <2>2, <3>1 DEF LoadSucceeds, Conclude
    <3>3. told' = IF reason[m] = "approved" THEN [told EXCEPT ![m] = @ \cup {"delivered"}] ELSE told
      BY <1>6, <2>2, <3>1 DEF LoadSucceeds, Conclude
    <3> QED
      BY <2>1, <3>2, <3>3, LoadedStory
  <2>3. CASE inbox[loading] = "materializing" /\ At(loading) # "active"
    BY <1>6, <2>1, <2>3, NotActiveStory DEF LoadSucceeds
  <2>4. CASE inbox[loading] # "materializing"
    BY <1>1, <1>6, <2>4 DEF LoadSucceeds
  <2> QED
    BY <2>2, <2>3, <2>4
<1> QED
  BY <1>1, <1>2, <1>3, <1>4, <1>5, <1>6 DEF Loaded, LoadRetry

LEMMA ExpireStory == ASSUME Inv, NEW m \in Message, Expire(m) PROVE \A k \in Message : Story(k)'
<1>1. /\ inbox[m] = "awaiting_approval" /\ told[m] = {} /\ full[m] = shown[m] /\ delivery[m] = "no"
      /\ Story(m)
  BY OpenFacts DEF Expire, Inv
<1>2. /\ pending'[m] = "expired" /\ inbox'[m] = "expired" /\ told'[m] = {"expired"}
      /\ UNCHANGED <<binding, owned, home, full, reason, delivery, shown>>
      /\ \A k \in Message : k # m => Untouched(k)
  BY <1>1 DEF Expire, Conclude, Untouched, who, Inv, Types, RowOK, VerdictOK
<1>3. Opened(m)' <=> Opened(m)
  BY <1>2 DEF Opened, At
<1>4. Story(m)'
  BY <1>1, <1>2, <1>3 DEF Expire, Story, Gated, Delivered, Outcome, Settled
<1> QED
  BY <1>2, <1>4, OneMessage

-----------------------------------------------------------------------------
(* The bindings.                                                             *)

LEMMA BindingStory ==
  ASSUME Inv, NEW b \in Binding, Bind(b) \/ Activate(b)
  PROVE  \A k \in Message : Story(k)'
<1> SUFFICES ASSUME NEW k \in Message PROVE Story(k)'
  OBVIOUS
<1>1. /\ Untouched(k) /\ Story(k) /\ owned' = owned /\ UNCHANGED <<home, full>>
      /\ binding[b] \in {"none", "starting"} /\ binding'[b] \notin Terminal
      /\ \A c \in Binding : c # b => binding'[c] = binding[c]
      /\ home[k] \in Binding \cup {None}
  BY DEF Bind, Activate, Untouched, row, verdict, Inv, Types, WhoOK, RowOK, Terminal
<1>2. Opened(k) => Opened(k)'
  BY <1>1 DEF Opened, At, Terminal
<1>3. Gated(k)' /\ Delivered(k)'
  BY <1>1, <1>2 DEF Story, Gated, Delivered, Untouched
<1>4. Announced(k)' = Announced(k) /\ (Attached(k)' <=> Attached(k))
  BY <1>1 DEF Announced, Attached, Untouched
<1>5. Outcome(k)'
  BY <1>1, <1>4 DEF Story, Outcome, Untouched
<1>6. Settled(k)'
  BY <1>1 DEF Story, Settled, Untouched
<1> QED
  BY <1>3, <1>5, <1>6 DEF Story

\* The end of a binding: every message of it that is open is given its end.
LEMMA TerminateStory ==
  ASSUME Inv, NEW b \in Binding, NEW as \in Terminal, Terminate(b, as)
  PROVE  \A k \in Message : Story(k)'
<1> DEFINE open   == {m \in Message : home[m] = b /\ pending[m] = "pending"}
           loaded == {m \in Message : home[m] = b /\ pending[m] = "approved" /\ inbox[m] = "materializing"}
<1> SUFFICES ASSUME NEW k \in Message PROVE Story(k)'
  OBVIOUS
<1>1. /\ Story(k) /\ UNCHANGED <<owned, home, full, reason, delivery, shown>> /\ Live(b)
      /\ binding'[b] = as /\ \A c \in Binding : c # b => binding'[c] = binding[c]
      /\ home[k] \in Binding \cup {None}
  BY DEF Terminate, Inv, Types, WhoOK, RowOK
<1>2. /\ pending'[k] = IF k \in open THEN "expired" ELSE pending[k]
      /\ inbox'[k] = CASE k \in open /\ inbox[k] = "awaiting_approval" -> "expired"
                       [] k \in loaded -> "undeliverable"
                       [] k \in Waiting(b) -> as
                       [] OTHER -> inbox[k]
      /\ told'[k] = told[k] \cup {o \in {"expired"} : k \in open} \cup {o \in {"closed_undelivered"} : k \in loaded}
  BY DEF Terminate
<1>3. Opened(k) => Opened(k)'
  BY <1>1 DEF Opened, At, Terminal
<1>4. (Attached(k)' <=> Attached(k)) /\ Announced(k)' = Announced(k)
  BY <1>1 DEF Attached, Announced
<1>5. CASE k \in open
  <2>1. inbox[k] = "awaiting_approval" /\ told[k] = {} /\ full[k] = shown[k] /\ delivery[k] = "no"
    BY <1>5, OpenFacts
  <2>2. pending'[k] = "expired" /\ inbox'[k] = "expired" /\ told'[k] = {"expired"}
    <3>1. k \notin loaded
      BY <1>5
    <3>2. pending'[k] = "expired"
      BY <1>2, <1>5
    <3>3. inbox'[k] = "expired"
      <4>1. k \notin Waiting(b)
        BY <2>1 DEF Waiting
      <4> HIDE DEF open, loaded
      <4> QED
        BY <1>2, <1>5, <2>1, <3>1, <4>1
    <3>4. told'[k] = {"expired"}
      <4>1. {o \in {"expired"} : k \in open} = {"expired"}
        BY <1>5
      <4>2. {o \in {"closed_undelivered"} : k \in loaded} = {}
        BY <3>1
      <4> HIDE DEF open, loaded
      <4> QED
        BY <1>2, <2>1, <4>1, <4>2
    <3> QED
      BY <3>2, <3>3, <3>4
  <2> QED
    BY <1>1, <1>3, <1>5, <2>1, <2>2 DEF Story, Gated, Delivered, Outcome, Settled
<1>6. CASE k \in loaded
  <2>1. k \notin open /\ reason[k] = "approved" /\ told[k] = Announced(k)
    BY <1>1, <1>6 DEF Story, Gated, Outcome
  <2>2. pending'[k] = "approved" /\ inbox'[k] = "undeliverable" /\ told'[k] = Announced(k)' \cup {"closed_undelivered"}
    <3>1. pending'[k] = "approved"
      BY <1>2, <1>6, <2>1
    <3>2. inbox'[k] = "undeliverable"
      <4>1. inbox[k] = "materializing" /\ k \notin Waiting(b)
        BY <1>6 DEF Waiting
      <4> HIDE DEF open, loaded
      <4> QED
        BY <1>2, <1>6, <2>1, <4>1
    <3>3. told'[k] = Announced(k)' \cup {"closed_undelivered"}
      <4>1. {o \in {"expired"} : k \in open} = {}
        BY <2>1
      <4>2. {o \in {"closed_undelivered"} : k \in loaded} = {"closed_undelivered"}
        BY <1>6
      <4> HIDE DEF open, loaded
      <4> QED
        BY <1>2, <1>4, <2>1, <4>1, <4>2
    <3> QED
      BY <3>1, <3>2, <3>3
  <2>3. delivery[k] = "no" /\ full[k] = shown[k] /\ (reason[k] = "owner" => k \in owned)
    BY <1>1, <1>6 DEF Story, Gated, Delivered
  <2> QED
    BY <1>1, <1>3, <1>6, <2>2, <2>3 DEF Story, Gated, Delivered, Outcome, Settled
<1>7. CASE k \in Waiting(b)
  <2>1. pending[k] = "none" /\ told[k] = {} /\ delivery[k] = "no" /\ inbox[k] = "waiting_binding"
    BY <1>7, UndecidedFacts DEF Waiting
  <2>2. k \notin open /\ k \notin loaded
    BY <2>1
  <2>3. inbox'[k] = as /\ pending'[k] = "none" /\ told'[k] = {}
    BY <1>2, <1>7, <2>1, <2>2
  <2>4. reason[k] = "owner" => k \in owned
    BY <1>1 DEF Story, Gated
  <2> QED
    BY <1>1, <2>1, <2>3, <2>4 DEF Story, Gated, Delivered, Outcome, Settled, Terminal
<1>8. CASE k \notin open \cup loaded \cup Waiting(b)
  <2>1. pending'[k] = pending[k] /\ inbox'[k] = inbox[k] /\ told'[k] = told[k]
    BY <1>2, <1>8
  <2>2. Gated(k)' /\ Delivered(k)' /\ Outcome(k)'
    BY <1>1, <1>3, <1>4, <2>1 DEF Story, Gated, Delivered, Outcome
  <2>3. Settled(k)'
    <3>1. CASE home[k] = b
      <4>1. pending[k] # "pending" /\ inbox[k] # "waiting_binding" /\ ~(pending[k] = "approved" /\ inbox[k] = "materializing")
        BY <1>8, <3>1 DEF Waiting
      <4> QED
        BY <1>1, <2>1, <4>1 DEF Story, Settled, Outcome, Gated
    <3>2. CASE home[k] # b
      BY <1>1, <2>1, <3>2 DEF Story, Settled
    <3> QED
      BY <3>1, <3>2
  <2> QED
    BY <2>2, <2>3 DEF Story
<1> QED
  BY <1>5, <1>6, <1>7, <1>8

-----------------------------------------------------------------------------
LEMMA TypesNext == ASSUME Inv, Next PROVE Types'
<1>1. \A m \in Message : inbox[m] = "materializing" => Opened(m) /\ reason[m] # "none"
  BY DEF Inv, Story, Gated
<1> QED
  BY <1>1, ConsumerTypes, DrainTypes, RouteTypes, LoadTypes, OthersTypes DEF Inv, Next, Consumer, Daemon

LEMMA StoryNext == ASSUME Inv, Next PROVE \A k \in Message : Story(k)'
<1>1. ASSUME NEW e \in Event, Stage(e) \/ Ack(e) \/ AckLost(e) \/ DrainError(e) \/ SendClick(e)
      PROVE  \A k \in Message : Story(k)'
  BY <1>1, StillStory DEF Stage, Ack, AckLost, DrainError, SendClick, who
<1>2. ASSUME NEW m \in Message, Send(m) PROVE \A k \in Message : Story(k)'
  BY <1>2, StillStory DEF Send, who
<1>3. CASE EditAllowlist
  BY <1>3, StillStory DEF EditAllowlist
<1>4. CASE Consumer
  BY <1>1, <1>4 DEF Consumer
<1>5. CASE Daemon
  BY <1>1, <1>5, IngestStory, ClickStory, RouteStory, FetchStory, ExpireStory DEF Daemon
<1>6. CASE Others
  BY <1>1, <1>2, <1>3, <1>6, BindingStory, TerminateStory DEF Others
<1> QED
  BY <1>4, <1>5, <1>6 DEF Next

LEMMA InvNext == Inv /\ [Next]_vars => Inv'
<1> SUFFICES ASSUME Inv, [Next]_vars PROVE Inv'
  OBVIOUS
<1>1. CASE Next
  BY <1>1, TypesNext, StagedNext, PinnedNext, StoryNext DEF Inv
<1>2. CASE UNCHANGED vars
  <2>1. Types' /\ Staged' /\ Pinned'
    BY <1>2 DEF vars, slack, stage, row, verdict, Inv, Types, WhoOK, SlackOK, StageOK, RowOK, VerdictOK,
       LoadOK, Staged, Pinned
  <2>2. \A k \in Message : Story(k)'
    BY <1>2, StillStory DEF vars
  <2> QED
    BY <2>1, <2>2 DEF Inv
<1> QED
  BY <1>1, <1>2

LEMMA Invariance == Spec => []Inv
  BY InvInit, InvNext, PTL DEF Spec

\* The columns of the stage, the inbox, the approvals and the deliveries have
\* their types in every reachable state.
THEOREM InboundTyped == Spec => []TypeOK
<1>1. Inv => TypeOK
  BY TypesSay DEF Inv
<1> QED
  BY <1>1, Invariance, PTL

\* What Slack was told to forget is in the database.
THEOREM NoAckWithoutRow == Spec => []AckedIsKept
<1>1. Inv => AckedIsKept
  BY DEF Inv, Staged, AckedIsKept
<1> QED
  BY <1>1, Invariance, PTL

\* A message goes to the binding it was staged under or to none, however the
\* bindings of the chat follow one another.
THEOREM NoStrangerReads == Spec => []PinnedDelivery
<1>1. Inv => PinnedDelivery
  BY DEF Inv, Pinned, Story, Delivered, PinnedDelivery
<1> QED
  BY <1>1, Invariance, PTL

\* A member's words reach a session only by the allowlist or by an approval in
\* time, of what the card showed.
THEOREM NoneUnapproved == Spec => []OwnerDecides
<1>1. Inv => OwnerDecides
  <2> SUFFICES ASSUME Inv, NEW m \in Message
               PROVE  /\ delivery[m] = "owner" => m \in owned
                      /\ delivery[m] = "approved" => pending[m] = "approved" /\ full[m] = shown[m]
                      /\ pending[m] \in {"rejected", "expired"} => delivery[m] = "no"
    BY DEF OwnerDecides
  <2> QED
    BY DEF Inv, Story, Gated, Delivered, Outcome
<1> QED
  BY <1>1, Invariance, PTL

\* Every approval has one outcome, which is told once and is what happened.
THEOREM OutcomesAgree == Spec => []OutcomeTold
<1>1. Inv => OutcomeTold
  BY DEF Inv, Story, OutcomeTold
<1> QED
  BY <1>1, Invariance, PTL

\* A terminated binding leaves nothing of it open, also when the termination
\* falls into a download or between the approval and the fetch.
THEOREM TerminationSettles == Spec => []ClosedSettles
<1>1. Inv => ClosedSettles
  BY DEF Inv, Story, ClosedSettles
<1> QED
  BY <1>1, Invariance, PTL

=============================================================================
