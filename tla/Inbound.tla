------------------------------- MODULE Inbound -------------------------------
(***************************************************************************)
(* The way of a Slack message to a session: the Socket Mode consumer       *)
(* stages envelopes and acknowledges them (bin/slack_consumer.py), the     *)
(* daemon drains the stage into the inbox (lib/daemon_core.py,             *)
(* lib/inbound.py), routes each message by its binding and its sender,     *)
(* asks the owner to approve what a member wrote (lib/approval.py),        *)
(* downloads attachments, and queues a delivery.  The CLI and the hooks    *)
(* start, activate and terminate bindings at any moment                    *)
(* (lib/lifecycle.py), also in the middle of a download.                   *)
(*                                                                         *)
(* One chat, whose bindings follow one another.  Events that ingest always *)
(* drops (foreign teams, own posts, ...) are left out.  Deadlines may have *)
(* passed whenever the code looks at them.                                 *)
(***************************************************************************)
EXTENDS Integers, FiniteSets

CONSTANTS
  Binding, Message,
  EventOf,        \* [Message -> events]: a mention arrives twice,
  Bare,           \* once as an app_mention, which carries no attachments
  ClickOf,        \* [Message -> clicks on its card]
  PerhapsOwner,   \* messages that may be the owner's; the others are a member's
  Files,          \* messages with attachments
  Rejecting,      \* clicks on "reject"; the others are on "approve"
  PerhapsBlocks,  \* messages that may have no text, only blocks or attachments
  PerhapsSilent,  \* messages that may not mention the bot; the others do
  MaxUndecided,   \* MAX_UNDECIDED_PER_CHAT
  MaxNonterminal, \* INBOX_NONTERMINAL_CAP
  DrainMax,       \* DRAIN_MAX_ATTEMPTS
  None,
  Env             \* the environment's events a configuration lets happen

Texts  == UNION {EventOf[m] : m \in Message}
Clicks == UNION {ClickOf[m] : m \in Message}
Event  == Texts \cup Clicks
MessageOf(e) == CHOOSE m \in Message : e \in EventOf[m] \cup ClickOf[m]

ASSUME Shape ==
  /\ None \notin Binding \cup Message \cup Event /\ IsFiniteSet(Message)
  /\ Texts \cap Clicks = {}
  /\ \A m, n \in Message : m # n => (EventOf[m] \cup ClickOf[m]) \cap (EventOf[n] \cup ClickOf[n]) = {}
  /\ MaxUndecided \in Nat \ {0} /\ MaxNonterminal \in Nat \ {0} /\ DrainMax \in Nat \ {0}

VARIABLES
  binding,    \* [Binding -> status]; a terminal status is named by what
              \* map_terminated_to_inbox_state makes of it
  trusted,    \* the member is on the sender allowlist
  owned,      \* the messages that are the owner's,
  silent,     \* and those that do not mention the bot
  \* Slack and the consumer
  wire,       \* [Event -> "none", "sent" or "acked"]
  hand,       \* envelopes the consumer has committed and not acknowledged
  \* slack_events
  event, pin, tries,
  \* inbox
  inbox, home,\* state and binding_id
  full,       \* snapshot_json is that of the message event
  reason,     \* materialize_reason
  \* pendings, and the outcomes of their decision_notices
  pending, told,
  \* deliveries: who let the message in, "no" before there is a delivery
  delivery,
  \* the daemon's thread: the message it downloads attachments of
  loading,
  \* the bindings that were live when an event of the message was sent or staged
  witness,
  shown       \* the snapshot on the approval card: is it full?

who     == <<binding, trusted, owned, silent>>
slack   == <<wire, hand>>
stage   == <<event, pin, tries>>
row     == <<inbox, home, full, reason>>
verdict == <<pending, told, shown>>
vars    == <<binding, trusted, owned, silent, slack, stage, row, verdict, delivery, loading, witness>>

Terminal    == {"unbound", "session_closed"}
Live(b)     == binding[b] \in {"starting", "active"}
InboxStates == {"none", "received", "ignored_not_mentioned", "waiting_binding", "awaiting_approval",
                "materializing", "rejected", "expired", "enqueued", "undeliverable", "failed",
                "unsupported"} \cup Terminal
Nonterminal == {"received", "waiting_binding", "awaiting_approval", "materializing"}
At(m)       == IF home[m] = None THEN "unbound" ELSE binding[home[m]]

Init ==
  /\ binding = [b \in Binding |-> "none"] /\ trusted = FALSE
  /\ owned \in SUBSET PerhapsOwner /\ silent \in SUBSET PerhapsSilent
  /\ wire = [e \in Event |-> "none"] /\ hand = {}
  /\ event = [e \in Event |-> "none"] /\ pin = [e \in Event |-> None]
  /\ tries = [e \in Event |-> 0]
  /\ inbox = [m \in Message |-> "none"] /\ home = [m \in Message |-> None]
  /\ full = [m \in Message |-> FALSE] /\ reason = [m \in Message |-> "none"]
  /\ pending = [m \in Message |-> "none"] /\ told = [m \in Message |-> {}]
  /\ delivery = [m \in Message |-> "no"]
  /\ loading = None /\ witness = [m \in Message |-> {}] /\ shown = [m \in Message |-> FALSE]

-----------------------------------------------------------------------------
(* Slack and the consumer.                                                   *)

\* Both events of a mention are sent at once; a card is clicked once it is there.
Send(m) ==
  /\ \A e \in EventOf[m] : wire[e] = "none"
  /\ wire' = [e \in Event |-> IF e \in EventOf[m] THEN "sent" ELSE wire[e]]
  /\ UNCHANGED <<who, hand, stage, row, verdict, delivery, loading, witness>>

SendClick(e) ==
  /\ e \in Clicks /\ wire[e] = "none" /\ pending[MessageOf(e)] # "none"
  /\ wire' = [wire EXCEPT ![e] = "sent"]
  /\ UNCHANGED <<who, hand, stage, row, verdict, delivery, loading, witness>>

LiveNow == {b \in Binding : Live(b)}
Current == IF LiveNow = {} THEN None ELSE CHOOSE b \in LiveNow : TRUE

Insert(e) ==
  /\ event' = [event EXCEPT ![e] = "staged"] /\ pin' = [pin EXCEPT ![e] = Current]
  /\ witness' = [witness EXCEPT ![MessageOf(e)] = @ \cup LiveNow]
  /\ UNCHANGED tries

\* on_request: one transaction pins the live binding and inserts the row; a
\* repeated envelope keeps the first one.
BugStage(e) ==
  /\ wire[e] = "sent" /\ e \notin hand /\ hand' = hand \cup {e}
  /\ (event[e] = "none" /\ Insert(e)) \/ UNCHANGED <<stage, witness>>
  /\ UNCHANGED <<who, wire, row, verdict, delivery, loading>>

Stage(e) ==
  /\ wire[e] = "sent" /\ e \notin hand /\ hand' = hand \cup {e}
  /\ IF event[e] = "none" THEN Insert(e) ELSE UNCHANGED <<stage, witness>>
  /\ UNCHANGED <<who, wire, row, verdict, delivery, loading>>

\* Only after the commit.
Ack(e) ==
  /\ e \in hand /\ hand' = hand \ {e}
  /\ wire' = [wire EXCEPT ![e] = "acked"]
  /\ UNCHANGED <<who, stage, row, verdict, delivery, loading, witness>>

\* The consumer dies before it acknowledges, or Slack does not hear of it.
AckLost(e) ==
  /\ "consumer" \in Env /\ e \in hand /\ hand' = hand \ {e}
  /\ UNCHANGED <<who, wire, stage, row, verdict, delivery, loading, witness>>

-----------------------------------------------------------------------------
(* drain_staging: one transaction per row.                                   *)

Due(e)     == event[e] = "staged" /\ loading = None
Consume(e) == event' = [event EXCEPT ![e] = "consumed"] /\ UNCHANGED <<pin, tries>>

\* ingest_in_tx: which messages are dropped, which become a row of the inbox.
Attached(m) == m \in Files /\ full[m]
Mentions(m) == m \notin silent

Load == Cardinality({m \in Message : inbox[m] \in Nonterminal})
Admits(e, m) ==
  /\ pin[e] # None \/ Mentions(m)
  /\ m \in owned \/ Load < MaxNonterminal

\* The binding the row was staged with, whatever the chat is bound to now.
BugOrigin(e) == Current
Origin(e) == pin[e]

\* The second event of a mention completes the snapshot, unless the row has
\* been decided on by then.
BugUpgradable(m) == inbox[m] \in {"received", "awaiting_approval"}
Upgradable(m) == inbox[m] = "received"

Ingest(e) ==
  LET m == MessageOf(e)
  IN /\ e \in Texts /\ Due(e) /\ Consume(e)
     /\ \/ /\ inbox[m] = "none" /\ Admits(e, m)
           /\ inbox' = [inbox EXCEPT ![m] = "received"]
           /\ home' = [home EXCEPT ![m] = Origin(e)]
           /\ full' = [full EXCEPT ![m] = e \notin Bare]
        \/ /\ Upgradable(m) /\ Admits(e, m)
           /\ full' = [full EXCEPT ![m] = @ \/ e \notin Bare]
           /\ UNCHANGED <<inbox, home>>
        \/ /\ (inbox[m] # "none" /\ ~Upgradable(m)) \/ ~Admits(e, m)
           /\ UNCHANGED <<inbox, home, full>>
     /\ UNCHANGED <<who, slack, reason, verdict, delivery, loading, witness>>

\* A decision goes with the notice that tells it.
Conclude(m, state, outcome) ==
  /\ inbox' = [inbox EXCEPT ![m] = state]
  /\ told' = [told EXCEPT ![m] = @ \cup {outcome}]

\* process_in_tx: the first valid click decides, a later one is dropped.
Click(e) ==
  LET m == MessageOf(e)
  IN /\ e \in Clicks /\ Due(e) /\ Consume(e)
     /\ \/ pending[m] # "pending" /\ UNCHANGED <<inbox, reason, pending, told, delivery>>
        \/ /\ pending[m] = "pending" /\ e \in Rejecting
           /\ pending' = [pending EXCEPT ![m] = "rejected"]
           /\ Conclude(m, "rejected", "rejected") /\ UNCHANGED <<reason, delivery>>
        \/ /\ pending[m] = "pending" /\ e \notin Rejecting /\ Attached(m)
           /\ pending' = [pending EXCEPT ![m] = "approved"]
           /\ reason' = [reason EXCEPT ![m] = "approved"]
           /\ Conclude(m, "materializing", "approved_pending_files") /\ UNCHANGED delivery
        \/ /\ pending[m] = "pending" /\ e \notin Rejecting /\ ~Attached(m)
           /\ pending' = [pending EXCEPT ![m] = "approved"]
           /\ IF At(m) = "active"
              THEN Conclude(m, "enqueued", "delivered") /\ delivery' = [delivery EXCEPT ![m] = "approved"]
              ELSE Conclude(m, "undeliverable", "closed_undelivered") /\ UNCHANGED delivery
           /\ UNCHANGED reason
     /\ UNCHANGED <<who, slack, home, full, loading, witness, shown>>

BugDrainError(e) ==
  /\ "error" \in Env /\ Due(e)
  /\ tries' = [tries EXCEPT ![e] = @ + 1]
  /\ event' = IF tries[e] >= DrainMax THEN [event EXCEPT ![e] = "quarantined"] ELSE event
  /\ UNCHANGED <<who, slack, pin, row, verdict, delivery, loading, witness>>

\* An exception rolls back; after DRAIN_MAX_ATTEMPTS the row is put aside.
DrainError(e) ==
  /\ "error" \in Env /\ Due(e)
  /\ tries' = [tries EXCEPT ![e] = @ + 1]
  /\ event' = IF tries[e] + 1 >= DrainMax THEN [event EXCEPT ![e] = "quarantined"] ELSE event
  /\ UNCHANGED <<who, slack, pin, row, verdict, delivery, loading, witness>>

-----------------------------------------------------------------------------
(* drive_local_rows: a decision per message, each in a transaction that      *)
(* reads the row and its binding again.                                      *)

Undecided == {m \in Message : pending[m] = "pending"}

\* _gate_active_in_tx
LetIn(m, by) ==
  /\ UNCHANGED verdict
  /\ IF Attached(m)
     THEN /\ inbox' = [inbox EXCEPT ![m] = "materializing"]
          /\ reason' = [reason EXCEPT ![m] = by]
          /\ UNCHANGED delivery
     ELSE /\ inbox' = [inbox EXCEPT ![m] = "enqueued"]
          /\ delivery' = [delivery EXCEPT ![m] = by] /\ UNCHANGED reason

\* The chat's quota of open approvals, and the cooldown of the sender.
OverQuota(m) ==
  /\ \/ Cardinality(Undecided) >= MaxUndecided
     \/ "cooldown" \in Env /\ \E n \in Message : pending[n] # "none"
  /\ inbox' = [inbox EXCEPT ![m] = "failed"]
  /\ UNCHANGED <<reason, verdict, delivery>>

Ask(m) ==
  /\ Cardinality(Undecided) < MaxUndecided
  /\ inbox' = [inbox EXCEPT ![m] = "awaiting_approval"]
  /\ pending' = [pending EXCEPT ![m] = "pending"]
  /\ shown' = [shown EXCEPT ![m] = full[m]]
  /\ UNCHANGED <<told, reason, delivery>>

Become(m, state) == inbox' = [inbox EXCEPT ![m] = state] /\ UNCHANGED <<reason, verdict, delivery>>

\* What has neither text nor files cannot be shown, and is answered by a notice.
Unsupported(m) == m \in PerhapsBlocks /\ ~Attached(m) /\ Become(m, "unsupported")

Gate(m) ==
  \/ Unsupported(m)
  \/ m \in owned /\ LetIn(m, "owner")
  \/ m \notin owned /\ trusted /\ LetIn(m, "allowlist")
  \/ m \notin owned /\ ~trusted /\ (OverQuota(m) \/ Ask(m))

\* Nothing but the row's own binding counts, whatever the chat is bound to now.
Resolve(m) ==
  /\ inbox[m] = "received"
  /\ \/ ~Mentions(m) /\ Become(m, "ignored_not_mentioned")
     \/ Mentions(m) /\ At(m) = "starting" /\ Become(m, "waiting_binding")
     \/ Mentions(m) /\ At(m) \in Terminal /\ Become(m, At(m))
     \/ Mentions(m) /\ At(m) = "active" /\ Gate(m)

Wait(m) ==
  /\ inbox[m] = "waiting_binding" /\ At(m) # "starting"
  /\ \/ At(m) \in Terminal /\ Become(m, At(m))
     \/ At(m) = "active" /\ Gate(m)

Route(m) ==
  /\ loading = None /\ (Resolve(m) \/ Wait(m))
  /\ UNCHANGED <<who, slack, stage, home, full, loading, witness>>

-----------------------------------------------------------------------------
(* The attachments: the download is outside of any transaction.              *)

Rest == <<who, slack, stage, home, full, reason, pending, witness, shown>>

Loadable(m) == loading = None /\ inbox[m] = "materializing"

\* The binding ended: the message gets the state that says so.
NotActive(m) ==
  IF reason[m] = "approved" THEN Conclude(m, "undeliverable", "closed_undelivered")
  ELSE inbox' = [inbox EXCEPT ![m] = At(m)] /\ UNCHANGED told

BugFinalizeNotActive(m) ==
  /\ Loadable(m) /\ At(m) # "active" /\ reason[m] = "approved"
  /\ NotActive(m)
  /\ UNCHANGED <<delivery, loading, Rest>>

FinalizeNotActive(m) ==
  /\ Loadable(m) /\ At(m) # "active"
  /\ NotActive(m)
  /\ UNCHANGED <<delivery, loading, Rest>>

StartLoad(m) ==
  /\ Loadable(m) /\ At(m) = "active"
  /\ loading' = m
  /\ UNCHANGED <<inbox, told, delivery, Rest>>

\* A transient failure: once more after a backoff.
LoadRetry ==
  /\ loading # None /\ loading' = None
  /\ UNCHANGED <<inbox, told, delivery, Rest>>

\* _materialize_terminal: the budget is used up, or the attachment can never be had.
LoadFails ==
  LET m == loading
  IN /\ m # None /\ loading' = None
     /\ \/ inbox[m] # "materializing" /\ UNCHANGED <<inbox, told>>
        \/ /\ inbox[m] = "materializing" /\ reason[m] = "approved"
           /\ Conclude(m, "failed", "attachment_failed")
        \/ /\ inbox[m] = "materializing" /\ reason[m] # "approved"
           /\ inbox' = [inbox EXCEPT ![m] = "failed"] /\ UNCHANGED told
     /\ UNCHANGED <<delivery, Rest>>

\* _finalize_success reads the row and the binding again.
LoadSucceeds ==
  LET m == loading
  IN /\ m # None /\ loading' = None
     /\ \/ inbox[m] # "materializing" /\ UNCHANGED <<inbox, told, delivery>>
        \/ /\ inbox[m] = "materializing" /\ At(m) # "active"
           /\ NotActive(m) /\ UNCHANGED delivery
        \/ /\ inbox[m] = "materializing" /\ At(m) = "active"
           /\ delivery' = [delivery EXCEPT ![m] = reason[m]]
           /\ IF reason[m] = "approved" THEN Conclude(m, "enqueued", "delivered")
              ELSE inbox' = [inbox EXCEPT ![m] = "enqueued"] /\ UNCHANGED told
     /\ UNCHANGED Rest

\* What media.materialize can come to.
Loaded == LoadSucceeds \/ LoadRetry \/ LoadFails

-----------------------------------------------------------------------------
(* Recovery, the binding, the files the user edits.                          *)

\* _expire_pendings
BugExpire(m) ==
  /\ "expire" \in Env /\ loading = None /\ pending[m] \in {"pending", "approved"}
  /\ pending' = [pending EXCEPT ![m] = "expired"]
  /\ Conclude(m, "expired", "expired")
  /\ UNCHANGED <<who, slack, stage, home, full, reason, delivery, loading, witness, shown>>

Expire(m) ==
  /\ "expire" \in Env /\ loading = None /\ pending[m] = "pending"
  /\ pending' = [pending EXCEPT ![m] = "expired"]
  /\ Conclude(m, "expired", "expired")
  /\ UNCHANGED <<who, slack, stage, home, full, reason, delivery, loading, witness, shown>>

DaemonCrash ==
  /\ "crash" \in Env /\ loading # None /\ loading' = None
  /\ UNCHANGED <<who, slack, stage, row, verdict, delivery, witness>>

Bind(b) ==
  /\ binding[b] = "none" /\ \A c \in Binding : ~Live(c)
  /\ binding' = [binding EXCEPT ![b] = "starting"]
  /\ UNCHANGED <<trusted, owned, silent, slack, stage, row, verdict, delivery, loading, witness>>

Activate(b) ==
  /\ binding[b] = "starting" /\ binding' = [binding EXCEPT ![b] = "active"]
  /\ UNCHANGED <<trusted, owned, silent, slack, stage, row, verdict, delivery, loading, witness>>

BugWaiting(b) == {}
Waiting(b) == {m \in Message : home[m] = b /\ inbox[m] = "waiting_binding"}

\* _terminate_in_tx, steps 2 and 3 and the waiting messages.
Terminate(b, as) ==
  LET open   == {m \in Message : home[m] = b /\ pending[m] = "pending"}
      loaded == {m \in Message : home[m] = b /\ pending[m] = "approved" /\ inbox[m] = "materializing"}
  IN /\ Live(b) /\ as \in Terminal
     /\ binding' = [binding EXCEPT ![b] = as]
     /\ pending' = [m \in Message |-> IF m \in open THEN "expired" ELSE pending[m]]
     /\ inbox' = [m \in Message |->
                    CASE m \in open /\ inbox[m] = "awaiting_approval" -> "expired"
                      [] m \in loaded -> "undeliverable"
                      [] m \in Waiting(b) -> as
                      [] OTHER -> inbox[m]]
     /\ told' = [m \in Message |-> told[m] \cup {o \in {"expired"} : m \in open}
                                           \cup {o \in {"closed_undelivered"} : m \in loaded}]
     /\ UNCHANGED <<trusted, owned, silent, slack, stage, home, full, reason, delivery, loading, witness, shown>>

EditAllowlist ==
  /\ "allowlist" \in Env /\ trusted' = ~trusted
  /\ UNCHANGED <<binding, owned, silent, slack, stage, row, verdict, delivery, loading, witness>>

-----------------------------------------------------------------------------
Consumer == \E e \in Event : Stage(e) \/ Ack(e) \/ AckLost(e)
Daemon   == \/ \E e \in Event : Ingest(e) \/ Click(e) \/ DrainError(e)
            \/ \E m \in Message : \/ Route(m) \/ FinalizeNotActive(m) \/ StartLoad(m) \/ Expire(m)
            \/ Loaded \/ DaemonCrash
Others   == \/ \E m \in Message : Send(m)
            \/ \E e \in Event : SendClick(e)
            \/ \E b \in Binding : Bind(b) \/ Activate(b) \/ \E as \in Terminal : Terminate(b, as)
            \/ EditAllowlist

Next == Consumer \/ Daemon \/ Others

Spec == Init /\ [][Next]_vars

\* Slack sends an envelope again until it is acknowledged; the daemon loops
\* for ever and never idles while a row is due; an approval expires; a bind
\* comes to an end (BindSettles of Binding); and no download is retried beyond
\* MEDIA_RETRY_DEADLINE_MS.
Fairness ==
  /\ \A e \in Event : WF_vars(Stage(e))
  /\ SF_vars(\E e \in Event : Ingest(e) \/ Click(e) \/ DrainError(e))
  /\ SF_vars(\E m \in Message : Route(m) \/ Expire(m) \/ FinalizeNotActive(m))
  /\ \A m \in Files : SF_vars(StartLoad(m)) /\ SF_vars(loading = m /\ (LoadFails \/ LoadSucceeds))
  /\ \A b \in Binding : WF_vars(binding[b] = "starting" /\ (Activate(b) \/ \E as \in Terminal : Terminate(b, as)))

FairSpec == Spec /\ Fairness

-----------------------------------------------------------------------------
(* Properties.                                                               *)

\* The columns have their types.
TypeOK ==
  /\ binding \in [Binding -> {"none", "starting", "active"} \cup Terminal] /\ trusted \in BOOLEAN /\ owned \subseteq PerhapsOwner /\ silent \subseteq PerhapsSilent
  /\ wire \in [Event -> {"none", "sent", "acked"}] /\ hand \subseteq Event
  /\ event \in [Event -> {"none", "staged", "consumed", "quarantined"}]
  /\ pin \in [Event -> Binding \cup {None}] /\ tries \in [Event -> 0..DrainMax]
  /\ inbox \in [Message -> InboxStates] /\ home \in [Message -> Binding \cup {None}]
  /\ full \in [Message -> BOOLEAN] /\ reason \in [Message -> {"none", "owner", "allowlist", "approved"}]
  /\ pending \in [Message -> {"none", "pending", "approved", "rejected", "expired"}]
  /\ told \in [Message -> SUBSET {"approved_pending_files", "delivered", "rejected", "expired",
                                  "attachment_failed", "closed_undelivered"}]
  /\ delivery \in [Message -> {"no", "owner", "allowlist", "approved"}]
  /\ loading \in Message \cup {None} /\ witness \in [Message -> SUBSET Binding]
  /\ shown \in [Message -> BOOLEAN]

\* An envelope is acknowledged only when it is in the database: what Slack
\* forgets, the bridge has (invariant I6).
AckedIsKept == \A e \in Event : wire[e] = "acked" => event[e] # "none"

\* A message goes to no session but the one that was bound when the message
\* arrived, however long it waited and whatever the chat is bound to by then.
PinnedDelivery ==
  \A m \in Message : delivery[m] # "no" => home[m] # None /\ home[m] \in witness[m]

\* What a member wrote reaches a session only by the allowlist or by an
\* approval that was given in time, for what the card showed, and never as the
\* owner's word.
OwnerDecides ==
  \A m \in Message :
    /\ delivery[m] = "owner" => m \in owned
    /\ delivery[m] = "approved" => pending[m] = "approved" /\ full[m] = shown[m]
    /\ pending[m] \in {"rejected", "expired"} => delivery[m] = "no"

\* The row, its approval and the outcomes that were told agree in every
\* state: one final outcome, told once, and the true one.
Announced(m) == {o \in {"approved_pending_files"} : Attached(m)}
Outcome(m) ==
  LET is(p, i, o) == pending[m] = p /\ inbox[m] = i /\ told[m] = o
  IN \/ pending[m] = "none" /\ inbox[m] # "awaiting_approval" /\ told[m] = {}
     \/ is("pending", "awaiting_approval", {})
     \/ is("rejected", "rejected", {"rejected"})
     \/ is("expired", "expired", {"expired"})
     \/ is("approved", "materializing", Announced(m)) /\ Attached(m)
     \/ is("approved", "enqueued", Announced(m) \cup {"delivered"})
     \/ is("approved", "failed", Announced(m) \cup {"attachment_failed"})
     \/ is("approved", "undeliverable", Announced(m) \cup {"closed_undelivered"})
OutcomeTold == \A m \in Message : Outcome(m)

\* The end of a binding leaves nothing of it open: no message that waits for
\* it, no approval to give, no approved message to load.
Settled(m) ==
  home[m] # None /\ binding[home[m]] \in Terminal =>
    /\ inbox[m] \notin {"waiting_binding", "awaiting_approval"} /\ pending[m] # "pending"
    /\ ~(inbox[m] = "materializing" /\ reason[m] = "approved")
ClosedSettles == \A m \in Message : Settled(m)

\* Every event that Slack sends is drained or put aside in the end, and no
\* message stays undecided.
MessageSettles ==
  \A e \in Event : wire[e] = "sent" ~>
    event[e] \in {"consumed", "quarantined"} /\ inbox[MessageOf(e)] \notin Nonterminal
=============================================================================
