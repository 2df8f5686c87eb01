------------------------------- MODULE Outbox -------------------------------
(***************************************************************************)
(* What the outbound state machine promises about every message it posts   *)
(* (invariant I6 of docs/contracts.md): a message is accepted, readers see *)
(* at most Most copies of it, and it gets one verdict that is never taken  *)
(* back and never lies.  "sent" is given only when a copy is there,        *)
(* "failed" only when there is none and none can come; a message that is   *)
(* "unconfirmed" or "cancelled" may have a copy, or get one late.          *)
(***************************************************************************)
EXTENDS Integers

CONSTANTS Message, Most

VARIABLES verdict, copies
vars == <<verdict, copies>>

Verdicts == {"sent", "failed", "cancelled", "unconfirmed"}

Init == verdict = [m \in Message |-> "none"] /\ copies = [m \in Message |-> 0]

\* What may become of a message in a step that decides on it.
Successors(m) ==
  CASE verdict[m] = "none" -> {"none", "open"}
    [] verdict[m] = "open" -> {"open", "cancelled", "unconfirmed"}
                              \cup {v \in {"sent"} : copies[m] > 0}
                              \cup {v \in {"failed"} : copies[m] = 0}
    [] OTHER -> {verdict[m]}

\* Messages are accepted and decided, several at once.
Decide ==
  /\ \A m \in Message : verdict'[m] \in Successors(m)
  /\ verdict' = [m \in Message |-> verdict'[m]]
  /\ UNCHANGED copies

\* Readers see a copy, in the worst case long after the verdict.
Appear(m) ==
  /\ verdict[m] \notin {"none", "failed"} /\ copies[m] < Most
  /\ copies' = [copies EXCEPT ![m] = @ + 1]
  /\ UNCHANGED verdict

Next == Decide \/ \E m \in Message : Appear(m)

Spec == Init /\ [][Next]_vars
=============================================================================
