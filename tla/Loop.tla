-------------------------------- MODULE Loop --------------------------------
(***************************************************************************)
(* The one thread of the daemon (main() of bin/daemon.py), which the gate,  *)
(* the consumer manager and the downloads take turns on, and the budget of  *)
(* things that its environment may do to it.                                *)
(***************************************************************************)
EXTENDS Naturals

CONSTANTS
  None,
  Budget       \* bound: how many things happen that nobody has to expect

ASSUME BudgetAssumption == Budget \in Nat

VARIABLES
  at,          \* where the thread is
  left         \* what is left of the budget

loopVars == <<at, left>>

\* gate.startup(), the first slow_tick, start_all; then the parts of the endless loop in their order.
Starting == {"start", "read", "sync", "recheck", "judge", "refused", "ready", "spawn"}
Looping  == {"poll", "work", "load", "publish", "store",
             "gate", "check", "reload", "due", "open", "send", "resend", "slow", "flag", "tick"}
Place    == {"down"} \cup Starting \cup Looping

Goto(from, to) == at = from /\ at' = to
Spend == left > 0 /\ left' = left - 1
Free  == UNCHANGED left

=============================================================================
