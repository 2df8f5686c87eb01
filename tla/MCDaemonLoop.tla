---------------------------- MODULE MCDaemonLoop ----------------------------
(* Two versions of the own bot with two app-level tokens, and a foreign one. *)
EXTENDS DaemonLoop
CONSTANTS v1, v2, w, a1, a2
MCAppOf == [v \in Version |-> IF v = v2 THEN a2 ELSE a1]
=============================================================================
