---------------------------- MODULE MCSupervisor ----------------------------
(***************************************************************************)
(* Small instances of Supervisor: a listener of an older installation and a *)
(* bind of the present one.                                                 *)
(***************************************************************************)
EXTENDS Supervisor

CONSTANTS w, b, old, new

MCOwn == [c \in Caller |-> IF c = w THEN old ELSE new]
=============================================================================
