----------------------------- MODULE MCInbound ------------------------------
(***************************************************************************)
(* Small instances of Inbound: a mention has the events m1 and m2 (the     *)
(* bare app_mention), a plain message has one; yes and no are clicks on    *)
(* the card of the mention.                                                *)
(***************************************************************************)
EXTENDS Inbound, TLC

CONSTANTS mention, plain, m1, m2, n1, yes, no

MCEventOf == [x \in Message |-> IF x = mention THEN {m1} \cup Bare ELSE {n1}]
MCClickOf == [x \in Message |-> IF x = mention THEN {yes} \cup Rejecting ELSE {}]
Symmetry == Permutations(Binding)
=============================================================================
