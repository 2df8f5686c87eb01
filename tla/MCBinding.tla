----------------------------- MODULE MCBinding ------------------------------
(***************************************************************************)
(* Small instances of Binding: requests, chats, instances and sessions are *)
(* model values that nothing tells apart.                                  *)
(***************************************************************************)
EXTENDS Binding, TLC

Symmetry == Permutations(Request) \cup Permutations(Chat)
            \cup Permutations(Instance) \cup Permutations(Session)
=============================================================================
