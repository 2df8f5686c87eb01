----------------------------- MODULE MCDelivery -----------------------------
(***************************************************************************)
(* Small instances of Delivery.                                            *)
(***************************************************************************)
EXTENDS Delivery, TLC

CONSTANTS l1, l2
=============================================================================
