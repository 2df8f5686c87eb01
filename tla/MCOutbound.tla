----------------------------- MODULE MCOutbound -----------------------------
(***************************************************************************)
(* Small instances of Outbound.  A configuration picks its rows with the   *)
(* constants below; the chunks of a turn are named by their place in it.   *)
(***************************************************************************)
EXTENDS Outbound, TLC

CONSTANTS c1, c2, d1, t1, t2, a1, a2, a3, b1

\* Turn t1 is cut into c1 and c2, turn t2 is the single chunk d1.
MCGroup   == [c \in Chunk |-> IF c = d1 THEN t2 ELSE t1]
MCIndex   == [c \in Chunk |-> IF c = c2 THEN 1 ELSE 0]
MCSize    == [t \in Turns |-> IF t = t1 THEN Cardinality(Chunk \ {d1}) ELSE 1]
\* Alerts of c1, c2, of the truncated turn t1, and of d1.
MCAlertOf == [x \in Chunk \cup Turns |->
                CASE x = c2 -> a2 [] x = t1 /\ a3 \in Alert -> a3 [] x \in {d1, t2} -> b1
                  [] OTHER -> a1]
\* The one card, and what is told of it.
MCCardOf == [u \in Update |-> CHOOSE c \in Card : TRUE]
MCRank   == [u \in Outcome |-> 1]
=============================================================================
