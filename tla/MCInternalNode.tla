---------------------------- MODULE MCInternalNode ----------------------------
(* Instances of InternalNode for TLC. *)
EXTENDS InternalNode

(* The largest key is too long to be stored. *)
MCKeyBytes == [k \in Keys |-> IF \E l \in Keys : k < l THEN 1 ELSE 2]
=============================================================================
