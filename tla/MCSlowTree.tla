------------------------------ MODULE MCSlowTree ------------------------------
(* Instances of SlowTree for TLC. *)
EXTENDS SlowTree, TLC

(* The key in the middle takes two bytes: with a pointer it is larger than  *)
(* a quarter of the node.                                                   *)
MCKeyBytes == [k \in Keys |-> IF k = 3 THEN 2 ELSE 1]

(* All leaves but the first are interchangeable. *)
Siblings == Permutations(Nodes \ {FirstLeaf})
=============================================================================
