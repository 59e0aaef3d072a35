----------------------------- MODULE MCLeafNode -----------------------------
(* Instances of LeafNode for TLC. *)
EXTENDS LeafNode, TLC

(* All leaves but the first are interchangeable. *)
Siblings == Permutations(Nodes \ {FirstLeaf})
=============================================================================
