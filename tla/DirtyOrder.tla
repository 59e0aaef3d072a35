----------------------------- MODULE DirtyOrder -----------------------------
(***************************************************************************)
(* What PageAllocator promises: it "tracks a list of pages which were      *)
(* allocated, allowing them to be iterated over in the original order".    *)
(* A node that is dirtied again counts as allocated anew: it moves to the  *)
(* end.  There are no links here, only the order.                          *)
(***************************************************************************)
EXTENDS Integers, Sequences, SequencesExt

CONSTANT Nodes

VARIABLE order      \* the dirty nodes, least recently dirtied first

Init == order = <<>>

(* s with its i-th element moved to the end *)
MovedToEnd(s, i) == Append(RemoveAt(s, i), s[i])

Dirty(n) ==
    \/ /\ n \notin Range(order)
       /\ order' = Append(order, n)
    \/ \E i \in DOMAIN order :
          /\ order[i] = n
          /\ order' = MovedToEnd(order, i)

Next == \E n \in Nodes : Dirty(n)

Spec == Init /\ [][Next]_order
=============================================================================
