------------------------------ MODULE Bisection ------------------------------
(***************************************************************************)
(* What lowerBound of pvt/Node.cpp promises: a binary search over the      *)
(* search vector of a node whose every probe compares the key with a whole *)
(* entry.  lo entries are known to be smaller than the key, and those      *)
(* behind hi known not to be.                                              *)
(***************************************************************************)
EXTENDS Lexicographic

CONSTANT Keys       \* byte strings: the keys stored and searched for

VARIABLES entries, key, lo, hi

Init ==
    /\ entries \in Seq(Keys)
    /\ Ascending(entries)
    /\ key \in Keys \ {<<>>}
    /\ lo = 0
    /\ hi = Len(entries)

(* Any bisection will do: std::lower_bound probes the middle. *)
Probe(mid) ==
    /\ \/ /\ Less(entries[mid], key)
          /\ lo' = mid
          /\ UNCHANGED hi
       \/ /\ ~Less(entries[mid], key)
          /\ hi' = mid - 1
          /\ UNCHANGED lo
    /\ UNCHANGED <<entries, key>>

Next == \E mid \in lo + 1 .. hi : Probe(mid)

Spec == Init /\ [][Next]_<<entries, key, lo, hi>>
=============================================================================
