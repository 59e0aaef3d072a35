---------------------------- MODULE Lexicographic ----------------------------
(***************************************************************************)
(* Byte strings as sequences of numbers and their order, as                *)
(* std::lexicographical_compare defines it for operator< of Bytes and for  *)
(* the KeyLesser of slow nodes.                                            *)
(***************************************************************************)
EXTENDS Integers, Sequences

(* What a Bytes points to: a number of bytes, each of any width. *)
Bytes == Seq(Nat)

(* a and b have n bytes at least and agree on the first n. *)
Agree(a, b, n) ==
    /\ n <= Len(a) /\ n <= Len(b)
    /\ \A i \in 1 .. n : a[i] = b[i]

(* The first byte at which they differ decides; a proper prefix is smaller. *)
Less(a, b) ==
    \E i \in 1 .. Len(b) :
        /\ Agree(a, b, i - 1)
        /\ i > Len(a) \/ a[i] < b[i]

KeyLesser(a, b) == Less(a, b)

(* Slip: the sizes are not compared. *)
EqualInFront(a, b) == Agree(a, b, Len(b))

KeyEquals(a, b) == Len(a) = Len(b) /\ Agree(a, b, Len(a))

Ascending(s) == \A i, j \in 1 .. Len(s) : i < j => Less(s[i], s[j])
=============================================================================
