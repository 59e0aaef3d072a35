------------------------------- MODULE NodeOps -------------------------------
(***************************************************************************)
(* The stateless part of slow/Node.cpp: the helpers of Node::Ops that both *)
(* LeafNode and InternalNode are instantiated from.                        *)
(*                                                                         *)
(* mChildren, a std::vector of (key, value) pairs, is a sequence of entry  *)
(* records.  A key is an integer (integer order stands for the             *)
(* lexicographic order of KeyLesser), and of the value only its            *)
(* contribution to the byte accounting is kept: entry.size is              *)
(* keyBytes + valueBytes.  Iterators are offsets from begin(), so they     *)
(* range over 0 .. Len(children).                                          *)
(***************************************************************************)
EXTENDS Integers, Sequences, SequencesExt

CONSTANTS
    Capacity,   \* Node::mCapacity, 4096 in the code
    SizeMod     \* 2^w for a size_t of w bits

ASSUME CapacityAssumption ==
    /\ Capacity \in Nat \ {0}
    /\ SizeMod \in Nat
    /\ 2 * Capacity <= SizeMod

-----------------------------------------------------------------------------
(* Slip: std::upper_bound, which steps over an equal key. *)
IsUpperBound(children, key, pos) ==
    /\ pos \in 0 .. Len(children)
    /\ \A i \in 1 .. pos : children[i].key <= key
    /\ \A i \in pos + 1 .. Len(children) : key < children[i].key

(* std::lower_bound(begin, end, key, KeyLesser()) on a partitioned vector:  *)
(* pos is the one offset with all smaller keys before it.                   *)
IsLowerBound(children, key, pos) ==
    /\ pos \in 0 .. Len(children)
    /\ \A i \in 1 .. pos : children[i].key < key
    /\ \A i \in pos + 1 .. Len(children) : key <= children[i].key

(* insertPos != end() && KeyEquals()(key, *insertPos) *)
IsDuplicate(children, key, pos) ==
    pos < Len(children) /\ children[pos + 1].key = key

(* Slip: half a node. *)
HalfCapacity == Capacity \div 2

(* verifiedEntrySize throws when the entry exceeds a quarter of the node. *)
MaxEntry == Capacity \div 4
TooBig(size) == size > MaxEntry

(* node.capacity() - usedBytes, an unsigned subtraction *)
Available(used) == (Capacity - used) % SizeMod

(* Slip: the bytes used instead of the bytes available. *)
ComparesUsed(children, used, size) ==
    size < used \/ Len(children) < 3

(* The precondition of splitAndInsert, negated: it throws domain_error. *)
SplitNotRequired(children, used, size) ==
    size < Available(used) \/ Len(children) < 3

(* Slip: the cut at a third. *)
LowerThird(children) == Len(children) \div 3

(* beginIt + (size + 1) / 2, "account for the element about to be inserted" *)
SplitPoint(children) == (Len(children) + 1) \div 2

(* Which entries end up on the left and on the right of the cut.  The new   *)
(* entry always goes to the sibling: the left half if it lands before the   *)
(* split point, the right half otherwise.                                   *)
Direction(children, pos) ==
    IF pos < SplitPoint(children) THEN "LEFT" ELSE "RIGHT"

(* The three std::move / push_back steps that fill the sibling. *)
SiblingChildren(children, pos, entry) ==
    LET full == InsertAt(children, pos + 1, entry)
        m    == SplitPoint(children)
    IN  IF Direction(children, pos) = "LEFT"
        THEN SubSeq(full, 1, m + 1)
        ELSE SubSeq(full, m + 1, Len(full))

(* Slip: the range erased ends one entry too late, or begins one too early. *)
ErasesOneMore(children, pos) ==
    LET m == SplitPoint(children)
    IN  IF Direction(children, pos) = "LEFT"
        THEN SubSeq(children, m + 2, Len(children))
        ELSE SubSeq(children, 1, m - 1)

(* original.mChildren.erase(moveBeginIt, moveEndIt) *)
RemainingChildren(children, pos) ==
    LET m == SplitPoint(children)
    IN  IF Direction(children, pos) = "LEFT"
        THEN SubSeq(children, m + 1, Len(children))
        ELSE SubSeq(children, 1, m)

(* total += entrySize(kvPair), after the first i entries *)
RunningTotal(children) ==
    LET total[i \in 0 .. Len(children)] ==
            IF i = 0 THEN 0 ELSE total[i - 1] + children[i].size
    IN  total

(* recalculateBytesUsed *)
BytesUsed(children) == RunningTotal(children)[Len(children)]
=============================================================================
