------------------------------- MODULE LeafNode -------------------------------
(***************************************************************************)
(* slow::LeafNode: insert(key, value) fills a leaf until an entry is       *)
(* refused for lack of space, splitAndInsert moves one half of it and the  *)
(* entry into a fresh sibling.  Any call may be made at any time; SlowTree *)
(* makes them the way Tree::insertRecursive does.                          *)
(***************************************************************************)
EXTENDS NodeOps

CONSTANTS
    Keys,       \* the keys callers insert
    Sizes,      \* the values of keyBytes + valueBytes callers insert
    Nodes,      \* identities of LeafNode objects
    FirstLeaf,  \* the leaf the Tree constructor makes
    NoSplit     \* mSplit.sibling == nullptr

ASSUME LeafAssumption ==
    /\ Keys \subseteq Int
    /\ Sizes \subseteq Nat
    /\ FirstLeaf \in Nodes
    /\ NoSplit \notin [sibling : Nodes, direction : {"LEFT", "RIGHT"}, key : Keys]

VARIABLES
    leaves,     \* the LeafNodes constructed so far
    children,   \* mChildren of each node
    bytes,      \* mBytes
    split,      \* mSplit
    aborted     \* an assert has failed: the process is gone

vars == <<leaves, children, bytes, split, aborted>>

Entry == [key : Keys, size : Sizes]
Split == [sibling : Nodes, direction : {"LEFT", "RIGHT"}, key : Keys]

Init ==
    /\ leaves = {FirstLeaf}
    /\ children = [n \in Nodes |-> <<>>]
    /\ bytes = [n \in Nodes |-> 0]
    /\ split = [n \in Nodes |-> NoSplit]
    /\ aborted = FALSE

-----------------------------------------------------------------------------
(* LeafNode::insert(key, value) *)

(* invalid_argument, thrown before anything is modified *)
InsertThrows(n, key, size, pos) ==
    /\ IsDuplicate(children[n], key, pos) \/ TooBig(size)
    /\ UNCHANGED vars

(* Slip: an entry that fits exactly is refused. *)
RefusesExactFit(n, size) == size >= Available(bytes[n])

(* entrySize > availableBytes *)
NoSpace(n, size) == size > Available(bytes[n])

(* FAILED_NO_SPACE *)
InsertRefused(n, key, size, pos) ==
    /\ ~IsDuplicate(children[n], key, pos)
    /\ ~TooBig(size)
    /\ NoSpace(n, size)
    /\ UNCHANGED vars

(* INSERTED *)
InsertStores(n, key, size, pos) ==
    /\ ~IsDuplicate(children[n], key, pos)
    /\ ~TooBig(size)
    /\ ~NoSpace(n, size)
    /\ children' = [children EXCEPT
                      ![n] = InsertAt(@, pos + 1, [key |-> key, size |-> size])]
    /\ bytes' = [bytes EXCEPT ![n] = @ + size]
    /\ UNCHANGED <<leaves, split, aborted>>

Insert(n, key, size) ==
    \E pos \in 0 .. Len(children[n]) :
        /\ IsLowerBound(children[n], key, pos)
        /\ \/ InsertThrows(n, key, size, pos)
           \/ InsertRefused(n, key, size, pos)
           \/ InsertStores(n, key, size, pos)

-----------------------------------------------------------------------------
(* LeafNode::splitAndInsert(key, value, sibling), sibling freshly made *)

(* invalid_argument or domain_error, thrown before anything is modified *)
SplitThrows(n, key, size, pos) ==
    /\ \/ TooBig(size)
       \/ SplitNotRequired(children[n], bytes[n], size)
       \/ IsDuplicate(children[n], key, pos)
    /\ UNCHANGED vars

(* Slip: the key of the entry before the cut. *)
KeyBeforeCut(s) == s[SplitPoint(s)].key

(* splitKey = splitBeginIt->first, taken before the entries are moved *)
SplitKey(s) == s[SplitPoint(s) + 1].key

(* Slip: the node records itself. *)
RecordsItself(n, sibling, direction, key) ==
    /\ split' = [split EXCEPT ![n] = [sibling |-> n, direction |-> direction, key |-> key]]
    /\ UNCHANGED aborted

(* recordSplit: assert(mSplit.sibling == nullptr) and the three assignments *)
RecordSplit(n, sibling, direction, key) ==
    IF split[n] = NoSplit
    THEN /\ split' = [split EXCEPT ![n] = [sibling   |-> sibling,
                                           direction |-> direction,
                                           key       |-> key]]
         /\ UNCHANGED aborted
    ELSE /\ aborted' = TRUE
         /\ UNCHANGED split

(* Slip: only the sibling is recalculated. *)
RecalculatesSibling(n, sibling) ==
    bytes' = [bytes EXCEPT ![sibling] = BytesUsed(children'[sibling])]

(* recalculateBytesUsed on both nodes, which a failed assert never reaches *)
RecalculateBytes(n, sibling) ==
    IF aborted'
    THEN UNCHANGED bytes
    ELSE bytes' = [bytes EXCEPT ![n]       = BytesUsed(children'[n]),
                                ![sibling] = BytesUsed(children'[sibling])]

SplitStores(n, key, size, sibling, pos) ==
    /\ ~TooBig(size)
    /\ ~SplitNotRequired(children[n], bytes[n], size)
    /\ ~IsDuplicate(children[n], key, pos)
    /\ leaves' = leaves \cup {sibling}
    /\ children' = [children EXCEPT
                      ![sibling] = SiblingChildren(children[n], pos,
                                       [key |-> key, size |-> size]),
                      ![n]       = RemainingChildren(@, pos)]
    /\ RecordSplit(n, sibling, Direction(children[n], pos), SplitKey(children[n]))
    /\ RecalculateBytes(n, sibling)

SplitAndInsert(n, key, size, sibling) ==
    \E pos \in 0 .. Len(children[n]) :
        /\ IsLowerBound(children[n], key, pos)
        /\ \/ SplitThrows(n, key, size, pos)
           \/ SplitStores(n, key, size, sibling, pos)

Next ==
    /\ ~aborted
    /\ \E n \in leaves, key \in Keys, size \in Sizes :
           \/ Insert(n, key, size)
           \/ \E sibling \in Nodes \ leaves : SplitAndInsert(n, key, size, sibling)

Spec == Init /\ [][Next]_vars

-----------------------------------------------------------------------------
NodesOK ==
    /\ leaves \subseteq Nodes
    /\ FirstLeaf \in leaves
    /\ children \in [Nodes -> Seq(Entry)]
    /\ split \in [Nodes -> Split \cup {NoSplit}]
    /\ \A n \in Nodes : split[n] # NoSplit => split[n].sibling \in leaves \ {n}
    /\ aborted \in BOOLEAN

(* Every variable keeps its type, and a recorded split names another leaf   *)
(* that has been constructed (Node::mSplit.sibling is never dangling).      *)
TypeOK == NodesOK /\ bytes \in [Nodes -> Nat]

(* NodeTest's isOrdered *)
Ascending(s) == \A i, j \in 1 .. Len(s) : i < j => s[i].key < s[j].key

(* Every leaf is ordered after any series of inserts and splits: its keys   *)
(* strictly increase, hence no key occurs twice in it.                      *)
Ordered == \A n \in Nodes : Ascending(children[n])

(* mBytes, maintained incrementally by insert and rebuilt by split, is the  *)
(* total of the entries actually held (NodeTest's expectedBytes).           *)
BytesExact ==
    ~aborted => \A n \in Nodes : bytes[n] = BytesUsed(children[n])

(* The guards of insert and splitAndInsert agree: whenever insert answers   *)
(* FAILED_NO_SPACE, splitAndInsert accepts the leaf and the entry.  Tree's  *)
(* insertRecursive relies on it: it has no handler for a throwing split,    *)
(* which would leave the leaf it has just allocated behind.                 *)
RefusedCanSplit ==
    ~aborted => \A n \in leaves, size \in Sizes :
        ~TooBig(size) /\ NoSpace(n, size) =>
            ~SplitNotRequired(children[n], bytes[n], size)

Contents(n) == Range(children[n])

(* A split of n into s that places the entry e *)
SplitStep(n, s, e) ==
    /\ Contents(n)' \cup Contents(s)' = Contents(n) \cup {e}
    /\ Len(children'[n]) + Len(children'[s]) = Len(children[n]) + 1
    /\ e \in Contents(s)'
    /\ \/ \A a \in Contents(s)', b \in Contents(n)' : a.key < b.key
       \/ \A a \in Contents(s)', b \in Contents(n)' : b.key < a.key

(* Moving half the entries out neither loses nor duplicates one: a call     *)
(* that changes a leaf either adds one entry to it, or divides what it held *)
(* and the new entry between it and a fresh sibling, all keys of the one    *)
(* below all keys of the other.                                             *)
EntriesConserved ==
    [][\A n \in leaves :
           \/ children'[n] = children[n]
           \/ \E key \in Keys, size \in Sizes :
                  LET e == [key |-> key, size |-> size]
                  IN  \/ /\ leaves' = leaves
                         /\ Contents(n)' = Contents(n) \cup {e}
                         /\ Len(children'[n]) = Len(children[n]) + 1
                      \/ \E s \in leaves' \ leaves : SplitStep(n, s, e)]_vars

(* NodeTest checks origSize / 2 <= node.size() and sibling.size() for       *)
(* ascending and descending keys; it holds for every order of inserts.      *)
HalvesBalanced ==
    [][\A n \in leaves, s \in leaves' \ leaves :
           children'[n] # children[n] =>
               /\ Len(children[n]) \div 2 <= Len(children'[n])
               /\ Len(children[n]) \div 2 <= Len(children'[s])]_vars

(* verifiedEntrySize's limit of a quarter of the node "ensures that a split *)
(* always produces siblings with at least two entries".  It does when the   *)
(* split follows a refused insert (SlowTree), but not for every split that  *)
(* splitAndInsert's own guard lets through.                                 *)
SplitLeavesTwo ==
    [][\A n \in leaves, s \in leaves' \ leaves :
           children'[n] # children[n] =>
               Len(children'[n]) >= 2 /\ Len(children'[s]) >= 2]_vars

(* A key is below the split key exactly if it is in the left node of the    *)
(* two, which is what routing by the split key needs.                       *)
Separates(key, left, right) ==
    /\ \A e \in left : e.key < key
    /\ \A e \in right : key <= e.key

(* The split key published in mSplit divides a LEFT split (the sibling is   *)
(* the lower half) exactly.                                                 *)
LeftSplitSeparates ==
    [][\A n \in leaves :
           /\ split'[n] # split[n]
           /\ split'[n].direction = "LEFT"
           => Separates(split'[n].key, Range(children'[split'[n].sibling]), Contents(n)')]_vars

-----------------------------------------------------------------------------
(* What the repository says of the node and the code does not keep.         *)

(* Node.cpp: "a child node associated with 55, will only have values GE     *)
(* than 55" - of a RIGHT split, whose sibling the parent files under the    *)
(* split key.                                                               *)
RightSplitSeparates ==
    [][\A n \in leaves :
           /\ split'[n] # split[n]
           /\ split'[n].direction = "RIGHT"
           => Separates(split'[n].key, Contents(n)', Range(children'[split'[n].sibling]))]_vars

(* NodeTest fills a node while bytes() < capacity() and expects it to       *)
(* answer FAILED_NO_SPACE by then: a node never holds more than capacity(). *)
WithinCapacity == ~aborted => \A n \in Nodes : bytes[n] <= Capacity
=============================================================================
