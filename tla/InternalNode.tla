----------------------------- MODULE InternalNode -----------------------------
(***************************************************************************)
(* slow::InternalNode: the constructor, insert by key, insert at a         *)
(* position and splitAndInsert, called in any order on any node.  The      *)
(* comment at the end of slow/Node.cpp calls the entry with the empty key  *)
(* the sentinel; it is the pointer to the leftmost child.                  *)
(*                                                                         *)
(* Every insert brings a new child, and a child is named by the key it was *)
(* brought with: it is the one whose keys are GE than that key.  The       *)
(* constructor's child is named by the node constructed.                   *)
(***************************************************************************)
EXTENDS NodeOps, FiniteSets

CONSTANTS
    Keys,       \* non-empty keys
    KeyBytes,   \* key.size()
    PtrBytes,   \* sizeof(Node*)
    Nodes,      \* identities of InternalNode objects
    Root,       \* the node the Tree constructor makes
    NoSplit,
    MaxEntries  \* bound: with more entries in all nodes, no call is made

ASSUME InternalAssumption ==
    /\ Keys \subseteq Nat \ {0}
    /\ KeyBytes \in [Keys -> Nat \ {0}]
    /\ PtrBytes \in Nat
    /\ Root \in Nodes
    /\ NoSplit \notin [sibling : Nodes, direction : {"LEFT", "RIGHT"}, key : Keys \cup {0}]

VARIABLES
    nodes,      \* the InternalNodes constructed so far
    children,   \* mChildren
    bytes,      \* mBytes
    split,      \* mSplit
    aborted     \* an assert has failed

vars == <<nodes, children, bytes, split, aborted>>

(* The empty key, smaller than every other *)
Sentinel == 0

EntrySize(key) == PtrBytes + IF key = Sentinel THEN 0 ELSE KeyBytes[key]

Entry(key, child) == [key |-> key, size |-> EntrySize(key), child |-> child]

(* InternalNode(leftestChild): the child's entry is not accounted for. *)
Constructed(n) == <<Entry(Sentinel, n)>>

Init ==
    /\ nodes = {Root}
    /\ children = [n \in Nodes |-> IF n = Root THEN Constructed(n) ELSE <<>>]
    /\ bytes = [n \in Nodes |-> 0]
    /\ split = [n \in Nodes |-> NoSplit]
    /\ aborted = FALSE

Construct(n) ==
    /\ n \notin nodes
    /\ nodes' = nodes \cup {n}
    /\ children' = [children EXCEPT ![n] = Constructed(n)]
    /\ UNCHANGED <<bytes, split, aborted>>

(* What lower_bound(begin() + from, end(), key) may return: on a vector     *)
(* that is not sorted, any position where the comparison changes.           *)
IsBoundary(s, from, key, pos) ==
    /\ pos \in from .. Len(s)
    /\ pos > from => s[pos].key < key
    /\ pos < Len(s) => key <= s[pos + 1].key

-----------------------------------------------------------------------------
(* Ops::insert(position, key, value, node), also called with the position   *)
(* that insert by key has found                                             *)

(* invalid_argument, or FAILED_NO_SPACE *)
NotInserted(n, key) ==
    /\ TooBig(EntrySize(key)) \/ EntrySize(key) > Available(bytes[n])
    /\ UNCHANGED vars

(* Slip: only the pointer is accounted for. *)
CountsPointer(n, pos, key) ==
    /\ ~TooBig(EntrySize(key))
    /\ EntrySize(key) <= Available(bytes[n])
    /\ children' = [children EXCEPT ![n] = InsertAt(@, pos + 1, Entry(key, key))]
    /\ bytes' = [bytes EXCEPT ![n] = @ + PtrBytes]
    /\ UNCHANGED <<nodes, split, aborted>>

Inserted(n, pos, key) ==
    /\ ~TooBig(EntrySize(key))
    /\ EntrySize(key) <= Available(bytes[n])
    /\ children' = [children EXCEPT ![n] = InsertAt(@, pos + 1, Entry(key, key))]
    /\ bytes' = [bytes EXCEPT ![n] = @ + EntrySize(key)]
    /\ UNCHANGED <<nodes, split, aborted>>

InsertAtPosition(n, pos, key) == NotInserted(n, key) \/ Inserted(n, pos, key)

(* insert(key, child): the lower bound behind the first entry, then one     *)
(* step back                                                                *)
Insert(n, key) ==
    \E pos \in 1 .. Len(children[n]) :
        /\ IsBoundary(children[n], 1, key, pos)
        /\ \/ IsDuplicate(children[n], key, pos) /\ UNCHANGED vars
           \/ ~IsDuplicate(children[n], key, pos) /\ InsertAtPosition(n, pos - 1, key)

(* insert(position, key, child), as Tree::insertRecursive calls it: in      *)
(* front of the entry whose child has split, or behind it.  InternalNode's  *)
(* find, which the entry comes from, has no body: any entry may be meant.   *)
(* The key may be in the node already.                                      *)
InsertBeside(n, key) ==
    \E i \in DOMAIN children[n], direction \in {"LEFT", "RIGHT"} :
        InsertAtPosition(n, IF direction = "RIGHT" THEN i ELSE i - 1, key)

-----------------------------------------------------------------------------
(* splitAndInsert(key, child, sibling) *)

(* invalid_argument, domain_error, or invalid_argument again *)
SplitRefused(n, key, pos) ==
    \/ TooBig(EntrySize(key))
    \/ SplitNotRequired(children[n], bytes[n], EntrySize(key))
    \/ IsDuplicate(children[n], key, pos)

SplitThrows(n, key, pos) == SplitRefused(n, key, pos) /\ UNCHANGED vars

(* Slip: the key stays in the node, as in a leaf. *)
KeyStays(s) == s

(* splitKey.swap(splitBeginIt->first) *)
KeySwappedOut(s) == [s EXCEPT ![SplitPoint(s) + 1] = Entry(Sentinel, @.child)]

RecordSplit(n, sibling, direction, key) ==
    IF split[n] = NoSplit
    THEN /\ split' = [split EXCEPT ![n] = [sibling   |-> sibling,
                                           direction |-> direction,
                                           key       |-> key]]
         /\ UNCHANGED aborted
    ELSE /\ aborted' = TRUE
         /\ UNCHANGED split

RecalculateBytes(n, sibling) ==
    IF aborted'
    THEN UNCHANGED bytes
    ELSE bytes' = [bytes EXCEPT ![n]       = BytesUsed(children'[n]),
                                ![sibling] = BytesUsed(children'[sibling])]

(* The sibling keeps the entry its constructor made; the others follow it. *)
SplitStores(n, key, sibling, pos) ==
    /\ ~SplitRefused(n, key, pos)
    /\ LET s == KeySwappedOut(children[n])
       IN  children' = [children EXCEPT
               ![sibling] = @ \o SiblingChildren(s, pos, Entry(key, key)),
               ![n]       = RemainingChildren(s, pos)]
    /\ RecordSplit(n, sibling, Direction(children[n], pos),
                   children[n][SplitPoint(children[n]) + 1].key)
    /\ RecalculateBytes(n, sibling)
    /\ UNCHANGED nodes

SplitAndInsert(n, key, sibling) ==
    \E pos \in 0 .. Len(children[n]) :
        /\ IsBoundary(children[n], 0, key, pos)
        /\ SplitThrows(n, key, pos) \/ SplitStores(n, key, sibling, pos)

-----------------------------------------------------------------------------
ChildNames(n) == {children[n][i].child : i \in DOMAIN children[n]}

KeysIn(s) == {s[i].key : i \in DOMAIN s} \ {Sentinel}

EntryCount == Cardinality(UNION {{n} \X DOMAIN children[n] : n \in nodes})

(* Keys that callers bring to n: of new children, or duplicates. *)
Offered(n) == KeysIn(children[n]) \cup (Keys \ UNION {ChildNames(m) : m \in nodes})

(* A sibling is constructed for the split and empty but for its first entry. *)
Split(n, key) ==
    \E sibling \in nodes \ {n} :
        /\ children[sibling] = Constructed(sibling)
        /\ SplitAndInsert(n, key, sibling)

Next ==
    /\ ~aborted
    /\ \/ \E n \in Nodes : Construct(n)
       \/ \E n \in nodes : \E key \in Offered(n) :
              /\ EntryCount <= MaxEntries
              /\ \/ Insert(n, key)
                 \/ InsertBeside(n, key)
                 \/ Split(n, key)

Spec == Init /\ [][Next]_vars

-----------------------------------------------------------------------------
(* How often a vector holds a child *)
Times(s, child) == Cardinality({i \in DOMAIN s : s[i].child = child})

Gains(before, after, key) ==
    \A c \in Keys \cup Nodes :
        Times(after, c) = Times(before, c) + IF c = key THEN 1 ELSE 0

(* The call takes the child named key to n, or splits n (or into n) and     *)
(* takes it to one of the two.                                              *)
Received(n, key) ==
    \/ Gains(children[n], children'[n], key)
    \/ \E s \in nodes \ {n} :
           Gains(children[n] \o children[s], children'[n] \o children'[s], key)

(* A call that changes a node files the child it was given once more, in    *)
(* the node or one of the halves, and leaves every other child as often     *)
(* filed as it was: a split loses no pointer and doubles none.  The child   *)
(* given may be filed already.  insert at a position takes it again, and so *)
(* does insert by key, which does not see what it filed before: it searches *)
(* behind the first entry but may have filed in front of it.                *)
ChildrenConserved ==
    [][\A n \in nodes : children'[n] # children[n] => \E key \in Keys : Received(n, key)]_vars

(* The constructor does not account for its child, a split accounts for     *)
(* every entry: mBytes is exact for nodes that have taken part in a split,  *)
(* and one pointer short for the others.                                    *)
BytesCounted ==
    ~aborted => \A n \in nodes :
        bytes[n] = BytesUsed(children[n]) -
            IF split[n] = NoSplit /\ \A m \in nodes : split[m] # NoSplit => split[m].sibling # n
            THEN PtrBytes
            ELSE 0

(* When insert answers FAILED_NO_SPACE, splitAndInsert throws exactly for a *)
(* key that its search finds in the node: its other conditions never stand  *)
(* in the way.  insert at a position has filed such keys, Tree files the    *)
(* split of a child again at each later insert through it, and has no       *)
(* handler for the exception that ends the series when the node is full.    *)
RefusedCanSplit ==
    ~aborted => \A n \in nodes, key \in Keys : \A pos \in 0 .. Len(children[n]) :
        /\ ~TooBig(EntrySize(key)) /\ EntrySize(key) > Available(bytes[n])
        /\ IsBoundary(children[n], 0, key, pos)
        => (SplitRefused(n, key, pos) <=> IsDuplicate(children[n], key, pos))

(* Sentinels first, then keys in ascending order *)
Orderly(s) ==
    \A i, j \in DOMAIN s :
        i < j => s[i].key < s[j].key \/ (s[i].key = Sentinel /\ s[j].key = Sentinel)

(* When an ordered node splits, the split key migrates: it is in neither    *)
(* half any more, all other keys are in one of them, and it divides all     *)
(* keys, the new one included, the sibling holding the side that the        *)
(* direction names.  The exception is a new key that lands exactly at the   *)
(* cut: it is above every old key below the split key, hence below the      *)
(* split key itself, and still goes to the RIGHT sibling, whose keys should *)
(* be GE than the split key.                                                *)
(* Every sibling has one sentinel more than the half it was given; where    *)
(* they are more than half of a node the cut is at one, the split key is    *)
(* empty, and no key is below it.                                           *)
SplitKeyMigrates ==
    [][\A n \in nodes :
           split'[n] # split[n] /\ Orderly(children[n]) =>
               LET k     == split'[n].key
                   old   == KeysIn(children[n])
                   kept  == KeysIn(children'[n])
                   moved == KeysIn(children'[split'[n].sibling])
                   left  == split'[n].direction = "LEFT"
                   lower == IF left THEN moved ELSE kept
                   upper == IF left THEN kept ELSE moved
               IN  /\ k \in old \cup {Sentinel}
                   /\ old \ {k} \subseteq kept \cup moved
                   /\ k \notin kept \cup moved
                   /\ \A a \in lower : a < k
                   /\ \A b \in upper :
                          \/ k < b
                          \/ ~left /\ b \notin old /\ \A a \in old : a < k => a < b]_vars

=============================================================================
