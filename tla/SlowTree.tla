------------------------------- MODULE SlowTree -------------------------------
(***************************************************************************)
(* slow::Tree on top of LeafNode: insert descends to a leaf, splits it     *)
(* when it is full, and files the sibling in the internal node above.      *)
(*                                                                         *)
(* The tree has the two levels that its constructor makes: allocateInternal*)
(* puts a null pointer into mInternalNodes, so splitting the root          *)
(* dereferences null and the process is gone.  InternalNode::find, which   *)
(* chooses the way down, only throws; it is left open here and may return  *)
(* any entry of the root, so what holds does so for every find.  The build *)
(* is the one with asserts.                                                *)
(***************************************************************************)
EXTENDS LeafNode

CONSTANTS
    KeyBytes,   \* key.size()
    PtrBytes    \* sizeof(Node*)

ASSUME TreeAssumption ==
    /\ Keys \subseteq Nat \ {0}
    /\ KeyBytes \in [Keys -> Nat]
    /\ PtrBytes \in Nat

VARIABLES
    root,       \* mRoot's mChildren
    rootBytes,  \* mRoot's mBytes
    crashed     \* a null pointer has been dereferenced

rootVars == <<root, rootBytes, crashed>>
treeVars == <<leaves, children, bytes, split, aborted, root, rootBytes, crashed>>

(* The empty key of the constructor's child, smaller than every other *)
Sentinel == 0

TreeInit ==
    /\ Init
    /\ root = <<[key |-> Sentinel, child |-> FirstLeaf]>>
    /\ rootBytes = 0
    /\ crashed = FALSE

(* verifiedEntrySize of an entry of the root, for a key of a leaf *)
FiledBytes(key) == KeyBytes[key] + PtrBytes

-----------------------------------------------------------------------------
(* Tree::insertRecursive at the root, when the leaf below it returns *)

(* Slip: the existing entry is repointed and the old node forgotten. *)
Repoints(i, s) ==
    IF s.direction = "LEFT"
    THEN [root EXCEPT ![i].child = s.sibling]
    ELSE InsertAt(root, i + 1, [key |-> s.key, child |-> s.sibling])

(* Slip: filed under the key of the entry next to it. *)
FiledUnderNeighbour(i, s) ==
    InsertAt(root, IF s.direction = "RIGHT" THEN i + 1 ELSE i,
             [key |-> root[i].key, child |-> s.sibling])

(* cur.insert(nextIt, ...), nextIt advanced by one for a RIGHT split *)
Filed(i, s) ==
    InsertAt(root, IF s.direction = "RIGHT" THEN i + 1 ELSE i,
             [key |-> s.key, child |-> s.sibling])

(* INSERTED *)
FileStores(i, s) ==
    /\ FiledBytes(s.key) <= Available(rootBytes)
    /\ root' = Filed(i, s)
    /\ rootBytes' = rootBytes + FiledBytes(s.key)
    /\ UNCHANGED crashed

(* allocateInternal: a unique_ptr that owns nothing, and the null pointer   *)
(* that it holds is dereferenced.                                           *)
AllocateInternal ==
    /\ crashed' = TRUE
    /\ UNCHANGED <<root, rootBytes>>

(* FAILED_NO_SPACE, then splitAndInsert(..., *allocateInternal()), whose    *)
(* first line asks the sibling for its type                                 *)
FileSplitsRoot(s) ==
    /\ FiledBytes(s.key) > Available(rootBytes)
    /\ AllocateInternal

(* hasSibling() is asked of the leaf as it is now.  It stays true once the  *)
(* leaf has split, so the sibling is filed again by every later insert that *)
(* comes this way.  A key too long for an internal entry throws, with the   *)
(* leaf split and the sibling not filed.                                    *)
FileSibling(i) ==
    LET s == split'[root[i].child]
    IN  IF aborted' \/ s = NoSplit \/ TooBig(FiledBytes(s.key))
        THEN UNCHANGED rootVars
        ELSE FileStores(i, s) \/ FileSplitsRoot(s)

-----------------------------------------------------------------------------
(* Slip: mLeafNodes.front() for mLeafNodes.back(). *)
ReturnsFirst == {FirstLeaf}

(* allocateLeaf *)
Allocatable == Nodes \ leaves

(* Tree::insertRecursive at the leaf below the root's i-th entry: insert,   *)
(* and splitAndInsert into a new leaf if that is refused.  splitAndInsert   *)
(* does not throw then, see RefusedCanSplit.                                *)
InsertBelow(i, key, size) ==
    LET n == root[i].child
    IN  \E pos \in 0 .. Len(children[n]) :
            /\ IsLowerBound(children[n], key, pos)
            /\ \/ InsertThrows(n, key, size, pos) /\ UNCHANGED rootVars
               \/ InsertStores(n, key, size, pos) /\ FileSibling(i)
               \/ /\ NoSpace(n, size)
                  /\ \E sibling \in Allocatable : SplitStores(n, key, size, sibling, pos)
                  /\ FileSibling(i)

(* Tree::insert(key, value), by whichever entry of the root find returns *)
TreeInsert(key, size) ==
    \E i \in DOMAIN root : InsertBelow(i, key, size)

TreeNext ==
    /\ ~aborted /\ ~crashed
    /\ \E key \in Keys, size \in Sizes : KeyBytes[key] <= size /\ TreeInsert(key, size)

TreeSpec == TreeInit /\ [][TreeNext]_treeVars

-----------------------------------------------------------------------------
(* Node::mSplit of leaf n speaks of leaf s under key. *)
Recorded(n, key, s) ==
    split[n] # NoSplit /\ split[n].key = key /\ split[n].sibling = s

(* The root is typed, its first child is never lost, and every other entry  *)
(* repeats what some leaf recorded when it split: the right key with the    *)
(* right node, however often the stale mSplit has been filed.               *)
FiledAsRecorded ==
    /\ \E i \in DOMAIN root : root[i] = [key |-> Sentinel, child |-> FirstLeaf]
    /\ \A i \in DOMAIN root :
           \/ root[i] = [key |-> Sentinel, child |-> FirstLeaf]
           \/ \E n \in leaves : Recorded(n, root[i].key, root[i].child)

(* A leaf can be reached from the root as soon as insert returns, but for   *)
(* one case: its split key fits into an entry of a leaf and, with a pointer *)
(* instead of the value, not into an entry of an internal node.             *)
LeavesFiled ==
    ~aborted /\ ~crashed => \A s \in leaves :
        \/ \E i \in DOMAIN root : root[i].child = s
        \/ \E n \in leaves, key \in Keys : Recorded(n, key, s) /\ TooBig(FiledBytes(key))

(* The tree uses its leaves by insert and splitAndInsert only, and every    *)
(* split brings a leaf of its own: it implements LeafNode's specification.  *)
DrivesLeaves == Spec

Store == INSTANCE EntryStore WITH
             Entries <- Entry, stored <- UNION {Contents(n) : n \in leaves}

(* The leaves together keep every entry that insert has taken in, also when *)
(* it threw, aborted or crashed on the way: Tree implements EntryStore.     *)
KeepsEntries == Store!Spec

-----------------------------------------------------------------------------
(* What the repository says of the tree and the code does not keep.         *)

(* Node.cpp: "Every internal node key maintain a pointer to a child whose   *)
(* keys are GE than itself" - of a leaf whose split was just filed, and     *)
(* that the split was to its left.                                          *)
LeftSiblingGE ==
    [][\A n \in leaves :
           /\ split'[n] # split[n]
           /\ split'[n].direction = "LEFT"
           => \A i \in DOMAIN root' : root'[i].child = split'[n].sibling =>
                  \A e \in Range(children'[split'[n].sibling]) : root'[i].key <= e.key]_treeVars
=============================================================================
