---------------------------- MODULE LatchCoupling ----------------------------
(***************************************************************************)
(* ops::find called by several threads, each with a cursor of its own, on  *)
(* one tree: every thread latches the root and then works its way down,    *)
(* releasing a node's latch once it has the latch of the child.            *)
(*                                                                         *)
(* The code binds no frame to a cursor yet, so a cursor's stack is empty   *)
(* whenever find begins, and nothing replaces the root or a child.  Which  *)
(* child a key leads to is left open, as InternalNode::lowerBound is       *)
(* unfinished; findValue always throws.                                    *)
(***************************************************************************)
EXTENDS Integers, FiniteSets

CONSTANTS
    Threads,
    Nodes,
    Root,       \* Tree::root
    Kids,       \* the children of each node; a leaf has none
    Above,      \* the nodes on the path from the root to each node
    None        \* a lock object without a latch

ASSUME TreeAssumption ==
    /\ Root \in Nodes /\ None \notin Nodes
    /\ Kids \in [Nodes -> SUBSET Nodes]
    /\ Above[Root] = {Root}
    /\ \A n \in Nodes : \A c \in Kids[n] :
           /\ c # n
           /\ Above[c] = Above[n] \cup {c}
           /\ \A m \in Nodes : c \in Above[m] => n \in Above[m]

ASSUME ThreadsAssumption == IsFiniteSet(Threads)

VARIABLES
    latched,    \* the nodes whose Latch is locked exclusively
    pc,         \* where in find a thread is
    node,       \* the local variables of find
    childNode,
    parentLock, \* what the scoped_exclusive_lock objects own
    childLock,
    ahead       \* history: the finds that had entered the tree before

vars == <<latched, pc, node, childNode, parentLock, childLock, ahead>>

Init ==
    /\ latched = {}
    /\ pc = [t \in Threads |-> "idle"]
    /\ node = [t \in Threads |-> None]
    /\ childNode = [t \in Threads |-> None]
    /\ parentLock = [t \in Threads |-> None]
    /\ childLock = [t \in Threads |-> None]
    /\ ahead = [t \in Threads |-> {}]

Goto(t, from, to) == pc[t] = from /\ pc' = [pc EXCEPT ![t] = to]

Inside(t) == parentLock[t] # None

-----------------------------------------------------------------------------
(* findChildNode(node, key): one of these *)
FindChildNode(n) == Kids[n]

isLeaf(n) == Kids[n] = {}

(* isSplit is a stub: no child is ever found split, and the branch that     *)
(* would repair it is never taken.                                          *)
isSplit(n) == FALSE

Call(t) ==
    /\ Goto(t, "idle", "lockRoot")
    /\ UNCHANGED <<latched, node, childNode, parentLock, childLock, ahead>>

(* The latch of the root moves into parentLock; node = tree.root.           *)
LockRoot(t) ==
    /\ Goto(t, "lockRoot", "search")
    /\ Root \notin latched
    /\ latched' = latched \cup {Root}
    /\ parentLock' = [parentLock EXCEPT ![t] = Root]
    /\ node' = [node EXCEPT ![t] = Root]
    /\ ahead' = [ahead EXCEPT ![t] = {u \in Threads : Inside(u)}]
    /\ UNCHANGED <<childNode, childLock>>

(* Slip: the parent's latch is given up before the child's is taken. *)
LetsGo(t) ==
    /\ Goto(t, "search", "lockChild")
    /\ \E c \in FindChildNode(node[t]) : childNode' = [childNode EXCEPT ![t] = c]
    /\ latched' = latched \ {parentLock[t]}
    /\ UNCHANGED <<node, parentLock, childLock, ahead>>

(* childNode = findChildNode(in, key) *)
PickChild(t) ==
    /\ Goto(t, "search", "lockChild")
    /\ \E c \in FindChildNode(node[t]) : childNode' = [childNode EXCEPT ![t] = c]
    /\ UNCHANGED <<latched, node, parentLock, childLock, ahead>>

(* scoped_exclusive_lock childLock on childNode *)
LockChild(t) ==
    /\ Goto(t, "lockChild", "swap")
    /\ childNode[t] \notin latched
    /\ latched' = latched \cup {childNode[t]}
    /\ childLock' = [childLock EXCEPT ![t] = childNode[t]]
    /\ UNCHANGED <<node, childNode, parentLock, ahead>>

(* Slip: the two locks are not swapped. *)
ReleasesChild(t) ==
    /\ Goto(t, "swap", "search")
    /\ latched' = latched \ {childLock[t]}
    /\ childLock' = [childLock EXCEPT ![t] = None]
    /\ node' = [node EXCEPT ![t] = childNode[t]]
    /\ UNCHANGED <<childNode, parentLock, ahead>>

(* Slip: isSplit answers true, and find searches the node again. *)
Continues(t) ==
    /\ Goto(t, "swap", "search")
    /\ latched' = latched \ {childLock[t]}
    /\ childLock' = [childLock EXCEPT ![t] = None]
    /\ UNCHANGED <<node, childNode, parentLock, ahead>>

(* std::swap(parentLock, childLock), the destructor of childLock, which now *)
(* owns the parent's latch, and node = childNode                            *)
SwapLocks(t) ==
    /\ Goto(t, "swap", "search")
    /\ ~isSplit(childNode[t])
    /\ parentLock' = [parentLock EXCEPT ![t] = childLock[t]]
    /\ childLock' = [childLock EXCEPT ![t] = None]
    /\ latched' = latched \ {parentLock[t]}
    /\ node' = [node EXCEPT ![t] = childNode[t]]
    /\ UNCHANGED <<childNode, ahead>>

(* Slip: an exception leaves the leaf latched. *)
KeepsLatch(t) ==
    /\ Goto(t, "search", "idle")
    /\ isLeaf(node[t])
    /\ parentLock' = [parentLock EXCEPT ![t] = None]
    /\ ahead' = [u \in Threads |-> IF u = t THEN {} ELSE ahead[u] \ {t}]
    /\ UNCHANGED <<latched, node, childNode, childLock>>

(* Slip: the latch is released, but not through the lock object. *)
LockStillOwns(t) ==
    /\ Goto(t, "search", "idle")
    /\ isLeaf(node[t])
    /\ latched' = latched \ {parentLock[t]}
    /\ ahead' = [u \in Threads |-> IF u = t THEN {} ELSE ahead[u] \ {t}]
    /\ UNCHANGED <<node, childNode, parentLock, childLock>>

(* findValue throws; the destructor of parentLock releases the leaf. *)
FindValue(t) ==
    /\ Goto(t, "search", "idle")
    /\ isLeaf(node[t])
    /\ latched' = latched \ {parentLock[t]}
    /\ parentLock' = [parentLock EXCEPT ![t] = None]
    /\ ahead' = [u \in Threads |-> IF u = t THEN {} ELSE ahead[u] \ {t}]
    /\ UNCHANGED <<node, childNode, childLock>>

Find(t) ==
    LockRoot(t) \/ PickChild(t) \/ LockChild(t) \/ SwapLocks(t) \/ FindValue(t)

Next == \E t \in Threads : Call(t) \/ Find(t)

Spec == Init /\ [][Next]_vars

(* A thread inside find keeps running unless it waits for a latch, and a    *)
(* latch that stays free is taken; that a latch is handed out fairly is not *)
(* assumed (Latch.hpp: "using unfair acquisition").                         *)
FairSpec == Spec /\ \A t \in Threads : WF_vars(Find(t))

-----------------------------------------------------------------------------
(* The variables keep their types, and a thread outside find owns no latch. *)
TypeOK ==
    /\ latched \subseteq Nodes
    /\ pc \in [Threads -> {"idle", "lockRoot", "search", "lockChild", "swap"}]
    /\ node \in [Threads -> Nodes \cup {None}]
    /\ childNode \in [Threads -> Nodes \cup {None}]
    /\ parentLock \in [Threads -> Nodes \cup {None}]
    /\ childLock \in [Threads -> Nodes \cup {None}]
    /\ ahead \in [Threads -> SUBSET Threads]
    /\ \A t \in Threads :
           pc[t] \in {"idle", "lockRoot"} => parentLock[t] = None /\ childLock[t] = None

Owned(t) == {parentLock[t], childLock[t]} \ {None}

(* Every locked latch is owned by the lock objects of exactly one thread,   *)
(* and is released with them: none leaks and none is released twice.        *)
LatchesOwned ==
    /\ latched = UNION {Owned(t) : t \in Threads}
    /\ \A t, u \in Threads : t # u => Owned(t) \cap Owned(u) = {}

(* find looks into a node, and reads the pointer to a child, only while it  *)
(* holds the latch of that node; it waits for a second latch only while     *)
(* holding that of the parent, so no circle of waiting threads can close.   *)
SearchesLatched ==
    \A t \in Threads :
        /\ pc[t] \in {"search", "lockChild", "swap"} =>
               parentLock[t] = node[t] /\ node[t] \in latched
        /\ pc[t] \in {"lockChild", "swap"} => childNode[t] \in Kids[node[t]]
        /\ pc[t] \in {"search", "lockChild"} => childLock[t] = None

(* The deepest node a thread has latched *)
At(t) == IF childLock[t] # None THEN childLock[t] ELSE parentLock[t]

(* Finds pass through a node in the order in which they latched the root: a *)
(* find that entered earlier is never above one that entered later.         *)
NoOvertaking ==
    \A t \in Threads : \A u \in ahead[t] : Inside(t) => At(u) \notin Above[At(t)]

(* While a find is under way, some find comes to an end: the threads never  *)
(* all wait for each other.                                                 *)
SomeFindEnds ==
    (\E t \in Threads : pc[t] # "idle")
        ~> \E t \in Threads : pc[t] = "search" /\ Kids[node[t]] = {}
=============================================================================
