---------------------------- MODULE PageAllocator ----------------------------
(***************************************************************************)
(* PageAllocator (PageAllocator.hpp, PageAllocator.cpp): the doubly linked *)
(* list of dirty nodes, threaded through Node::nextDirty and               *)
(* Node::prevDirty.  Every thread that allocates a page calls dirty();     *)
(* the whole body runs under the exclusive mLatch, so a call is one step   *)
(* and the interleaving of threads is the order of those steps.            *)
(*                                                                         *)
(* The flush that iterates over the list through mFlushNext is not in this *)
(* repository (the comment in dirty() only names flushNextDirtyNode); the  *)
(* actions BeginFlush and FlushNext stand for it.                          *)
(***************************************************************************)
EXTENDS Integers, Sequences, FiniteSets, SequencesExt

CONSTANTS
    Nodes,
    Null

ASSUME NullAssumption == Null \notin Nodes
ASSUME NodesAssumption == IsFiniteSet(Nodes)

VARIABLES
    nextDirty,      \* Node::nextDirty
    prevDirty,      \* Node::prevDirty
    firstDirty,     \* mFirstDirty
    lastDirty,      \* mLastDirty
    flushNext,      \* mFlushNext
    dirtied,        \* history: the nodes dirtied, in the order of their last call
    unflushed       \* history: dirty when the flush began, neither handed
                    \* to the flush nor dirtied again since

links == <<nextDirty, prevDirty, firstDirty, lastDirty>>
vars == <<links, flushNext, dirtied, unflushed>>

(* The list without its links *)
History == INSTANCE DirtyOrder WITH order <- dirtied

(* Link fields start out null, as in the constructor that Node.cpp has      *)
(* commented out.                                                           *)
Init ==
    /\ nextDirty = [n \in Nodes |-> Null]
    /\ prevDirty = [n \in Nodes |-> Null]
    /\ firstDirty = Null
    /\ lastDirty = Null
    /\ flushNext = Null
    /\ dirtied = <<>>
    /\ unflushed = {}

-----------------------------------------------------------------------------
(* dirty(node) *)

(* Slip: the iterator is left on the node that moves. *)
KeepsFlushNext(n) == UNCHANGED flushNext

(* if (mFlushNext == node) { mFlushNext = next; }, next as read on entry *)
SkipFlushed(n) ==
    flushNext' = IF flushNext = n THEN nextDirty[n] ELSE flushNext

(* Slip: the successor of the moved node still points back at it. *)
LeavesBackLink(n) ==
    LET next == nextDirty[n]
        prev == prevDirty[n]
    IN  /\ next # Null
        /\ firstDirty' = IF prev = Null THEN next ELSE firstDirty
        /\ nextDirty' = [m \in Nodes |-> IF m = lastDirty THEN n
                                         ELSE IF m = n THEN Null
                                         ELSE IF m = prev THEN next
                                         ELSE nextDirty[m]]
        /\ prevDirty' = [prevDirty EXCEPT ![n] = lastDirty]
        /\ lastDirty' = n
        /\ SkipFlushed(n)

(* Slip: mFirstDirty keeps naming a node that has moved to the end. *)
KeepsFirst(n) ==
    LET next == nextDirty[n]
        prev == prevDirty[n]
    IN  /\ next # Null
        /\ nextDirty' = [m \in Nodes |-> IF m = lastDirty THEN n
                                         ELSE IF m = n THEN Null
                                         ELSE IF m = prev THEN next
                                         ELSE nextDirty[m]]
        /\ prevDirty' = [m \in Nodes |-> IF m = n THEN lastDirty
                                         ELSE IF m = next THEN prev
                                         ELSE prevDirty[m]]
        /\ lastDirty' = n
        /\ SkipFlushed(n)
        /\ UNCHANGED firstDirty

(* A node with a successor is unlinked and appended. *)
MoveToEnd(n) ==
    LET next == nextDirty[n]
        prev == prevDirty[n]
    IN  /\ next # Null
        /\ firstDirty' = IF prev = Null THEN next ELSE firstDirty
        /\ nextDirty' = [m \in Nodes |-> IF m = lastDirty THEN n
                                         ELSE IF m = n THEN Null
                                         ELSE IF m = prev THEN next
                                         ELSE nextDirty[m]]
        /\ prevDirty' = [m \in Nodes |-> IF m = n THEN lastDirty
                                         ELSE IF m = next THEN prev
                                         ELSE prevDirty[m]]
        /\ lastDirty' = n
        /\ SkipFlushed(n)

(* Slip: the only node of the list is appended to itself. *)
AppendsItself(n) ==
    /\ nextDirty[n] = Null
    /\ prevDirty[n] = Null
    /\ IF lastDirty = Null
       THEN /\ firstDirty' = n
            /\ UNCHANGED <<nextDirty, prevDirty>>
       ELSE /\ prevDirty' = [prevDirty EXCEPT ![n] = lastDirty]
            /\ nextDirty' = [nextDirty EXCEPT ![lastDirty] = n]
            /\ UNCHANGED firstDirty
    /\ lastDirty' = n
    /\ SkipFlushed(n)

(* A node with no neighbours that is not the last one is not in the list.   *)
AppendNew(n) ==
    /\ nextDirty[n] = Null
    /\ prevDirty[n] = Null
    /\ lastDirty # n
    /\ IF lastDirty = Null
       THEN /\ firstDirty' = n
            /\ UNCHANGED <<nextDirty, prevDirty>>
       ELSE /\ prevDirty' = [prevDirty EXCEPT ![n] = lastDirty]
            /\ nextDirty' = [nextDirty EXCEPT ![lastDirty] = n]
            /\ UNCHANGED firstDirty
    /\ lastDirty' = n
    /\ SkipFlushed(n)

(* The last of several nodes stays where it is, but leaves the flush. *)
StayLast(n) ==
    /\ nextDirty[n] = Null
    /\ prevDirty[n] # Null
    /\ lastDirty' = n
    /\ SkipFlushed(n)
    /\ UNCHANGED <<nextDirty, prevDirty, firstDirty>>

(* if (last == node) { return; } *)
StayAlone(n) ==
    /\ nextDirty[n] = Null
    /\ prevDirty[n] = Null
    /\ lastDirty = n
    /\ UNCHANGED <<links, flushNext>>

Dirty(n) ==
    /\ MoveToEnd(n) \/ AppendNew(n) \/ StayLast(n) \/ StayAlone(n)
    /\ History!Dirty(n)
    /\ unflushed' = unflushed \ {n}

-----------------------------------------------------------------------------
(* flush starts at the first dirty node ... *)
BeginFlush ==
    /\ flushNext = Null
    /\ flushNext' = firstDirty
    /\ unflushed' = Range(dirtied)
    /\ UNCHANGED <<links, dirtied>>

(* ... and hands out one node after the other. *)
FlushNext ==
    /\ flushNext # Null
    /\ flushNext' = nextDirty[flushNext]
    /\ unflushed' = unflushed \ {flushNext}
    /\ UNCHANGED <<links, dirtied>>

Next ==
    \/ \E n \in Nodes : Dirty(n)
    \/ BeginFlush
    \/ FlushNext

Spec == Init /\ [][Next]_vars

-----------------------------------------------------------------------------
FieldsOK ==
    /\ nextDirty \in [Nodes -> Nodes \cup {Null}]
    /\ prevDirty \in [Nodes -> Nodes \cup {Null}]
    /\ firstDirty \in Nodes \cup {Null}
    /\ lastDirty \in Nodes \cup {Null}
    /\ flushNext \in Nodes \cup {Null}
    /\ dirtied \in Seq(Nodes)
    /\ unflushed \subseteq Nodes

(* The links hold nodes or null, and dirty() never links a node to itself,  *)
(* not even the only one in the list.                                       *)
TypeOK ==
    /\ FieldsOK
    /\ \A n \in Nodes : nextDirty[n] # n /\ prevDirty[n] # n

(* dirtied[i], or null beyond either end *)
At(i) == IF i \in 1 .. Len(dirtied) THEN dirtied[i] ELSE Null

(* The four link fields of every node and of the allocator spell out the    *)
(* order of the calls: no node is lost, none is listed twice, both          *)
(* directions agree, and a node that was never dirtied is linked to nothing.*)
Linked ==
    /\ \A i, j \in 1 .. Len(dirtied) : dirtied[i] = dirtied[j] => i = j
    /\ firstDirty = At(1)
    /\ lastDirty = At(Len(dirtied))
    /\ \A i \in 1 .. Len(dirtied) :
          /\ nextDirty[dirtied[i]] = At(i + 1)
          /\ prevDirty[dirtied[i]] = At(i - 1)
    /\ \A n \in Nodes \ Range(dirtied) : nextDirty[n] = Null /\ prevDirty[n] = Null

(* A flush in progress skips nothing: a node that was dirty when it began,  *)
(* and was neither handed out nor dirtied again, is still ahead of          *)
(* mFlushNext.  dirty() unlinks the very node the iterator stands on.       *)
NoneSkipped ==
    \A n \in unflushed : \E i, j \in 1 .. Len(dirtied) :
        i <= j /\ dirtied[i] = flushNext /\ dirtied[j] = n

(* What following nextDirty from n on meets at each step, null at the end *)
Hops(n) ==
    LET at[i \in Nat] == IF i = 0 THEN n
                         ELSE IF at[i - 1] = Null THEN Null ELSE nextDirty[at[i - 1]]
    IN  at

(* The nodes from n on; only a cycle reaches the bound *)
Chain(n) ==
    LET bound == Cardinality(Nodes) + 1
        len == CHOOSE i \in 0 .. bound :
                  /\ Hops(n)[i] = Null \/ i = bound
                  /\ \A j \in 0 .. i - 1 : Hops(n)[j] # Null
    IN  [i \in 1 .. len |-> Hops(n)[i - 1]]

(* Whoever follows nextDirty from mFirstDirty sees the nodes in the order   *)
(* PageAllocator documents: the linked list implements DirtyOrder.          *)
ByLinks == INSTANCE DirtyOrder WITH order <- Chain(firstDirty)
IteratedInOrder == ByLinks!Spec
=============================================================================
