------------------------ MODULE LatchCoupling_proofs ------------------------
(***************************************************************************)
(* For any number of threads on a tree of any shape: latches are owned by  *)
(* one thread and never leak, find looks only into nodes it has latched,   *)
(* no find overtakes another, and there is no deadlock.                    *)
(***************************************************************************)
EXTENDS LatchCoupling, FiniteSetTheorems, WellFoundedInduction, TLAPS

InTree == {"search", "lockChild", "swap"}

(* Where find is tells which of its two locks own a latch.                  *)
LocksMatchPc ==
    \A t \in Threads :
        /\ (pc[t] \in InTree) <=> Inside(t)
        /\ (pc[t] = "swap") <=> (childLock[t] # None)
        /\ pc[t] = "swap" => childLock[t] = childNode[t] /\ childLock[t] # parentLock[t]

(* Only finds that are still inside are ahead of another.                   *)
AheadInside ==
    \A t \in Threads :
        /\ \A u \in ahead[t] : u # t /\ Inside(u)
        /\ ~Inside(t) => ahead[t] = {}

IInv ==
    /\ TypeOK
    /\ LatchesOwned
    /\ SearchesLatched
    /\ LocksMatchPc
    /\ AheadInside
    /\ NoOvertaking

-----------------------------------------------------------------------------
LEMMA OwnedFacts ==
    ASSUME TypeOK, LocksMatchPc, NEW t \in Threads
    PROVE  /\ Owned(t) \subseteq Nodes
           /\ Inside(t) => At(t) \in Owned(t) /\ At(t) \in Nodes
           /\ ~Inside(t) => Owned(t) = {}
           /\ pc[t] # "swap" => At(t) = parentLock[t]
           /\ pc[t] = "swap" => At(t) = childLock[t]
<1>1. parentLock[t] \in Nodes \cup {None} /\ childLock[t] \in Nodes \cup {None}
  BY DEF TypeOK
<1>2. /\ pc[t] = "swap" => Inside(t)
      /\ (pc[t] = "swap") <=> (childLock[t] # None)
  BY DEF LocksMatchPc, InTree
<1>3. QED
  BY <1>1, <1>2 DEF Owned, At, Inside

LEMMA InitInv == Init => IInv
  BY TreeAssumption
  DEF Init, IInv, TypeOK, LatchesOwned, Owned, SearchesLatched, LocksMatchPc, InTree,
      AheadInside, NoOvertaking, Inside

LEMMA CallInv == ASSUME IInv, NEW t \in Threads, Call(t) PROVE IInv'
<1>1. UNCHANGED <<latched, node, childNode, parentLock, childLock, ahead>>
  BY DEF Call
<1>2. /\ pc[t] = "idle" /\ pc' = [pc EXCEPT ![t] = "lockRoot"]
      /\ pc \in [Threads -> {"idle", "lockRoot", "search", "lockChild", "swap"}]
  BY DEF Call, Goto, IInv, TypeOK
<1>3. TypeOK'
  BY <1>1, <1>2 DEF IInv, TypeOK
<1>4. LatchesOwned' /\ AheadInside' /\ NoOvertaking'
  <2>1. LatchesOwned'
    BY <1>1 DEF IInv, LatchesOwned, Owned
  <2>2. AheadInside' /\ NoOvertaking'
    BY <1>1 DEF IInv, AheadInside, NoOvertaking, Inside, At
  <2>3. QED
    BY <2>1, <2>2
<1>5. SearchesLatched' /\ LocksMatchPc'
  BY <1>1, <1>2 DEF IInv, SearchesLatched, LocksMatchPc, InTree, Inside
<1>6. QED
  BY <1>3, <1>4, <1>5 DEF IInv

LEMMA PickChildInv == ASSUME IInv, NEW t \in Threads, PickChild(t) PROVE IInv'
<1>1. UNCHANGED <<latched, node, parentLock, childLock, ahead>>
  BY DEF PickChild
<1>2. /\ pc[t] = "search" /\ pc' = [pc EXCEPT ![t] = "lockChild"]
      /\ pc \in [Threads -> {"idle", "lockRoot", "search", "lockChild", "swap"}]
  BY DEF PickChild, Goto, IInv, TypeOK
<1>3. PICK c \in Kids[node[t]] : childNode' = [childNode EXCEPT ![t] = c]
  BY DEF PickChild, FindChildNode
<1>4. childNode \in [Threads -> Nodes \cup {None}] /\ node[t] \in Nodes /\ c \in Nodes
  <2>1. node[t] = parentLock[t] /\ parentLock[t] # None
    BY <1>2 DEF IInv, SearchesLatched, LocksMatchPc, InTree, Inside
  <2>2. node[t] \in Nodes
    BY <2>1 DEF IInv, TypeOK
  <2>3. QED
    BY <1>3, <2>2, TreeAssumption DEF IInv, TypeOK
<1>5. TypeOK'
  BY <1>1, <1>2, <1>3, <1>4 DEF IInv, TypeOK
<1>6. LatchesOwned' /\ AheadInside' /\ NoOvertaking'
  <2>1. LatchesOwned'
    BY <1>1 DEF IInv, LatchesOwned, Owned
  <2>2. AheadInside' /\ NoOvertaking'
    BY <1>1 DEF IInv, AheadInside, NoOvertaking, Inside, At
  <2>3. QED
    BY <2>1, <2>2
<1>7. SearchesLatched'
  BY <1>1, <1>2, <1>3, <1>4 DEF IInv, SearchesLatched
<1>8. LocksMatchPc'
  BY <1>1, <1>2, <1>3, <1>4 DEF IInv, LocksMatchPc, InTree, Inside
<1>9. QED
  BY <1>5, <1>6, <1>7, <1>8 DEF IInv

(* A thread t that takes the latch of n, or gives it up, while the others   *)
(* keep theirs, leaves every latch with one owner.                          *)
LEMMA TakeLatch ==
    ASSUME LatchesOwned, NEW t \in Threads, NEW n,
           n \notin latched, latched' = latched \cup {n},
           Owned(t)' = Owned(t) \cup {n},
           \A u \in Threads \ {t} : Owned(u)' = Owned(u)
    PROVE  LatchesOwned'
<1>1. latched' = UNION {Owned(u)' : u \in Threads}
  BY DEF LatchesOwned
<1>2. \A u \in Threads : n \notin Owned(u)
  BY DEF LatchesOwned
<1>3. ASSUME NEW u \in Threads, NEW v \in Threads, u # v
      PROVE  Owned(u)' \cap Owned(v)' = {}
  <2>1. Owned(u) \cap Owned(v) = {}
    BY <1>3 DEF LatchesOwned
  <2>2. QED
    BY <1>2, <1>3, <2>1
<1>4. QED
  BY <1>1, <1>3 DEF LatchesOwned

LEMMA ReleaseLatch ==
    ASSUME LatchesOwned, NEW t \in Threads, NEW n,
           n \in Owned(t), latched' = latched \ {n},
           Owned(t)' = Owned(t) \ {n},
           \A u \in Threads \ {t} : Owned(u)' = Owned(u)
    PROVE  LatchesOwned'
<1>1. \A u \in Threads \ {t} : n \notin Owned(u)
  BY DEF LatchesOwned
<1>2. \A u \in Threads : Owned(u)' = Owned(u) \ {n}
  BY <1>1
<1>3. latched' = UNION {Owned(u)' : u \in Threads}
  BY <1>2 DEF LatchesOwned
<1>4. ASSUME NEW u \in Threads, NEW v \in Threads, u # v
      PROVE  Owned(u)' \cap Owned(v)' = {}
  <2>1. Owned(u) \cap Owned(v) = {}
    BY <1>4 DEF LatchesOwned
  <2>2. QED
    BY <1>2, <2>1
<1>5. QED
  BY <1>3, <1>4 DEF LatchesOwned

LEMMA LockRootInv == ASSUME IInv, NEW t \in Threads, LockRoot(t) PROVE IInv'
<1>1. UNCHANGED <<childNode, childLock>>
  BY DEF LockRoot
<1>2. /\ pc[t] = "lockRoot" /\ pc' = [pc EXCEPT ![t] = "search"]
      /\ pc \in [Threads -> {"idle", "lockRoot", "search", "lockChild", "swap"}]
      /\ parentLock[t] = None /\ childLock[t] = None
  BY DEF LockRoot, Goto, IInv, TypeOK
<1>3. /\ parentLock' = [parentLock EXCEPT ![t] = Root]
      /\ node' = [node EXCEPT ![t] = Root]
      /\ ahead' = [ahead EXCEPT ![t] = {u \in Threads : Inside(u)}]
      /\ latched' = latched \cup {Root} /\ Root \notin latched
  BY DEF LockRoot
<1>4. /\ parentLock \in [Threads -> Nodes \cup {None}]
      /\ node \in [Threads -> Nodes \cup {None}]
      /\ ahead \in [Threads -> SUBSET Threads]
      /\ Root \in Nodes /\ Root # None
  BY TreeAssumption DEF IInv, TypeOK
<1>5. TypeOK'
  <2>1. latched' \subseteq Nodes
    BY <1>3, <1>4 DEF IInv, TypeOK
  <2>2. pc' \in [Threads -> {"idle", "lockRoot", "search", "lockChild", "swap"}]
    BY <1>2
  <2>3. ahead' \in [Threads -> SUBSET Threads]
    BY <1>3, <1>4
  <2>4. QED
    BY <1>1, <1>2, <1>3, <1>4, <2>1, <2>2, <2>3 DEF IInv, TypeOK
<1>6. LatchesOwned'
  <2>1. Owned(t)' = Owned(t) \cup {Root}
    BY <1>1, <1>2, <1>3, <1>4 DEF Owned
  <2>2. \A u \in Threads \ {t} : Owned(u)' = Owned(u)
    BY <1>1, <1>3, <1>4 DEF Owned
  <2>3. QED
    BY <1>3, <2>1, <2>2, TakeLatch DEF IInv
<1>7. SearchesLatched'
  BY <1>1, <1>2, <1>3, <1>4 DEF IInv, SearchesLatched
<1>8. LocksMatchPc'
  BY <1>1, <1>2, <1>3, <1>4 DEF IInv, LocksMatchPc, InTree, Inside
<1>9. AheadInside'
  BY <1>2, <1>3, <1>4 DEF IInv, AheadInside, Inside
<1>10. ASSUME NEW v \in Threads, NEW u \in ahead'[v], Inside(v)'
       PROVE  At(u)' \notin Above[At(v)']
  <2>1. \A w \in Threads \ {t} : At(w)' = At(w) /\ Inside(w)' = Inside(w)
    BY <1>1, <1>3, <1>4 DEF At, Inside
  <2>2. CASE v = t
    <3>1. u \in Threads /\ Inside(u) /\ u # t
      BY <1>2, <1>3, <1>4, <2>2 DEF Inside
    <3>2. At(u) \in latched
      BY <3>1, OwnedFacts DEF IInv, LatchesOwned
    <3>3. At(v)' = Root
      BY <1>1, <1>2, <1>3, <1>4, <2>2 DEF At
    <3>4. QED
      BY <1>3, <2>1, <3>1, <3>2, <3>3, TreeAssumption
  <2>3. CASE v # t
    <3>1. u \in ahead[v] /\ u \in Threads
      BY <1>3, <1>4, <2>3
    <3>2. u # t
      BY <1>2, <3>1 DEF IInv, AheadInside, Inside
    <3>3. QED
      BY <1>10, <2>1, <2>3, <3>1, <3>2 DEF IInv, NoOvertaking
  <2>4. QED
    BY <2>2, <2>3
<1>11. QED
  BY <1>5, <1>6, <1>7, <1>8, <1>9, <1>10 DEF IInv, NoOvertaking

LEMMA LockChildInv == ASSUME IInv, NEW t \in Threads, LockChild(t) PROVE IInv'
<1>1. UNCHANGED <<node, childNode, parentLock, ahead>>
  BY DEF LockChild
<1> DEFINE c == childNode[t]
<1>2. /\ pc[t] = "lockChild" /\ pc' = [pc EXCEPT ![t] = "swap"]
      /\ pc \in [Threads -> {"idle", "lockRoot", "search", "lockChild", "swap"}]
  BY DEF LockChild, Goto, IInv, TypeOK
<1>3. /\ childLock' = [childLock EXCEPT ![t] = c]
      /\ latched' = latched \cup {c} /\ c \notin latched
  BY DEF LockChild
<1>4. /\ parentLock[t] = node[t] /\ node[t] \in latched /\ c \in Kids[node[t]]
      /\ childLock[t] = None /\ Inside(t)
  BY <1>2 DEF IInv, SearchesLatched, LocksMatchPc, InTree
<1>5. /\ childLock \in [Threads -> Nodes \cup {None}]
      /\ node[t] \in Nodes /\ c \in Nodes /\ c # None /\ c # node[t]
  BY <1>3, <1>4, TreeAssumption DEF IInv, TypeOK
<1> HIDE DEF c
<1>6. TypeOK'
  BY <1>1, <1>2, <1>3, <1>5 DEF IInv, TypeOK
<1>7. LatchesOwned'
  <2>1. Owned(t)' = Owned(t) \cup {c}
    BY <1>1, <1>3, <1>4, <1>5 DEF Owned
  <2>2. \A u \in Threads \ {t} : Owned(u)' = Owned(u)
    BY <1>1, <1>3, <1>5 DEF Owned
  <2>3. QED
    BY <1>3, <2>1, <2>2, TakeLatch DEF IInv
<1>8. SearchesLatched'
  BY <1>1, <1>2, <1>3, <1>5 DEF IInv, SearchesLatched
<1>9. LocksMatchPc'
  BY <1>1, <1>2, <1>3, <1>4, <1>5 DEF IInv, LocksMatchPc, InTree, Inside, c
<1>10. AheadInside'
  BY <1>1 DEF IInv, AheadInside, Inside
<1>11. /\ \A w \in Threads \ {t} : At(w)' = At(w)
       /\ At(t)' = c /\ At(t) = node[t]
       /\ \A w \in Threads : Inside(w)' = Inside(w)
  BY <1>1, <1>3, <1>4, <1>5 DEF At, Inside
<1>12. ASSUME NEW v \in Threads, NEW u \in ahead[v], Inside(v)
       PROVE  At(u)' \notin Above[At(v)']
  <2>1. /\ u \in Threads /\ u # v /\ Inside(u)
        /\ At(u) \notin Above[At(v)] /\ At(v) \in Nodes
    BY <1>12, OwnedFacts DEF IInv, TypeOK, AheadInside, NoOvertaking
  <2>2. CASE v = t
    <3>1. At(u) \in latched
      BY <2>1, OwnedFacts DEF IInv, LatchesOwned
    <3>2. At(u) # c /\ At(u) \notin Above[node[t]]
      BY <1>3, <1>11, <2>1, <2>2, <3>1
    <3>3. Above[c] = Above[node[t]] \cup {c}
      BY <1>4, <1>5, TreeAssumption
    <3>4. QED
      BY <1>11, <2>1, <2>2, <3>2, <3>3
  <2>3. CASE u = t
    <3>1. node[t] \notin Above[At(v)]
      BY <1>11, <2>1, <2>3
    <3>2. c \notin Above[At(v)]
      BY <1>4, <1>5, <2>1, <3>1, TreeAssumption
    <3>3. QED
      BY <1>11, <2>1, <2>3, <3>2
  <2>4. CASE u # t /\ v # t
    BY <1>11, <2>1, <2>4
  <2>5. QED
    BY <2>2, <2>3, <2>4
<1>13. QED
  BY <1>1, <1>6, <1>7, <1>8, <1>9, <1>10, <1>11, <1>12 DEF IInv, NoOvertaking

LEMMA SwapLocksInv == ASSUME IInv, NEW t \in Threads, SwapLocks(t) PROVE IInv'
<1>1. UNCHANGED <<childNode, ahead>>
  BY DEF SwapLocks
<1>2. /\ pc[t] = "swap" /\ pc' = [pc EXCEPT ![t] = "search"]
      /\ pc \in [Threads -> {"idle", "lockRoot", "search", "lockChild", "swap"}]
  BY DEF SwapLocks, Goto, IInv, TypeOK
<1>3. /\ parentLock' = [parentLock EXCEPT ![t] = childLock[t]]
      /\ childLock' = [childLock EXCEPT ![t] = None]
      /\ latched' = latched \ {parentLock[t]}
      /\ node' = [node EXCEPT ![t] = childNode[t]]
  BY DEF SwapLocks
<1>4. /\ parentLock[t] # None /\ childLock[t] # None
      /\ childLock[t] = childNode[t] /\ childLock[t] # parentLock[t]
  BY <1>2 DEF IInv, LocksMatchPc, InTree, Inside
<1>5. /\ parentLock \in [Threads -> Nodes \cup {None}]
      /\ childLock \in [Threads -> Nodes \cup {None}]
      /\ node \in [Threads -> Nodes \cup {None}]
      /\ childNode \in [Threads -> Nodes \cup {None}]
  BY DEF IInv, TypeOK
<1>6. TypeOK'
  <2>1. latched' \subseteq Nodes
    BY <1>3 DEF IInv, TypeOK
  <2>2. QED
    BY <1>1, <1>2, <1>3, <1>5, <2>1 DEF IInv, TypeOK
<1>7. \A u \in Threads \ {t} : Owned(u)' = Owned(u)
  BY <1>3, <1>5 DEF Owned
<1>8. LatchesOwned'
  <2>1. parentLock[t] \in Owned(t) /\ Owned(t)' = Owned(t) \ {parentLock[t]}
    BY <1>3, <1>4, <1>5 DEF Owned
  <2>2. QED
    BY <1>3, <1>7, <2>1, ReleaseLatch DEF IInv
<1>9. SearchesLatched'
  <2>1. ASSUME NEW u \in Threads \ {t}, pc[u] \in InTree
        PROVE  node[u] \in latched'
    <3>1. parentLock[u] = node[u] /\ Inside(u)
      BY <2>1 DEF IInv, SearchesLatched, LocksMatchPc, InTree
    <3>2. node[u] \in Owned(u)'
      BY <1>7, <3>1 DEF Owned, Inside
    <3>3. QED
      BY <1>8, <3>2 DEF LatchesOwned
  <2>2. childNode[t] \in latched'
    <3>1. childLock[t] \in Owned(t)
      BY <1>4 DEF Owned
    <3>2. QED
      BY <1>3, <1>4, <3>1 DEF IInv, LatchesOwned
  <2>3. QED
    BY <1>1, <1>2, <1>3, <1>4, <1>5, <2>1, <2>2 DEF IInv, SearchesLatched, InTree
<1>10. LocksMatchPc'
  BY <1>1, <1>2, <1>3, <1>4, <1>5 DEF IInv, LocksMatchPc, InTree, Inside
<1>11. \A u \in Threads : At(u)' = At(u) /\ Inside(u)' = Inside(u)
  BY <1>3, <1>4, <1>5 DEF At, Inside
<1>12. AheadInside' /\ NoOvertaking'
  BY <1>1, <1>11 DEF IInv, TypeOK, AheadInside, NoOvertaking
<1>13. QED
  BY <1>6, <1>8, <1>9, <1>10, <1>12 DEF IInv

LEMMA FindValueInv == ASSUME IInv, NEW t \in Threads, FindValue(t) PROVE IInv'
<1>1. UNCHANGED <<node, childNode, childLock>>
  BY DEF FindValue
<1>2. /\ pc[t] = "search" /\ pc' = [pc EXCEPT ![t] = "idle"]
      /\ pc \in [Threads -> {"idle", "lockRoot", "search", "lockChild", "swap"}]
  BY DEF FindValue, Goto, IInv, TypeOK
<1>3. /\ parentLock' = [parentLock EXCEPT ![t] = None]
      /\ latched' = latched \ {parentLock[t]}
      /\ ahead' = [u \in Threads |-> IF u = t THEN {} ELSE ahead[u] \ {t}]
  BY DEF FindValue
<1>4. parentLock[t] # None /\ childLock[t] = None
  BY <1>2 DEF IInv, LocksMatchPc, SearchesLatched, InTree, Inside
<1>5. /\ parentLock \in [Threads -> Nodes \cup {None}]
      /\ ahead \in [Threads -> SUBSET Threads]
  BY DEF IInv, TypeOK
<1>6. TypeOK'
  <2>1. latched' \subseteq Nodes
    BY <1>3 DEF IInv, TypeOK
  <2>2. ahead' \in [Threads -> SUBSET Threads]
    BY <1>3, <1>5
  <2>3. QED
    BY <1>1, <1>2, <1>3, <1>4, <1>5, <2>1, <2>2 DEF IInv, TypeOK
<1>7. \A u \in Threads \ {t} : Owned(u)' = Owned(u)
  BY <1>1, <1>3, <1>5 DEF Owned
<1>8. LatchesOwned'
  <2>1. parentLock[t] \in Owned(t) /\ Owned(t)' = Owned(t) \ {parentLock[t]}
    BY <1>1, <1>3, <1>4, <1>5 DEF Owned
  <2>2. QED
    BY <1>3, <1>7, <2>1, ReleaseLatch DEF IInv
<1>9. SearchesLatched'
  <2>1. ASSUME NEW u \in Threads \ {t}, pc[u] \in InTree
        PROVE  node[u] \in latched'
    <3>1. parentLock[u] = node[u] /\ Inside(u)
      BY <2>1 DEF IInv, SearchesLatched, LocksMatchPc, InTree
    <3>2. node[u] \in Owned(u)'
      BY <1>7, <3>1 DEF Owned, Inside
    <3>3. QED
      BY <1>8, <3>2 DEF LatchesOwned
  <2>2. QED
    BY <1>1, <1>2, <1>3, <1>5, <2>1 DEF IInv, SearchesLatched, InTree
<1>10. LocksMatchPc'
  BY <1>1, <1>2, <1>3, <1>4, <1>5 DEF IInv, LocksMatchPc, InTree, Inside
<1>11. /\ \A u \in Threads \ {t} : At(u)' = At(u) /\ Inside(u)' = Inside(u)
       /\ ~Inside(t)'
  BY <1>1, <1>3, <1>5 DEF At, Inside
<1>12. /\ ahead'[t] = {}
       /\ \A u \in Threads \ {t} : ahead'[u] = ahead[u] \ {t}
  BY <1>3
<1>13. AheadInside'
  BY <1>5, <1>11, <1>12 DEF IInv, AheadInside
<1>14. NoOvertaking'
  BY <1>5, <1>11, <1>12 DEF IInv, NoOvertaking
<1>15. QED
  BY <1>6, <1>8, <1>9, <1>10, <1>13, <1>14 DEF IInv

LEMMA StepInv == IInv /\ [Next]_vars => IInv'
<1> SUFFICES ASSUME IInv, [Next]_vars PROVE IInv'
  OBVIOUS
<1>1. CASE UNCHANGED vars
  <2>1. TypeOK' /\ SearchesLatched'
    BY <1>1 DEF vars, IInv, TypeOK, SearchesLatched
  <2>2. LatchesOwned'
    BY <1>1 DEF vars, IInv, LatchesOwned, Owned
  <2>3. LocksMatchPc' /\ AheadInside' /\ NoOvertaking'
    BY <1>1 DEF vars, IInv, LocksMatchPc, AheadInside, NoOvertaking, Inside, At
  <2>4. QED
    BY <2>1, <2>2, <2>3 DEF IInv
<1>2. QED
  BY <1>1, CallInv, LockRootInv, PickChildInv, LockChildInv, SwapLocksInv, FindValueInv
  DEF Next, Find

LEMMA Invariance == Spec => []IInv
  BY InitInv, StepInv, PTL DEF Spec

-----------------------------------------------------------------------------
(* The variables keep their types and a thread outside find owns no latch.  *)
THEOREM TypeCorrect == Spec => []TypeOK
  BY Invariance, PTL DEF IInv

(* No latch leaks, and none has two owners.                                 *)
THEOREM OneOwner == Spec => []LatchesOwned
  BY Invariance, PTL DEF IInv

(* find looks only into nodes it has latched, and holds at most the latch   *)
(* of the parent while it waits for that of a child.                        *)
THEOREM LatchedWhileSearched == Spec => []SearchesLatched
  BY Invariance, PTL DEF IInv

(* Finds pass through every node in the order in which they latched the     *)
(* root.                                                                    *)
THEOREM OrderKept == Spec => []NoOvertaking
  BY Invariance, PTL DEF IInv

-----------------------------------------------------------------------------
(* No deadlock: the find that entered the tree first never waits.           *)

Waits(t) ==
    \/ pc[t] = "lockRoot" /\ Root \in latched
    \/ pc[t] = "lockChild" /\ childNode[t] \in latched

IsFirst(t) == Inside(t) /\ ahead[t] = {}

(* The finds inside the tree are in line: of any two one is ahead, and who  *)
(* is ahead of that one is ahead of the other.                              *)
InLine ==
    /\ \A t, u \in Threads :
          Inside(t) /\ Inside(u) /\ t # u => u \in ahead[t] \/ t \in ahead[u]
    /\ \A t \in Threads : \A u \in ahead[t] : ahead[u] \subseteq ahead[t]

FirstRuns == \A t \in Threads : IsFirst(t) => ~Waits(t)

SomeoneFirst == (\E t \in Threads : Inside(t)) => \E t \in Threads : IsFirst(t)

(* While a find is under way some thread is, and does not wait.             *)
NeverAllWaiting ==
    (\E t \in Threads : pc[t] # "idle") => \E t \in Threads : pc[t] # "idle" /\ ~Waits(t)

LEMMA InLineInit == Init => InLine
  BY DEF Init, InLine, Inside

LEMMA InLineStep ==
    ASSUME IInv, InLine, [Next]_vars
    PROVE  InLine'
<1>0. /\ ahead \in [Threads -> SUBSET Threads]
      /\ parentLock \in [Threads -> Nodes \cup {None}] /\ childLock \in [Threads -> Nodes \cup {None}]
      /\ \A t \in Threads : /\ \A u \in ahead[t] : u # t /\ Inside(u)
                            /\ ~Inside(t) => ahead[t] = {}
      /\ Root # None
  BY TreeAssumption DEF IInv, TypeOK, AheadInside
<1>1. CASE UNCHANGED <<parentLock, ahead>>
  BY <1>1 DEF InLine, Inside
<1>2. ASSUME NEW t \in Threads, LockRoot(t)
      PROVE  InLine'
  <2>1. /\ parentLock' = [parentLock EXCEPT ![t] = Root]
        /\ ahead' = [ahead EXCEPT ![t] = {u \in Threads : Inside(u)}]
        /\ parentLock[t] = None
    BY <1>2 DEF LockRoot, Goto, IInv, TypeOK
  <2>2. /\ \A u \in Threads \ {t} : Inside(u)' = Inside(u) /\ ahead'[u] = ahead[u]
        /\ ~Inside(t) /\ Inside(t)'
        /\ ahead'[t] = {u \in Threads : Inside(u)}
    BY <1>0, <2>1 DEF Inside
  <2>3. ASSUME NEW u \in Threads, NEW v \in Threads, Inside(u)', Inside(v)', u # v
        PROVE  v \in ahead'[u] \/ u \in ahead'[v]
    BY <2>2, <2>3 DEF InLine
  <2>4. ASSUME NEW u \in Threads, NEW v \in ahead'[u]
        PROVE  ahead'[v] \subseteq ahead'[u]
    <3>1. v # t /\ v \in Threads
      BY <1>0, <2>2
    <3>2. CASE u = t
      BY <1>0, <2>2, <3>1, <3>2
    <3>3. CASE u # t
      BY <2>2, <3>1, <3>3 DEF InLine
    <3>4. QED
      BY <3>2, <3>3
  <2>5. QED
    BY <2>3, <2>4 DEF InLine
<1>3. ASSUME NEW t \in Threads, SwapLocks(t)
      PROVE  InLine'
  <2>1. /\ parentLock' = [parentLock EXCEPT ![t] = childLock[t]] /\ ahead' = ahead
        /\ parentLock[t] # None /\ childLock[t] # None
    BY <1>3 DEF SwapLocks, Goto, IInv, LocksMatchPc, InTree, Inside
  <2>2. \A u \in Threads : Inside(u)' = Inside(u)
    BY <1>0, <2>1 DEF Inside
  <2>3. QED
    BY <2>1, <2>2 DEF InLine
<1>4. ASSUME NEW t \in Threads, FindValue(t)
      PROVE  InLine'
  <2>1. /\ parentLock' = [parentLock EXCEPT ![t] = None]
        /\ ahead' = [u \in Threads |-> IF u = t THEN {} ELSE ahead[u] \ {t}]
    BY <1>4 DEF FindValue
  <2>2. /\ \A u \in Threads \ {t} : Inside(u)' = Inside(u) /\ ahead'[u] = ahead[u] \ {t}
        /\ ~Inside(t)' /\ ahead'[t] = {}
    BY <1>0, <2>1 DEF Inside
  <2>3. ASSUME NEW u \in Threads, NEW v \in Threads, Inside(u)', Inside(v)', u # v
        PROVE  v \in ahead'[u] \/ u \in ahead'[v]
    BY <2>2, <2>3 DEF InLine
  <2>4. ASSUME NEW u \in Threads, NEW v \in ahead'[u]
        PROVE  ahead'[v] \subseteq ahead'[u]
    <3>1. u # t /\ v # t /\ v \in ahead[u] /\ v \in Threads
      BY <1>0, <2>2, <2>4
    <3>2. ahead[v] \subseteq ahead[u]
      BY <3>1 DEF InLine
    <3>3. QED
      BY <2>2, <3>1, <3>2
  <2>5. QED
    BY <2>3, <2>4 DEF InLine
<1>5. QED
  BY <1>1, <1>2, <1>3, <1>4 DEF Next, Find, Call, PickChild, LockChild, vars

(* Who waits for a child waits for a thread below it, which by NoOvertaking *)
(* is ahead.                                                                *)
LEMMA FirstIsFree ==
    ASSUME IInv, InLine, NEW t \in Threads, IsFirst(t)
    PROVE  ~Waits(t)
<1>1. SUFFICES ASSUME Waits(t) PROVE FALSE
  OBVIOUS
<1>2. pc[t] = "lockChild" /\ childNode[t] \in latched
  BY <1>1 DEF Waits, IsFirst, IInv, LocksMatchPc, InTree
<1>3. PICK n, c : n = node[t] /\ c = childNode[t]
  OBVIOUS
<1>4. /\ n = parentLock[t] /\ childLock[t] = None /\ c \in Kids[n] /\ n \in Nodes
      /\ At(t) = n
  <2>1. /\ n = parentLock[t] /\ childLock[t] = None /\ c \in Kids[n] /\ Inside(t)
    BY <1>2, <1>3 DEF IInv, SearchesLatched, LocksMatchPc, InTree
  <2>2. QED
    BY <2>1 DEF At, IInv, TypeOK, Inside
<1>5. /\ c \in Nodes /\ c # n /\ Above[c] = Above[n] \cup {c}
      /\ \A m \in Nodes : c \in Above[m] => n \in Above[m]
  BY <1>4, TreeAssumption
<1>6. PICK u \in Threads : c \in Owned(u)
  BY <1>2, <1>3 DEF IInv, LatchesOwned
<1>7. u # t
  BY <1>4, <1>5, <1>6 DEF Owned
<1>8. Inside(u) /\ At(u) \in Nodes
  BY <1>6, OwnedFacts DEF IInv
<1>9. t \in ahead[u]
  BY <1>7, <1>8 DEF InLine, IsFirst
<1>10. c \in Above[At(u)]
  <2>1. CASE At(u) = c
    BY <1>5, <2>1
  <2>2. CASE At(u) # c
    <3>1. c = parentLock[u] /\ childLock[u] # None
      BY <1>6, <2>2 DEF At, Owned
    <3>2. /\ pc[u] = "swap" /\ At(u) = childNode[u]
          /\ node[u] = c /\ childNode[u] \in Kids[c]
      BY <3>1 DEF At, IInv, LocksMatchPc, SearchesLatched, InTree
    <3>3. At(u) \in Above[At(u)] /\ (At(u) \in Above[At(u)] => c \in Above[At(u)])
      BY <1>5, <1>8, <3>2, TreeAssumption
    <3>4. QED
      BY <3>3
  <2>3. QED
    BY <2>1, <2>2
<1>11. n \in Above[At(u)]
  BY <1>5, <1>8, <1>10
<1>12. QED
  BY <1>4, <1>8, <1>9, <1>11 DEF IInv, NoOvertaking

LEMMA LeastNatural ==
    ASSUME NEW T, T \subseteq Nat, T # {}
    PROVE  \E n \in T : \A m \in T : n <= m
<1> DEFINE R == OpToRel(<, Nat)
<1>1. IsWellFoundedOn(R, Nat)
  BY NatLessThanWellFounded
<1>2. \A m, n \in Nat : m < n => <<m, n>> \in R
  BY DEF OpToRel
<1> HIDE DEF R
<1>3. PICK n \in T : \A m \in T : ~(<<m, n>> \in R)
  BY <1>1, WFMin
<1>4. ASSUME NEW m \in T
      PROVE  n <= m
  <2>1. m \in Nat /\ n \in Nat /\ ~(m < n)
    BY <1>2, <1>3
  <2>2. QED
    BY <2>1
<1>5. QED
  BY <1>4

(* Of the finds inside the tree, one with the fewest ahead has none ahead.  *)
LEMMA LineHasFirst ==
    ASSUME IInv, InLine
    PROVE  SomeoneFirst
<1> SUFFICES ASSUME NEW s \in Threads, Inside(s)
             PROVE  \E t \in Threads : IsFirst(t)
  BY DEF SomeoneFirst
<1>1. \A t \in Threads : ahead[t] \subseteq Threads
  BY DEF IInv, TypeOK
<1>2. \A t \in Threads : IsFiniteSet(ahead[t]) /\ Cardinality(ahead[t]) \in Nat
  BY <1>1, ThreadsAssumption, FS_Subset, FS_CardinalityType
<1> DEFINE lengths == {Cardinality(ahead[t]) : t \in {x \in Threads : Inside(x)}}
<1>3. lengths \subseteq Nat /\ lengths # {}
  BY <1>2
<1>4. PICK l \in lengths : \A m \in lengths : l <= m
  BY <1>3, LeastNatural
<1>5. PICK t \in Threads : Inside(t) /\ Cardinality(ahead[t]) = l
  BY <1>4
<1>6. ASSUME NEW u \in ahead[t]
      PROVE  FALSE
  <2>1. u \in Threads /\ Inside(u) /\ u \notin ahead[u]
    BY <1>1, <1>5 DEF IInv, AheadInside
  <2>2. ahead[u] \subseteq ahead[t]
    BY <1>5 DEF InLine
  <2>3. Cardinality(ahead[u]) <= Cardinality(ahead[t])
        /\ (Cardinality(ahead[u]) = Cardinality(ahead[t]) => ahead[u] = ahead[t])
    BY <1>2, <1>5, <2>2, FS_Subset
  <2>4. ahead[u] # ahead[t]
    BY <1>6, <2>1
  <2>5. Cardinality(ahead[u]) \in lengths
    BY <2>1
  <2>6. QED
    BY <1>2, <1>4, <1>5, <2>1, <2>3, <2>4, <2>5
<1>7. QED
  BY <1>5, <1>6 DEF IsFirst

LEMMA LineAlways == Spec => [](IInv /\ InLine)
  BY InLineInit, InLineStep, Invariance, PTL DEF Spec

(* The find that entered the tree first of those inside never waits for a   *)
(* latch, however the others are interleaved.                               *)
THEOREM FirstNeverWaits == Spec => []FirstRuns
<1>1. IInv /\ InLine => FirstRuns
  BY FirstIsFree DEF FirstRuns
<1>2. QED
  BY <1>1, LineAlways, PTL

(* There is no deadlock: as long as any thread is in find, one of them does *)
(* not wait.                                                                *)
THEOREM NoDeadlock == Spec => []NeverAllWaiting
<1>1. ASSUME IInv, InLine, NEW s \in Threads, pc[s] # "idle"
      PROVE  \E t \in Threads : pc[t] # "idle" /\ ~Waits(t)
  <2>1. CASE \E t \in Threads : Inside(t)
    <3>1. PICK t \in Threads : IsFirst(t)
      BY <1>1, <2>1, LineHasFirst DEF SomeoneFirst
    <3>2. pc[t] # "idle"
      BY <1>1, <3>1 DEF IsFirst, IInv, LocksMatchPc, InTree
    <3>3. QED
      BY <1>1, <3>1, <3>2, FirstIsFree
  <2>2. CASE ~\E t \in Threads : Inside(t)
    <3>1. latched = {}
      BY <1>1, <2>2, OwnedFacts DEF IInv, LatchesOwned
    <3>2. QED
      BY <1>1, <3>1 DEF Waits
  <2>3. QED
    BY <2>1, <2>2
<1>2. IInv /\ InLine => NeverAllWaiting
  BY <1>1 DEF NeverAllWaiting
<1>3. QED
  BY <1>2, LineAlways, PTL
=============================================================================
