--------------------------- MODULE ArrayStack_proofs ---------------------------
(***************************************************************************)
(* For any capacity, any size of T and builds with and without asserts:    *)
(* exactly the slots up to mTop hold objects, and the class behaves as a   *)
(* stack as long as it is defined, also while unwindAndLockRoot empties it.*)
(***************************************************************************)
EXTENDS ArrayStack, SequenceTheorems, TLAPS

Typed ==
    /\ asserts \in BOOLEAN /\ sizeOf \in 1 .. MaxSizeOf
    /\ slots \in [Slots -> Values \cup {Raw}]
    /\ mTop \in -1 .. N - 1
    /\ fate \in {"defined", "aborted", "undefined"}

ObjectsUpToTop == \A k \in Slots : slots[k] # Raw <=> k <= mTop

IInv == Typed /\ ObjectsUpToTop

LEMMA Numbers ==
    ASSUME IInv
    PROVE  /\ N \in Nat /\ N > 0
           /\ sizeOf \in Nat /\ sizeOf >= 1 /\ sizeOf <= MaxSizeOf
           /\ mTop \in Int /\ -1 <= mTop /\ mTop <= N - 1
<1>1. sizeOf \in 1 .. MaxSizeOf /\ mTop \in -1 .. N - 1
  BY Zenon DEF IInv, Typed
<1>2. QED
  BY <1>1, StackAssumption

LEMMA Product ==
    ASSUME NEW k \in Nat, NEW s \in Nat, s >= 1
    PROVE  k <= k * s
  OBVIOUS

-----------------------------------------------------------------------------
(* The three operations, from any state that satisfies the invariant.       *)

LEMMA EmplaceStep ==
    ASSUME IInv, NEW val \in Values, ~EmplaceAborts, InStorage(InsertAtPos),
           slots' = [slots EXCEPT ![InsertAtPos] = val], mTop' = InsertAtPos,
           UNCHANGED <<build, fate>>
    PROVE  /\ Typed' /\ ObjectsUpToTop'
           /\ mTop + 1 \in Slots
<1>1. /\ N \in Nat /\ mTop \in Int /\ -1 <= mTop /\ mTop <= N - 1
      /\ sizeOf \in Nat /\ sizeOf >= 1
  BY Numbers
<1>2. (mTop + 1 + 1) * sizeOf <= N
  BY DEF InStorage, InsertAtPos
<1>3. mTop + 1 + 1 <= (mTop + 1 + 1) * sizeOf
  BY <1>1, Product
<1>4. mTop + 1 \in Slots /\ mTop + 1 <= N - 1
  <2>1. PICK x \in Int : x = (mTop + 1 + 1) * sizeOf
    BY <1>1
  <2>2. QED
    BY <1>1, <1>2, <1>3, <2>1 DEF Slots
<1>5. Typed'
  <2>1. slots' \in [Slots -> Values \cup {Raw}]
    BY <1>4 DEF IInv, Typed, InsertAtPos
  <2>2. mTop' \in -1 .. N - 1
    BY <1>1, <1>4 DEF InsertAtPos
  <2>3. QED
    BY <2>1, <2>2 DEF IInv, Typed, build
<1>6. ObjectsUpToTop'
  <2>1. slots \in [Slots -> Values \cup {Raw}]
    BY DEF IInv, Typed
  <2>2. ASSUME NEW k \in Slots
        PROVE  slots'[k] # Raw <=> k <= mTop + 1
    <3>1. CASE k = mTop + 1
      BY <1>1, <2>1, <3>1, StackAssumption DEF InsertAtPos
    <3>2. CASE k # mTop + 1
      <4>1. slots'[k] = slots[k]
        BY <2>1, <3>2 DEF InsertAtPos
      <4>2. k \in Int /\ (slots[k] # Raw <=> k <= mTop)
        BY DEF IInv, ObjectsUpToTop, Slots
      <4>3. QED
        BY <1>1, <3>2, <4>1, <4>2
    <3>3. QED
      BY <3>1, <3>2
  <2>3. QED
    BY <2>2 DEF ObjectsUpToTop, InsertAtPos
<1>7. QED
  BY <1>4, <1>5, <1>6

LEMMA RemoveStep ==
    ASSUME IInv, Removes, UNCHANGED <<build, fate>>
    PROVE  /\ Typed' /\ ObjectsUpToTop'
           /\ mTop \in Slots /\ mTop' = mTop - 1
           /\ \A k \in Slots : k < mTop => slots'[k] = slots[k]
<1>1. /\ N \in Nat /\ mTop \in Int /\ -1 <= mTop /\ mTop <= N - 1
  BY Numbers
<1>2. ~asserts /\ ~(mTop <= -1) /\ slots' = Destroyed(mTop) /\ mTop' = mTop - 1
  BY DEF Removes, IsEmpty
<1>3. mTop \in Slots
  BY <1>1, <1>2 DEF Slots
<1>4. slots \in [Slots -> Values \cup {Raw}]
  BY DEF IInv, Typed
<1>5. /\ slots' \in [Slots -> Values \cup {Raw}]
      /\ \A k \in Slots : slots'[k] = IF k >= mTop THEN Raw ELSE slots[k]
  BY <1>2, <1>4 DEF Destroyed
<1>6. Typed'
  <2>1. mTop' \in -1 .. N - 1
    BY <1>1, <1>2
  <2>2. QED
    BY <1>5, <2>1 DEF IInv, Typed, build
<1>7. ObjectsUpToTop'
  <2>1. ASSUME NEW k \in Slots
        PROVE  slots'[k] # Raw <=> k <= mTop - 1
    <3>1. k \in Int /\ (slots[k] # Raw <=> k <= mTop)
      BY DEF IInv, ObjectsUpToTop, Slots
    <3>2. QED
      BY <1>1, <1>5, <3>1
  <2>2. QED
    BY <1>2, <2>1 DEF ObjectsUpToTop
<1>8. ASSUME NEW k \in Slots, k < mTop PROVE slots'[k] = slots[k]
  BY <1>1, <1>5, <1>8 DEF Slots
<1>9. QED
  BY <1>2, <1>3, <1>6, <1>7, <1>8

LEMMA ClearStep ==
    ASSUME IInv, Clear, ~EmptyAborts
    PROVE  IInv' /\ mTop' = -1
<1>1. N \in Nat /\ N > 0 /\ sizeOf \in Nat
  BY Numbers
<1>2. fate' = fate /\ slots' = Destroyed(0) /\ mTop' = -1 /\ UNCHANGED <<build, locals>>
  BY DEF Clear
<1>3. \A k \in Slots : k \in Int /\ k >= 0
  BY <1>1 DEF Slots
<1>4. /\ slots' \in [Slots -> Values \cup {Raw}]
      /\ \A k \in Slots : slots'[k] = Raw
  BY <1>2, <1>3 DEF Destroyed
<1>5. mTop' \in -1 .. N - 1
  BY <1>1, <1>2
<1>6. Typed'
  BY <1>2, <1>4, <1>5 DEF IInv, Typed, build
<1>7. ObjectsUpToTop'
  BY <1>2, <1>3, <1>4 DEF ObjectsUpToTop
<1>8. QED
  BY <1>2, <1>6, <1>7 DEF IInv

LEMMA InitInv == Init => IInv
<1> SUFFICES ASSUME Init PROVE IInv
  OBVIOUS
<1>1. N \in Nat /\ N > 0
  BY StackAssumption
<1>2. /\ asserts \in BOOLEAN /\ sizeOf \in 1 .. MaxSizeOf
      /\ slots = [k \in Slots |-> Raw]
      /\ mTop = -1 /\ fate = "defined" /\ pc = "user"
  BY Zenon DEF Init
<1>3. mTop \in -1 .. N - 1
  BY <1>1, <1>2
<1>4. Typed
  BY <1>2, <1>3 DEF Typed
<1>5. ObjectsUpToTop
  <2>1. \A k \in Slots : k \in Int /\ k >= 0
    BY <1>1 DEF Slots
  <2>2. QED
    BY <1>2, <2>1 DEF ObjectsUpToTop
<1>6. QED
  BY <1>4, <1>5 DEF IInv

(* What leaves the storage alone keeps the invariant, also a call that ends *)
(* in an assert or outside the array.                                       *)
LEMMA StorageUnchanged ==
    ASSUME IInv, UNCHANGED <<build, stack>>, fate' \in {fate, "aborted", "undefined"}
    PROVE  IInv'
<1>1. UNCHANGED <<asserts, sizeOf, slots, mTop>>
  BY DEF build, stack
<1>2. QED
  BY <1>1 DEF IInv, Typed, ObjectsUpToTop

LEMMA StepInv == IInv /\ [Next]_vars => IInv'
<1> SUFFICES ASSUME IInv, [Next]_vars PROVE IInv'
  OBVIOUS
<1>1. CASE UNCHANGED vars
  BY <1>1, StorageUnchanged DEF vars, build, stack
<1>2. ASSUME NEW val \in Values, EmplaceBack(val)
      PROVE  IInv'
  <2>1. CASE Ends("aborted") \/ Ends("undefined")
    BY <2>1, StorageUnchanged DEF Ends
  <2>2. CASE /\ ~EmplaceAborts /\ InStorage(InsertAtPos)
             /\ slots' = [slots EXCEPT ![InsertAtPos] = val]
             /\ mTop' = InsertAtPos
             /\ UNCHANGED <<build, fate, locals>>
    BY <2>2, EmplaceStep DEF IInv
  <2>3. QED
    BY <1>2, <2>1, <2>2 DEF EmplaceBack
<1>3. ASSUME NothingToPop
      PROVE  IInv'
  BY <1>3, StorageUnchanged DEF NothingToPop, Ends
<1>4. ASSUME Removes, UNCHANGED <<build, fate>>
      PROVE  IInv'
  BY <1>4, RemoveStep DEF IInv
<1>5. ASSUME Clear
      PROVE  IInv'
  <2>1. CASE EmptyAborts
    BY <1>5, <2>1, StorageUnchanged DEF Clear, stack
  <2>2. CASE ~EmptyAborts
    BY <1>5, <2>2, ClearStep
  <2>3. QED
    BY <2>1, <2>2
<1>6. CASE Unwind \/ Return
  BY <1>6, StorageUnchanged DEF Unwind, Return
<1>7. CASE Pop
  BY <1>3, <1>4, <1>7 DEF Pop
<1>8. CASE UnwindFrame \/ UnwindRoot
  BY <1>3, <1>4, <1>8 DEF UnwindFrame, UnwindRoot
<1>9. QED
  BY <1>1, <1>2, <1>5, <1>6, <1>7, <1>8 DEF Next, UserCalls

LEMMA Invariance == Spec => []IInv
  BY InitInv, StepInv, PTL DEF Spec

-----------------------------------------------------------------------------
(* No object is constructed over another, leaked or destroyed twice.        *)
THEOREM ObjectsAccounted == Spec => []Constructed
<1>1. IInv => Constructed
  BY DEF IInv, Typed, ObjectsUpToTop, Constructed
<1>2. QED
  BY <1>1, Invariance, PTL

-----------------------------------------------------------------------------
(* The objects from the bottom to the top form a sequence of values.        *)
LEMMA ContentsFacts ==
    ASSUME IInv
    PROVE  /\ Contents \in Seq(Values)
           /\ Len(Contents) = mTop + 1
           /\ \A k \in 1 .. mTop + 1 : Contents[k] = slots[k - 1]
<1>1. /\ N \in Nat /\ mTop \in Int /\ -1 <= mTop /\ mTop <= N - 1
  BY Numbers
<1>2. ASSUME NEW k \in 1 .. mTop + 1
      PROVE  slots[k - 1] \in Values
  <2>1. k - 1 \in Slots /\ k - 1 <= mTop
    BY <1>1 DEF Slots
  <2>2. slots[k - 1] # Raw /\ slots[k - 1] \in Values \cup {Raw}
    BY <2>1 DEF IInv, ObjectsUpToTop, Typed
  <2>3. QED
    BY <2>2
<1>3. PICK n \in Nat : n = mTop + 1
  BY <1>1
<1>4. /\ Contents \in Seq(Values) /\ Len(Contents) = n
      /\ \A k \in 1 .. n : Contents[k] = slots[k - 1]
  BY <1>2, <1>3 DEF Contents
<1>5. QED
  BY <1>3, <1>4

LEMMA Pushes ==
    ASSUME IInv, IInv', NEW val \in Values, InStorage(InsertAtPos), mTop + 1 \in Slots,
           slots' = [slots EXCEPT ![InsertAtPos] = val], mTop' = InsertAtPos
    PROVE  Contents' = Append(Contents, val)
<1>1. N \in Nat /\ mTop \in Int /\ -1 <= mTop /\ slots \in [Slots -> Values \cup {Raw}]
  BY Numbers DEF IInv, Typed
<1>2. /\ Contents \in Seq(Values) /\ Len(Contents) = mTop + 1
      /\ \A k \in 1 .. mTop + 1 : Contents[k] = slots[k - 1]
  BY ContentsFacts
<1>3. Contents' = [k \in 1 .. mTop + 2 |-> slots'[k - 1]]
  BY <1>1 DEF Contents, InsertAtPos
<1>4. PICK n \in Nat : n = mTop + 1
  BY <1>1
<1>5. ASSUME NEW k \in 1 .. n + 1
      PROVE  slots'[k - 1] = Append(Contents, val)[k]
  <2>1. CASE k = n + 1
    BY <1>1, <1>2, <1>4, <2>1 DEF InsertAtPos
  <2>2. CASE k <= n
    <3>1. k - 1 # mTop + 1 /\ k \in 1 .. mTop + 1
      BY <1>1, <1>4, <2>2
    <3>2. slots'[k - 1] = slots[k - 1]
      BY <1>1, <1>4, <2>2, <3>1 DEF InsertAtPos, Slots
    <3>3. QED
      BY <1>2, <1>4, <2>2, <3>1, <3>2
  <2>3. k = n + 1 \/ k <= n
    BY <1>4
  <2>4. QED
    BY <2>1, <2>2, <2>3
<1>6. Contents' = [k \in 1 .. n + 1 |-> slots'[k - 1]]
  BY <1>1, <1>3, <1>4
<1>7. /\ Append(Contents, val) \in Seq(Values)
      /\ Len(Append(Contents, val)) = n + 1
  BY <1>2, <1>4
<1>8. Append(Contents, val) = [k \in 1 .. n + 1 |-> Append(Contents, val)[k]]
  <2>1. PICK t \in Seq(Values) : t = Append(Contents, val)
    BY <1>7
  <2>2. Len(t) = n + 1
    BY <1>7, <2>1
  <2>3. t = [k \in 1 .. n + 1 |-> t[k]]
    BY <2>2
  <2>4. QED
    BY <2>1, <2>3, Zenon
<1>9. QED
  BY <1>5, <1>6, <1>8, Zenon

LEMMA PopsTop ==
    ASSUME IInv, mTop \in Slots, mTop' = mTop - 1,
           \A k \in Slots : k < mTop => slots'[k] = slots[k]
    PROVE  Contents # <<>> /\ Contents' = SubSeq(Contents, 1, Len(Contents) - 1)
<1>1. N \in Nat /\ mTop \in Int /\ 0 <= mTop /\ mTop <= N - 1
  BY Numbers DEF Slots
<1>2. /\ Contents \in Seq(Values) /\ Len(Contents) = mTop + 1
      /\ \A k \in 1 .. mTop + 1 : Contents[k] = slots[k - 1]
  BY ContentsFacts
<1>3. Contents' = [k \in 1 .. mTop |-> slots'[k - 1]]
  BY <1>1 DEF Contents
<1>4. ASSUME NEW k \in 1 .. mTop
      PROVE  slots'[k - 1] = Contents[k]
  BY <1>1, <1>2 DEF Slots
<1>5. SubSeq(Contents, 1, mTop) = [k \in 1 .. mTop |-> Contents[k]]
  BY <1>1, <1>2
<1>6. QED
  BY <1>1, <1>2, <1>3, <1>4, <1>5

(* As long as it is defined, ArrayStackGeneric is a stack.                  *)
THEOREM BehavesAsStack == Spec => IsStack
<1>1. Init => S!Init
  <2> SUFFICES ASSUME Init PROVE Contents = <<>>
    BY DEF S!Init
  <2>1. mTop + 1 = 0
    BY DEF Init
  <2>2. QED
    BY <2>1 DEF Contents
<1>2. IInv /\ IInv' /\ [Next]_vars => [S!Next]_Contents
  <2> SUFFICES ASSUME IInv, IInv', [Next]_vars
               PROVE  S!Next \/ Contents' = Contents
    OBVIOUS
  <2>1. ASSUME UNCHANGED <<slots, mTop>>
        PROVE  Contents' = Contents
    BY <2>1 DEF Contents
  <2>2. ASSUME NEW how, Ends(how)
        PROVE  Contents' = Contents
    BY <2>1, <2>2 DEF Ends, stack
  <2>3. ASSUME NothingToPop
        PROVE  Contents' = Contents
    BY <2>2, <2>3 DEF NothingToPop
  <2>4. ASSUME NEW val \in Values, EmplaceBack(val)
        PROVE  S!Next \/ Contents' = Contents
    <3>1. CASE Ends("aborted") \/ Ends("undefined")
      BY <2>2, <3>1
    <3>2. CASE /\ ~EmplaceAborts /\ InStorage(InsertAtPos)
               /\ slots' = [slots EXCEPT ![InsertAtPos] = val]
               /\ mTop' = InsertAtPos
               /\ UNCHANGED <<build, fate, locals>>
      <4>1. mTop + 1 \in Slots
        BY <3>2, EmplaceStep
      <4>2. Contents' = Append(Contents, val)
        BY <3>2, <4>1, Pushes
      <4>3. QED
        BY <4>2 DEF S!Next, S!Push
    <3>3. QED
      BY <2>4, <3>1, <3>2 DEF EmplaceBack
  <2>5. ASSUME Removes, UNCHANGED <<build, fate>>
        PROVE  S!Next
    <3>1. /\ mTop \in Slots /\ mTop' = mTop - 1
          /\ \A k \in Slots : k < mTop => slots'[k] = slots[k]
      BY <2>5, RemoveStep
    <3>2. QED
      BY <3>1, PopsTop DEF S!Next, S!Pop
  <2>6. ASSUME Clear
        PROVE  S!Next \/ Contents' = Contents
    <3>1. CASE EmptyAborts
      BY <2>1, <2>6, <3>1 DEF Clear
    <3>2. CASE ~EmptyAborts
      <4>1. mTop' + 1 = 0
        BY <2>6, <3>2, ClearStep
      <4>2. Contents' = <<>>
        BY <4>1 DEF Contents
      <4>3. QED
        BY <4>2 DEF S!Next, S!Clear
    <3>3. QED
      BY <3>1, <3>2
  <2>7. CASE UNCHANGED vars
    BY <2>1, <2>7 DEF vars
  <2>8. CASE Pop
    BY <2>3, <2>5, <2>8 DEF Pop
  <2>9. CASE UnwindFrame \/ UnwindRoot
    BY <2>3, <2>5, <2>9 DEF UnwindFrame, UnwindRoot
  <2>10. CASE Unwind \/ Return
    BY <2>1, <2>10 DEF Unwind, Return, stack
  <2>11. QED
    BY <2>4, <2>6, <2>7, <2>8, <2>9, <2>10 DEF Next, UserCalls
<1>3. QED
  BY <1>1, <1>2, Invariance, PTL DEF Spec, IsStack, S!Spec
=============================================================================
