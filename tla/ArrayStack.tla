------------------------------ MODULE ArrayStack ------------------------------
(***************************************************************************)
(* ArrayStackGeneric<T, N> and the loop in ops::unwindAndLockRoot that     *)
(* empties one, for any T and for builds with and without asserts.         *)
(*                                                                         *)
(* Positions are counted in T's from the start of mElems, so that mTop is  *)
(* -1 when the stack is empty.  mElems is an array of N std::aligned_storage*)
(* <...>, the trait itself and not its ::type: an empty class, hence N     *)
(* bytes.  An access outside of them is undefined, and nothing is said of  *)
(* the stack from then on.                                                 *)
(***************************************************************************)
EXTENDS Integers, Sequences

CONSTANTS
    N,          \* the capacity the template is given
    MaxSizeOf,  \* bound: largest sizeof(T)
    Values,     \* values of type T
    Raw         \* storage without an object

ASSUME StackAssumption ==
    /\ N \in Nat \ {0}
    /\ MaxSizeOf \in Nat \ {0}
    /\ Raw \notin Values

VARIABLES
    asserts,    \* the build: asserts are compiled in
    sizeOf,     \* sizeof(T)
    slots,      \* the T's in and behind mElems
    mTop,
    fate,       \* "defined", "aborted" by an assert, or "undefined"
    numFrames, i,   \* locals of unwindAndLockRoot, while it runs
    pc          \* "user", or where unwindAndLockRoot is

build == <<asserts, sizeOf>>
stack == <<slots, mTop>>
locals == <<numFrames, i, pc>>
vars == <<asserts, sizeOf, slots, mTop, fate, numFrames, i, pc>>

Slots == 0 .. N - 1

Init ==
    /\ asserts \in BOOLEAN
    /\ sizeOf \in 1 .. MaxSizeOf
    /\ slots = [k \in Slots |-> Raw]
    /\ mTop = -1
    /\ fate = "defined"
    /\ numFrames = 0 /\ i = 0
    /\ pc = "user"

(* The k-th T lies within the N bytes. *)
InStorage(k) == 0 <= k /\ (k + 1) * sizeOf <= N

Ends(how) ==
    /\ fate' = how
    /\ UNCHANGED <<build, stack, locals>>

-----------------------------------------------------------------------------
(* empty() and full() assert, before they compare, that they will return    *)
(* true.                                                                    *)
EmptyAborts == asserts /\ mTop # -1
IsEmpty == mTop <= -1

FullAborts == asserts /\ mTop # N - 1
IsFull == mTop >= N - 1

(* assert(!full()) *)
EmplaceAborts == FullAborts \/ (asserts /\ IsFull)

(* size(): the number of slots that are free *)
Size == N - mTop - 1

(* Slip: the last element is overwritten. *)
OverwritesTop == IF IsEmpty THEN 0 ELSE mTop

(* insAt *)
InsertAtPos == mTop + 1

EmplaceBack(val) ==
    \/ /\ EmplaceAborts
       /\ Ends("aborted")
    \/ /\ ~EmplaceAborts /\ ~InStorage(InsertAtPos)
       /\ Ends("undefined")
    \/ /\ ~EmplaceAborts /\ InStorage(InsertAtPos)
       /\ slots' = [slots EXCEPT ![InsertAtPos] = val]
       /\ mTop' = InsertAtPos
       /\ UNCHANGED <<build, fate, locals>>

(* top() and pop() with assert(!empty()): aborts with asserts, one way or   *)
(* the other, and takes what is in front of the array for an element        *)
(* without.                                                                 *)
NothingToPop ==
    /\ IsEmpty
    /\ Ends(IF asserts THEN "aborted" ELSE "undefined")

(* Slip: the elements are forgotten, not destroyed. *)
Forgotten(from) == slots

(* ~T() of the elements at from and above *)
Destroyed(from) == [k \in Slots |-> IF k >= from THEN Raw ELSE slots[k]]

Removes ==
    /\ ~asserts /\ ~IsEmpty
    /\ slots' = Destroyed(mTop)
    /\ mTop' = mTop - 1

Pop ==
    \/ NothingToPop
    \/ Removes /\ UNCHANGED <<build, fate, locals>>

(* clear(), also called by the destructor *)
Clear ==
    /\ fate' = IF EmptyAborts THEN "aborted" ELSE fate
    /\ slots' = IF EmptyAborts THEN slots ELSE Destroyed(0)
    /\ mTop' = IF EmptyAborts THEN mTop ELSE -1
    /\ UNCHANGED <<build, locals>>

-----------------------------------------------------------------------------
(* ops::find with a cursor that has frames: unwindAndLockRoot.  The frame   *)
(* is taken off its node's list before it is popped; the frames on the      *)
(* stack are those listed, and the lists are left out here.                 *)
Unwind ==
    /\ ~EmptyAborts /\ ~IsEmpty
    /\ numFrames' = Size
    /\ i' = 1
    /\ pc' = "unwind"
    /\ UNCHANGED <<build, stack, fate>>

(* One round of the for loop *)
UnwindFrame ==
    /\ pc = "unwind" /\ i < numFrames
    /\ \/ NothingToPop
       \/ /\ Removes
          /\ i' = i + 1
          /\ UNCHANGED <<build, fate, numFrames, pc>>

(* The frame after the loop, which is taken for the root's *)
UnwindRoot ==
    /\ pc = "unwind" /\ i >= numFrames
    /\ \/ NothingToPop
       \/ /\ Removes
          /\ pc' = "unwound"
          /\ UNCHANGED <<build, fate, numFrames, i>>

(* The cursor goes on from the root. *)
Return ==
    /\ pc = "unwound"
    /\ pc' = "user"
    /\ numFrames' = 0 /\ i' = 0
    /\ UNCHANGED <<build, stack, fate>>

UserCalls ==
    /\ pc = "user"
    /\ (\E val \in Values : EmplaceBack(val)) \/ Pop \/ Clear \/ Unwind

Next == fate = "defined" /\ (UserCalls \/ UnwindFrame \/ UnwindRoot \/ Return)

Spec == Init /\ [][Next]_vars

-----------------------------------------------------------------------------
(* The variables keep their types, and exactly the slots up to mTop hold an *)
(* object: none is constructed over another, leaked or destroyed twice.     *)
Constructed ==
    /\ asserts \in BOOLEAN /\ sizeOf \in 1 .. MaxSizeOf
    /\ slots \in [Slots -> Values \cup {Raw}]
    /\ mTop \in -1 .. N - 1
    /\ \A k \in Slots : slots[k] # Raw <=> k <= mTop
    /\ fate \in {"defined", "aborted", "undefined"}

Contents == [k \in 1 .. mTop + 1 |-> slots[k - 1]]

S == INSTANCE Stack WITH contents <- Contents

(* As long as it is defined, what the class does is what a stack does.      *)
IsStack == S!Spec
=============================================================================
