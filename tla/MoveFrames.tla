------------------------------ MODULE MoveFrames ------------------------------
(***************************************************************************)
(* ops::moveFrames(source, sibling, insertPos, splitPos): after a split,   *)
(* rebase the positions of the cursor frames that visit the source node.   *)
(* Those of the entries that moved are also spliced, on the sibling's list *)
(* but with an iterator of the source's.                                   *)
(*                                                                         *)
(* dstEndIt is the end of the source's list, not of the sibling's, and     *)
(* list::splice links the frame in front of that iterator: it goes to the  *)
(* end of the list that the loop is walking, and the sibling's list stays  *)
(* as it is.  The build is the one without asserts; with them no           *)
(* CursorFrame can be constructed (its Bytes() has a null pointer and size *)
(* 0).                                                                     *)
(***************************************************************************)
EXTENDS Integers, Sequences, FiniteSets, SequencesExt

CONSTANTS
    Frames,     \* the CursorFrames that visit the source
    MaxSize,    \* bound: entries of the source before the split
    End         \* source.visitorFrames.end()

ASSUME FramesAssumption ==
    /\ IsFiniteSet(Frames) /\ End \notin Frames
    /\ MaxSize \in Nat

VARIABLES
    insertPos, splitPos,    \* the arguments
    list,       \* source.visitorFrames
    position,   \* CursorFrame::position
    srcIt,      \* the frame that srcIt points to, or End
    before      \* history: the positions at the call

vars == <<insertPos, splitPos, list, position, srcIt, before>>

First(s) == IF s = <<>> THEN End ELSE s[1]

Place(f) == CHOOSE j \in DOMAIN list : list[j] = f

(* ++srcIt *)
After(f) == IF Place(f) = Len(list) THEN End ELSE list[Place(f) + 1]

(* The half that the caller, splitLeaf, moves out: the node is cut in the   *)
(* middle, counting the entry that is about to be inserted.                 *)
MedianPos(size) == (size + 1) \div 2

(* The frames on one node of a leaf that is split: any number of them, in   *)
(* any order, on any of its entries.                                        *)
Init ==
    \E size \in 3 .. MaxSize, F \in SUBSET Frames :
        /\ insertPos \in 0 .. size
        /\ splitPos = MedianPos(size)
        /\ list \in SetToSeqs(F)
        /\ position \in [F -> 0 .. size - 1]
        /\ srcIt = First(list)
        /\ before = position

-----------------------------------------------------------------------------
Right == insertPos > splitPos

(* Slip: no room is made for the new entry. *)
NoRoom(p) == IF p >= splitPos THEN p - splitPos ELSE p + 1

(* Slip: the position is left as it is. *)
KeepsPosition(p) == p

(* The new position of a frame at p, where the asserts are compiled out. *)
Rebased(p) ==
    CASE p = insertPos                 -> p
      [] p >= splitPos /\ p < insertPos -> p - splitPos
      [] p >= splitPos /\ p > insertPos -> p - splitPos + 1
      [] p < splitPos /\ p < insertPos  -> p
      [] p < splitPos /\ p > insertPos  -> p + 1

(* sibling.visitorFrames.splice(dstEndIt, ...) is called *)
Spliced(p) == IF p >= splitPos THEN Right ELSE ~Right

(* Slip: linked in without being unlinked. *)
LinkedTwice(f) == Append(list, f)

MovedToEnd(f) == Append(RemoveAt(list, Place(f)), f)

(* One round of the loop *)
MoveFrame ==
    /\ srcIt # End
    /\ LET f == srcIt
           p == position[f]
       IN  /\ srcIt' = After(f)
           /\ position' = [position EXCEPT ![f] = Rebased(p)]
           /\ list' = IF Spliced(p) THEN MovedToEnd(f) ELSE list
    /\ UNCHANGED <<insertPos, splitPos, before>>

Next == MoveFrame

(* The loop is one thread's and waits for nothing. *)
Spec == Init /\ [][Next]_vars /\ WF_vars(Next)

Done == srcIt = End

-----------------------------------------------------------------------------
(* The source's list stays a list of the frames it had, each once: none is  *)
(* lost or linked twice, although the loop relinks what it is walking over, *)
(* and none gets to the sibling.  The iterator points into the list, and a  *)
(* position never leaves the node.                                          *)
FramesKept ==
    /\ Range(list) = DOMAIN before
    /\ Len(list) = Cardinality(DOMAIN before)
    /\ srcIt \in Range(list) \cup {End}
    /\ \A f \in DOMAIN before : position[f] \in 0 .. MaxSize

(* Frames that are spliced and keep their position, so that the loop does   *)
(* the same with them whenever it meets them again: those on the insert     *)
(* position, of which the code says "compare and decide which way to go",   *)
(* and in a LEFT split those in front of it.                                *)
Stuck ==
    {f \in DOMAIN before :
        IF Right THEN before[f] = insertPos
                 ELSE before[f] <= insertPos /\ before[f] < splitPos}

(* The loop ends although it appends to the list it is walking, as long as  *)
(* there are no two frames of that kind to take turns: a frame it meets     *)
(* again has come closer to where it is not spliced any more.               *)
LoopEnds == [](Cardinality(Stuck) <= 1 => <>Done)

(* The number that the entry at p has in its half after a RIGHT split: in   *)
(* the node, before the cut, its old one; in the sibling, one more if the   *)
(* new entry comes before it.                                               *)
RightTarget(p) ==
    IF p < splitPos THEN p ELSE IF p < insertPos THEN p - splitPos ELSE p - splitPos + 1

(* When the loop of a RIGHT split has ended, the position of a frame is the *)
(* number its entry has in its half.  Only the number is claimed: that half *)
(* may be the sibling, but FramesKept says that the frame is still on the   *)
(* source's list.  Nothing is claimed of the frames on the insert position, *)
(* nor of those rebased to a position that is behind the cut as well: they  *)
(* are taken for frames not seen yet when the loop meets them again, and    *)
(* rebased twice.                                                           *)
RightPositions ==
    Done /\ Right => \A f \in DOMAIN before \ Stuck :
        RightTarget(before[f]) < splitPos => position[f] = RightTarget(before[f])

-----------------------------------------------------------------------------
(* What the repository says of the loop and the code does not keep.         *)

(* ops.cpp: "post-conditions: Both source and sibling are latched" - the    *)
(* call returns, also where the code has decided which way each frame goes. *)
Returns == []((\A f \in DOMAIN before : before[f] # insertPos) => <>Done)
=============================================================================
