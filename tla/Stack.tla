-------------------------------- MODULE Stack --------------------------------
(***************************************************************************)
(* A stack, last in, first out: what ArrayStackGeneric is for.             *)
(***************************************************************************)
EXTENDS Integers, Sequences

CONSTANT Values

VARIABLE contents   \* from the bottom to the top

Init == contents = <<>>

Push(v) == contents' = Append(contents, v)

Pop ==
    /\ contents # <<>>
    /\ contents' = SubSeq(contents, 1, Len(contents) - 1)

Clear == contents' = <<>>

Next == (\E v \in Values : Push(v)) \/ Pop \/ Clear

Spec == Init /\ [][Next]_contents
=============================================================================
