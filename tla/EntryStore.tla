------------------------------ MODULE EntryStore ------------------------------
(***************************************************************************)
(* What a Tree promises of the entries it has taken in: insert adds one    *)
(* entry to those stored or changes nothing, and none is ever lost,        *)
(* however the entries are spread over leaves.                             *)
(***************************************************************************)
CONSTANT Entries

VARIABLE stored

Init == stored = {}

Insert(e) == stored' = stored \cup {e}

Next == \E e \in Entries : Insert(e)

Spec == Init /\ [][Next]_stored
=============================================================================
