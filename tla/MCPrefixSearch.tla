--------------------------- MODULE MCPrefixSearch ---------------------------
(* Instances of PrefixSearch for TLC: keys over a small alphabet, and every *)
(* search vector of up to MaxEntries of them.                               *)
EXTENDS PrefixSearch, SequencesExt, FiniteSetsExt

CONSTANTS Alphabet, MinKeySize, MaxKeySize, MaxEntries

MCKeys == UNION {[1 .. n -> Alphabet] : n \in MinKeySize .. MaxKeySize}

MCVectors ==
    {SetToSortSeq(S, Less) : S \in UNION {kSubset(n, MCKeys) : n \in 1 .. MaxEntries}}
=============================================================================
