---------------------------- MODULE PrefixSearch ----------------------------
(***************************************************************************)
(* lowerBound and KeyComparator of pvt/Node.cpp: std::lower_bound over the *)
(* search vector of a node, with a comparator that remembers how many      *)
(* leading bytes of the key its last smaller and its last larger entry     *)
(* have in common with it, and starts each comparison behind the shorter   *)
(* of the two.  One step is one call of the comparator.                    *)
(*                                                                         *)
(* std::lower_bound may probe any entry that is left; it calls the         *)
(* comparator with the entry first and the key second.  The two arguments  *)
(* of make_pair, the search and the call of equal(), are evaluated in an   *)
(* order the language leaves open.                                         *)
(***************************************************************************)
EXTENDS Lexicographic

CONSTANTS
    Keys,       \* byte strings: the keys stored and searched for
    Vectors,    \* search vectors
    NotRead

ASSUME PrefixAssumption ==
    /\ \A k \in Keys : k \in Bytes
    /\ \A s \in Vectors : s \in Seq(Keys) /\ Len(s) > 0 /\ Ascending(s)
    /\ NotRead \notin BOOLEAN

VARIABLES
    entries,    \* the keys the search vector points to
    key,
    lo, hi,     \* entries left: lo + 1 .. hi
    loPrefix,   \* State::loPrefixSize
    hiPrefix,   \* State::hiPrefixSize
    equal,      \* State::mEqual
    exact,      \* .second of the pair returned
    aborted     \* an assert has failed

vars == <<entries, key, lo, hi, loPrefix, hiPrefix, equal, exact, aborted>>

(* The whole keys are compared here. *)
Plain == INSTANCE Bisection

Init ==
    /\ entries \in Vectors
    /\ key \in Keys \ {<<>>}        \* assert(... && key.size())
    /\ lo = 0
    /\ hi = Len(entries)            \* assert(begin < end)
    /\ loPrefix = 0
    /\ hiPrefix = 0
    /\ equal = FALSE
    /\ exact = NotRead
    /\ aborted = FALSE

-----------------------------------------------------------------------------
Shorter(m, n) == IF m < n THEN m ELSE n

(* Slip: the longer of the two prefixes. *)
LongerPrefix == IF loPrefix < hiPrefix THEN hiPrefix ELSE loPrefix

(* std::min(st.loPrefixSize, st.hiPrefixSize) *)
PrefixSize == Shorter(loPrefix, hiPrefix)

(* std::mismatch stops at the at-th byte, having skipped the first n. *)
MismatchAt(l, r, n, at) ==
    /\ at \in n + 1 .. Shorter(Len(l), Len(r)) + 1
    /\ \A i \in n + 1 .. at - 1 : l[i] = r[i]
    /\ at <= Shorter(Len(l), Len(r)) => l[at] # r[at]

(* The comparator answers true: [mid + 1, end) is left. *)
TakeUpper(mid) == lo' = mid /\ UNCHANGED hi

(* The comparator answers false: [begin, mid) is left. *)
TakeLower(mid) == hi' = mid - 1 /\ UNCHANGED lo

(* Slip: a prefix of the key counts as a match. *)
PrefixIsMatch(mid) ==
    /\ equal' = TRUE
    /\ IF Len(entries[mid]) < Len(key) THEN TakeUpper(mid) ELSE TakeLower(mid)
    /\ UNCHANGED <<loPrefix, hiPrefix>>

(* Slip: an equal entry counts as lower. *)
EqualIsLower(mid) ==
    /\ equal' = (equal \/ Len(entries[mid]) = Len(key))
    /\ IF Len(entries[mid]) <= Len(key) THEN TakeUpper(mid) ELSE TakeLower(mid)
    /\ UNCHANGED <<loPrefix, hiPrefix>>

(* No mismatch: the shorter one is lower. *)
NoMismatch(mid) ==
    /\ equal' = (equal \/ Len(entries[mid]) = Len(key))
    /\ IF Len(entries[mid]) < Len(key) THEN TakeUpper(mid) ELSE TakeLower(mid)
    /\ UNCHANGED <<loPrefix, hiPrefix>>

EntryLower(mid, at) ==
    /\ entries[mid][at] < key[at]
    /\ loPrefix' = at - 1
    /\ TakeUpper(mid)
    /\ UNCHANGED <<hiPrefix, equal>>

(* Slip: the mismatched byte counts as shared. *)
CountsMismatch(mid, at) ==
    /\ ~(entries[mid][at] < key[at])
    /\ hiPrefix' = at
    /\ TakeLower(mid)
    /\ UNCHANGED <<loPrefix, equal>>

EntryHigher(mid, at) ==
    /\ ~(entries[mid][at] < key[at])
    /\ hiPrefix' = at - 1
    /\ TakeLower(mid)
    /\ UNCHANGED <<loPrefix, equal>>

(* The shared prefix takes up the entry or the key: there is no byte left   *)
(* to compare, and assert(prefixSize < cmpSize) fails.                      *)
OutOfBytes(mid) == PrefixSize >= Shorter(Len(entries[mid]), Len(key))

AssertFails(mid) ==
    /\ OutOfBytes(mid)
    /\ aborted' = TRUE
    /\ UNCHANGED <<entries, key, lo, hi, loPrefix, hiPrefix, equal, exact>>

(* compareLower(entries[mid], key, state) and what lower_bound makes of it *)
CompareLower(mid) ==
    LET size == Shorter(Len(entries[mid]), Len(key))
    IN  /\ ~OutOfBytes(mid)
        /\ \E at \in 1 .. size + 1 :
              /\ MismatchAt(entries[mid], key, PrefixSize, at)
              /\ \/ at > size /\ NoMismatch(mid)
                 \/ at <= size /\ EntryLower(mid, at)
                 \/ at <= size /\ EntryHigher(mid, at)
        /\ UNCHANGED <<entries, key, exact, aborted>>

(* comparatorState.equal(), before the search or after it *)
ReadEqual ==
    /\ exact = NotRead
    /\ lo = hi \/ hi - lo = Len(entries)
    /\ exact' = equal
    /\ UNCHANGED <<entries, key, lo, hi, loPrefix, hiPrefix, equal, aborted>>

Next ==
    /\ ~aborted
    /\ \/ \E mid \in lo + 1 .. hi : CompareLower(mid) \/ AssertFails(mid)
       \/ ReadEqual

Spec == Init /\ [][Next]_vars

-----------------------------------------------------------------------------
TypeOK ==
    /\ entries \in Seq(Keys)
    /\ key \in Keys \ {<<>>}
    /\ lo \in 0 .. Len(entries) /\ hi \in lo .. Len(entries)
    /\ loPrefix \in 0 .. Len(key) - 1 /\ hiPrefix \in 0 .. Len(key) - 1
    /\ equal \in BOOLEAN
    /\ exact \in BOOLEAN \cup {NotRead}
    /\ aborted \in BOOLEAN

(* What makes it right to skip bytes: every entry still in the range starts *)
(* with the bytes that compareLower does not look at.                       *)
PrefixShared ==
    \A i \in lo + 1 .. hi : Agree(entries[i], key, PrefixSize)

(* Skipping them changes no answer of the comparator: the search is a plain *)
(* bisection that compares whole keys.                                      *)
ComparesInFull == Plain!Spec

(* The range closes in on the lower bound: entries in front of it are       *)
(* smaller than the key, entries behind it are not.                         *)
Partitioned ==
    /\ \A i \in 1 .. lo : Less(entries[i], key)
    /\ \A i \in hi + 1 .. Len(entries) : ~Less(entries[i], key)

(* When the search is over, mEqual tells whether the key is stored: a       *)
(* binary search never closes in on an entry without probing it.            *)
EqualTells ==
    ~aborted /\ lo = hi => (equal <=> \E i \in 1 .. Len(entries) : entries[i] = key)

(* assert(prefixSize < cmpSize) of compareLower fails at the empty entry,   *)
(* whose length the format of the page allows (from 0 bytes), and at no     *)
(* other: the bytes skipped never take up an entry that is probed later.    *)
AssertFailsAtEmpty ==
    \A mid \in lo + 1 .. hi : OutOfBytes(mid) <=> entries[mid] = <<>>

(* equal() may be evaluated before the search has run, and reads FALSE      *)
(* then, but it never reports a match for a key that is not stored.         *)
ExactSound ==
    exact = TRUE => \E i \in 1 .. Len(entries) : KeyEquals(key, entries[i])

(* For a stored key and the key searched for exactly one of smaller, equal  *)
(* and larger holds.  Sorting by KeyLesser and telling duplicates by        *)
(* KeyEquals rest on it, and so do the models that take integers for keys.  *)
TotalOrder ==
    \A i \in 1 .. Len(entries) :
        \/ KeyLesser(entries[i], key) /\ ~KeyLesser(key, entries[i]) /\ ~KeyEquals(key, entries[i])
        \/ KeyLesser(key, entries[i]) /\ ~KeyLesser(entries[i], key) /\ ~KeyEquals(key, entries[i])
        \/ KeyEquals(key, entries[i]) /\ ~KeyLesser(key, entries[i]) /\ ~KeyLesser(entries[i], key)
=============================================================================
