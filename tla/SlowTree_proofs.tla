---------------------------- MODULE SlowTree_proofs ----------------------------
(***************************************************************************)
(* First LeafNode's own specification, for every capacity, every set of    *)
(* keys and sizes and every number of nodes: leaves stay ordered, mBytes   *)
(* stays exact, and a split neither loses, duplicates nor misplaces an     *)
(* entry.  Ordered is inductive relative to NodesOK; the action properties *)
(* follow from both.                                                       *)
(*                                                                         *)
(* Then the tree, for any choice of the way down: it uses its leaves as    *)
(* LeafNode allows, loses no entry, splits no leaf into halves of one      *)
(* entry, and knows every leaf by the key and the sibling that some leaf   *)
(* recorded.                                                               *)
(***************************************************************************)
EXTENDS SlowTree, NodeOps_proofs

(* Keys are integers. *)
LEMMA EntryKeys ==
    ASSUME NEW s \in Seq(Entry)
    PROVE  /\ Len(s) \in Nat
           /\ \A i \in 1 .. Len(s) : s[i] \in Entry /\ s[i].key \in Int
<1>1. Len(s) \in Nat /\ \A i \in 1 .. Len(s) : s[i] \in Entry
  BY LenProperties, ElementOfSeq
<1>2. \A e \in Entry : e.key \in Int
  BY LeafAssumption DEF Entry
<1>3. QED
  BY <1>1, <1>2

(* Where lower_bound points and the key is not there yet, everything before *)
(* is smaller and everything from there on is larger.                       *)
LEMMA LowerBoundFacts ==
    ASSUME NEW s \in Seq(Entry), NEW key \in Keys, NEW pos \in 0 .. Len(s), Ascending(s),
           IsLowerBound(s, key, pos), ~IsDuplicate(s, key, pos)
    PROVE  /\ pos \in 0 .. Len(s)
           /\ \A i \in 1 .. pos : s[i].key < key
           /\ \A i \in pos + 1 .. Len(s) : key < s[i].key
<1>1. /\ pos \in 0 .. Len(s)
      /\ \A i \in 1 .. pos : s[i].key < key
      /\ \A i \in pos + 1 .. Len(s) : key <= s[i].key
  BY DEF IsLowerBound
<1>2. key \in Int /\ Len(s) \in Nat
  BY LeafAssumption, EntryKeys
<1>3. ASSUME NEW i \in pos + 1 .. Len(s)
      PROVE  key < s[i].key
  <2>1. i \in 1 .. Len(s) /\ pos + 1 \in 1 .. Len(s) /\ pos < Len(s) /\ pos + 1 <= i
    BY <1>1, <1>2
  <2>2. s[pos + 1].key # key
    BY <2>1 DEF IsDuplicate
  <2>3. key < s[pos + 1].key
    BY <1>1, <1>2, <2>1, <2>2, EntryKeys
  <2>4. s[pos + 1].key <= s[i].key
    BY <2>1, EntryKeys DEF Ascending
  <2>5. QED
    BY <1>2, <2>1, <2>3, <2>4, EntryKeys
<1>4. QED
  BY <1>1, <1>3

(* The vector with the new entry at its place. *)
LEMMA InsertFacts ==
    ASSUME NEW s \in Seq(Entry), NEW e \in Entry, NEW pos \in 0 .. Len(s), Ascending(s),
           IsLowerBound(s, e.key, pos), ~IsDuplicate(s, e.key, pos)
    PROVE  /\ InsertAt(s, pos + 1, e) \in Seq(Entry)
           /\ Len(InsertAt(s, pos + 1, e)) = Len(s) + 1
           /\ \A i \in 1 .. pos : InsertAt(s, pos + 1, e)[i] = s[i]
           /\ InsertAt(s, pos + 1, e)[pos + 1] = e
           /\ \A i \in pos + 2 .. Len(s) + 1 : InsertAt(s, pos + 1, e)[i] = s[i - 1]
           /\ Ascending(InsertAt(s, pos + 1, e))
<1> DEFINE key  == e.key
           full == InsertAt(s, pos + 1, e)
<1>0. key \in Keys /\ key \in Int
  BY LeafAssumption DEF Entry
<1>1. /\ pos \in 0 .. Len(s)
      /\ \A i \in 1 .. pos : s[i].key < key
      /\ \A i \in pos + 1 .. Len(s) : key < s[i].key
  BY <1>0, LowerBoundFacts
<1>2. /\ Len(s) \in Nat /\ pos \in Nat
      /\ \A i \in 1 .. Len(s) : s[i].key \in Int
  BY <1>1, EntryKeys
<1>3. /\ full \in Seq(Entry)
      /\ Len(full) = Len(s) + 1
      /\ full[pos + 1] = e
      /\ \A i \in 1 .. Len(s) + 1 : /\ i < pos + 1 => full[i] = s[i]
                                    /\ pos + 1 < i => full[i] = s[i - 1]
  <2>1. PICK i \in 1 .. Len(s) + 1 : i = pos + 1
    BY <1>1, <1>2
  <2>2. /\ InsertAt(s, i, e) \in Seq(Entry)
        /\ Len(InsertAt(s, i, e)) = Len(s) + 1
        /\ InsertAt(s, i, e)[i] = e
        /\ \A j \in 1 .. Len(s) + 1 : /\ j < i => InsertAt(s, i, e)[j] = s[j]
                                      /\ i < j => InsertAt(s, i, e)[j] = s[j - 1]
    BY InsertAtProperties
  <2>3. QED
    BY <2>1, <2>2, Zenon
<1> HIDE DEF full, key
<1>4. /\ \A i \in 1 .. pos : full[i] = s[i]
      /\ full[pos + 1] = e
      /\ \A i \in pos + 2 .. Len(s) + 1 : full[i] = s[i - 1]
  <2>1. \A i \in 1 .. pos : i \in 1 .. Len(s) + 1 /\ i < pos + 1
    BY <1>1, <1>2
  <2>2. \A i \in pos + 2 .. Len(s) + 1 : i \in 1 .. Len(s) + 1 /\ pos + 1 < i
    BY <1>1, <1>2
  <2>3. QED
    BY <1>3, <2>1, <2>2, Zenon
<1>5. ASSUME NEW i \in 1 .. Len(s) + 1, NEW j \in 1 .. Len(s) + 1, i < j
      PROVE  full[i].key < full[j].key
  <2>1. CASE j <= pos
    <3>1. /\ i \in 1 .. pos /\ j \in 1 .. pos
          /\ i \in 1 .. Len(s) /\ j \in 1 .. Len(s)
      BY <1>1, <1>2, <1>5, <2>1
    <3>2. QED
      BY <1>4, <1>5, <3>1 DEF Ascending
  <2>2. CASE j = pos + 1
    <3>1. i \in 1 .. pos
      BY <1>1, <1>2, <1>5, <2>2
    <3>2. QED
      BY <1>1, <1>4, <2>2, <3>1 DEF key
  <2>3. CASE j > pos + 1 /\ i <= pos
    <3>1. i \in 1 .. pos /\ j \in pos + 2 .. Len(s) + 1
          /\ i \in 1 .. Len(s) /\ j - 1 \in 1 .. Len(s) /\ i < j - 1
      BY <1>1, <1>2, <2>3
    <3>2. QED
      BY <1>4, <3>1 DEF Ascending
  <2>4. CASE j > pos + 1 /\ i = pos + 1
    <3>1. j \in pos + 2 .. Len(s) + 1 /\ j - 1 \in pos + 1 .. Len(s)
      BY <1>1, <1>2, <2>4
    <3>2. QED
      BY <1>1, <1>4, <2>4, <3>1 DEF key
  <2>5. CASE i > pos + 1
    <3>1. i \in pos + 2 .. Len(s) + 1 /\ j \in pos + 2 .. Len(s) + 1
          /\ i - 1 \in 1 .. Len(s) /\ j - 1 \in 1 .. Len(s) /\ i - 1 < j - 1
      BY <1>1, <1>2, <1>5, <2>5
    <3>2. QED
      BY <1>4, <3>1 DEF Ascending
  <2>6. j <= pos \/ j = pos + 1 \/ (j > pos + 1 /\ i <= pos)
        \/ (j > pos + 1 /\ i = pos + 1) \/ i > pos + 1
    BY <1>2, <1>5
  <2>7. QED
    BY <2>1, <2>2, <2>3, <2>4, <2>5, <2>6
<1>6. Ascending(full)
  BY <1>3, <1>5 DEF Ascending
<1>7. QED
  BY <1>3, <1>4, <1>6 DEF full

(* A slice of an ordered vector is ordered. *)
LEMMA SliceAscending ==
    ASSUME NEW s \in Seq(Entry), Ascending(s),
           NEW m \in 1 .. Len(s) + 1, NEW n \in m - 1 .. Len(s)
    PROVE  Ascending(SubSeq(s, m, n))
<1> DEFINE t == SubSeq(s, m, n)
<1>1. Len(s) \in Nat /\ m \in Int /\ n \in Int
  OBVIOUS
<1>2. /\ Len(t) = n - m + 1
      /\ \A i \in 1 .. n - m + 1 : t[i] = s[m + i - 1]
  BY SliceProperties
<1> HIDE DEF t
<1>3. ASSUME NEW i \in 1 .. Len(t), NEW j \in 1 .. Len(t), i < j
      PROVE  t[i].key < t[j].key
  <2>1. /\ m + i - 1 \in 1 .. Len(s) /\ m + j - 1 \in 1 .. Len(s)
        /\ m + i - 1 < m + j - 1
    BY <1>1, <1>2, <1>3
  <2>2. QED
    BY <1>2, <2>1 DEF Ascending
<1>4. QED
  BY <1>3 DEF Ascending, t

-----------------------------------------------------------------------------
(* The two halves of a split, as slices of the full vector and of the       *)
(* vector before the insertion.                                             *)
LEMMA SplitPointFacts ==
    ASSUME NEW s \in Seq(Entry), Len(s) >= 3
    PROVE  SplitPoint(s) \in Nat /\ 2 <= SplitPoint(s) /\ SplitPoint(s) < Len(s)
           /\ Len(s) \div 2 <= SplitPoint(s)
           /\ Len(s) \div 2 <= Len(s) - SplitPoint(s)
           /\ Len(s) \in Nat
  BY EntryKeys DEF SplitPoint

(* A LEFT split: the new entry and the entries before the cut go to the     *)
(* sibling.                                                                 *)
LEMMA LeftHalves ==
    ASSUME NEW s \in Seq(Entry), NEW e \in Entry, NEW pos \in 0 .. Len(s),
           Ascending(s), IsLowerBound(s, e.key, pos), ~IsDuplicate(s, e.key, pos),
           Len(s) >= 3, Direction(s, pos) = "LEFT", NEW sib, NEW rem,
           sib = SiblingChildren(s, pos, e), rem = RemainingChildren(s, pos)
    PROVE  /\ sib \in Seq(Entry) /\ Ascending(sib)
           /\ rem \in Seq(Entry) /\ Ascending(rem)
           /\ Len(sib) = SplitPoint(s) + 1
           /\ Len(rem) = Len(s) - SplitPoint(s)
           /\ \A i \in 1 .. pos : sib[i] = s[i]
           /\ sib[pos + 1] = e
           /\ \A i \in pos + 2 .. SplitPoint(s) + 1 : sib[i] = s[i - 1]
           /\ \A i \in 1 .. Len(s) - SplitPoint(s) : rem[i] = s[SplitPoint(s) + i]
           /\ \A i \in 1 .. Len(sib) : sib[i].key < s[SplitPoint(s) + 1].key
           /\ \A i \in 1 .. Len(rem) : s[SplitPoint(s) + 1].key <= rem[i].key
<1> DEFINE m    == SplitPoint(s)
           full == InsertAt(s, pos + 1, e)
<1>1. m \in Nat /\ 2 <= m /\ m < Len(s) /\ Len(s) \in Nat
  BY SplitPointFacts
<1>2. pos \in Nat /\ pos < m
  BY <1>1 DEF Direction
<1>3. /\ full \in Seq(Entry)
      /\ Len(full) = Len(s) + 1
      /\ \A i \in 1 .. pos : full[i] = s[i]
      /\ full[pos + 1] = e
      /\ \A i \in pos + 2 .. Len(s) + 1 : full[i] = s[i - 1]
      /\ Ascending(full)
  BY InsertFacts
<1>4. sib = SubSeq(full, 1, m + 1) /\ rem = SubSeq(s, m + 1, Len(s))
  BY DEF SiblingChildren, RemainingChildren
<1> HIDE DEF m, full
<1>5. /\ sib \in Seq(Entry) /\ Ascending(sib)
      /\ Len(sib) = m + 1
      /\ \A i \in 1 .. m + 1 : sib[i] = full[i]
  <2>1. PICK k \in 0 .. Len(full) : k = m + 1
    BY <1>1, <1>3
  <2>2. /\ SubSeq(full, 1, k) \in Seq(Entry)
        /\ Len(SubSeq(full, 1, k)) = k
        /\ \A i \in 1 .. k : SubSeq(full, 1, k)[i] = full[i]
        /\ Ascending(SubSeq(full, 1, k))
    <3>1. full \in Seq(Entry) /\ Ascending(full) /\ Len(full) \in Nat
      BY <1>3
    <3>2. /\ 1 \in 1 .. Len(full) + 1 /\ k \in 1 - 1 .. Len(full)
          /\ k - 1 + 1 = k /\ \A i \in 1 .. k : 1 + i - 1 = i
      BY <2>1, <3>1
    <3>3. Ascending(SubSeq(full, 1, k))
      BY <3>1, <3>2, SliceAscending, Zenon
    <3>4. /\ SubSeq(full, 1, k) \in Seq(Entry)
          /\ Len(SubSeq(full, 1, k)) = k - 1 + 1
          /\ \A i \in 1 .. k - 1 + 1 : SubSeq(full, 1, k)[i] = full[1 + i - 1]
      BY <3>1, <3>2, SliceProperties, ZenonT(30)
    <3>5. QED
      BY <3>2, <3>3, <3>4, Zenon
  <2>3. QED
    BY <1>4, <2>1, <2>2, Zenon
<1>6. /\ rem \in Seq(Entry) /\ Ascending(rem)
      /\ Len(rem) = Len(s) - m
      /\ \A i \in 1 .. Len(s) - m : rem[i] = s[m + i]
  <2>1. PICK k \in 1 .. Len(s) : k = m + 1
    BY <1>1
  <2>2. /\ SubSeq(s, k, Len(s)) \in Seq(Entry)
        /\ Len(SubSeq(s, k, Len(s))) = Len(s) - k + 1
        /\ \A i \in 1 .. Len(s) - k + 1 : SubSeq(s, k, Len(s))[i] = s[k + i - 1]
        /\ Ascending(SubSeq(s, k, Len(s)))
    BY <1>1, <2>1, SliceProperties, SliceAscending
  <2>3. rem = SubSeq(s, k, Len(s))
    BY <1>4, <2>1
  <2>4. Len(s) - k + 1 = Len(s) - m /\ \A i \in 1 .. Len(s) - m : k + i - 1 = m + i
    BY <1>1, <2>1
  <2>5. QED
    BY <2>2, <2>3, <2>4
<1>7. /\ \A i \in 1 .. pos : sib[i] = s[i]
      /\ sib[pos + 1] = e
      /\ \A i \in pos + 2 .. m + 1 : sib[i] = s[i - 1]
  BY <1>1, <1>2, <1>3, <1>5
<1>8. ASSUME NEW i \in 1 .. Len(sib)
      PROVE  sib[i].key < s[m + 1].key
  <2>1. m + 2 \in 1 .. Len(full) /\ i \in 1 .. Len(full) /\ i < m + 2
        /\ m + 2 \in pos + 2 .. Len(s) + 1 /\ (m + 2) - 1 = m + 1
    BY <1>1, <1>2, <1>3, <1>5
  <2>2. full[m + 2] = s[m + 1]
    BY <1>3, <2>1
  <2>3. QED
    BY <1>3, <1>5, <2>1, <2>2 DEF Ascending
<1>9. ASSUME NEW i \in 1 .. Len(rem)
      PROVE  s[m + 1].key <= rem[i].key
  <2>1. m + 1 \in 1 .. Len(s) /\ m + i \in 1 .. Len(s) /\ m + 1 <= m + i
        /\ rem[i] = s[m + i]
    BY <1>1, <1>6
  <2>2. QED
    BY <2>1, EntryKeys DEF Ascending
<1>10. QED
  BY <1>5, <1>6, <1>7, <1>8, <1>9 DEF m

(* A RIGHT split at m: the entries from the cut on and the new entry go to  *)
(* the sibling.                                                             *)
RightCut(s, e, pos, m, sib, rem) ==
    /\ sib \in Seq(Entry) /\ Ascending(sib)
    /\ rem \in Seq(Entry) /\ Ascending(rem)
    /\ Len(sib) = Len(s) + 1 - m
    /\ Len(rem) = m
    /\ m <= pos
    /\ \A i \in 1 .. m : rem[i] = s[i]
    /\ \A i \in m + 1 .. pos : sib[i - m] = s[i]
    /\ sib[pos + 1 - m] = e
    /\ \A i \in pos + 1 .. Len(s) : sib[i + 1 - m] = s[i]
    /\ \A j \in 1 .. Len(sib) : (\E i \in 1 .. Len(s) : sib[j] = s[i]) \/ sib[j] = e
    /\ \A i \in 1 .. Len(rem), j \in 1 .. Len(sib) : rem[i].key < sib[j].key

LEMMA RightHalves ==
    ASSUME NEW s \in Seq(Entry), NEW e \in Entry, NEW pos \in 0 .. Len(s),
           Ascending(s), IsLowerBound(s, e.key, pos), ~IsDuplicate(s, e.key, pos),
           Len(s) >= 3, Direction(s, pos) # "LEFT", NEW sib, NEW rem,
           sib = SiblingChildren(s, pos, e), rem = RemainingChildren(s, pos)
    PROVE  RightCut(s, e, pos, SplitPoint(s), sib, rem)
<1> DEFINE m    == SplitPoint(s)
           full == InsertAt(s, pos + 1, e)
<1>1. m \in Nat /\ 2 <= m /\ m < Len(s) /\ Len(s) \in Nat
  BY SplitPointFacts
<1>2. pos \in Nat /\ m <= pos /\ pos <= Len(s)
  BY <1>1 DEF Direction
<1>3. /\ full \in Seq(Entry)
      /\ Len(full) = Len(s) + 1
      /\ \A i \in 1 .. pos : full[i] = s[i]
      /\ full[pos + 1] = e
      /\ \A i \in pos + 2 .. Len(s) + 1 : full[i] = s[i - 1]
      /\ Ascending(full)
  BY InsertFacts
<1>4. sib = SubSeq(full, m + 1, Len(full)) /\ rem = SubSeq(s, 1, m)
  BY DEF SiblingChildren, RemainingChildren
<1> HIDE DEF m, full
<1>5. /\ sib \in Seq(Entry) /\ Ascending(sib)
      /\ Len(sib) = Len(s) + 1 - m
      /\ \A j \in 1 .. Len(s) + 1 - m : sib[j] = full[m + j]
  <2>1. PICK k \in 1 .. Len(full) : k = m + 1
    BY <1>1, <1>3
  <2>2. /\ SubSeq(full, k, Len(full)) \in Seq(Entry)
        /\ Len(SubSeq(full, k, Len(full))) = Len(full) - k + 1
        /\ \A j \in 1 .. Len(full) - k + 1 : SubSeq(full, k, Len(full))[j] = full[k + j - 1]
        /\ Ascending(SubSeq(full, k, Len(full)))
    <3>1. k \in 1 .. Len(full) + 1 /\ Len(full) \in k - 1 .. Len(full)
      BY <1>1, <1>3, <2>1
    <3>2. QED
      BY <1>3, <3>1, SliceProperties, SliceAscending
  <2>3. sib = SubSeq(full, k, Len(full))
    BY <1>4, <2>1
  <2>4. /\ Len(full) - k + 1 = Len(s) + 1 - m
        /\ \A j \in 1 .. Len(s) + 1 - m : k + j - 1 = m + j
    BY <1>1, <1>3, <2>1
  <2>5. QED
    BY <2>2, <2>3, <2>4
<1>6. /\ rem \in Seq(Entry) /\ Ascending(rem)
      /\ Len(rem) = m
      /\ \A i \in 1 .. m : rem[i] = s[i]
  <2>1. PICK k \in 0 .. Len(s) : k = m
    BY <1>1
  <2>2. /\ SubSeq(s, 1, k) \in Seq(Entry)
        /\ Len(SubSeq(s, 1, k)) = k
        /\ \A i \in 1 .. k : SubSeq(s, 1, k)[i] = s[i]
        /\ Ascending(SubSeq(s, 1, k))
    BY <1>1, <2>1, SliceProperties, SliceAscending
  <2>3. QED
    BY <1>4, <2>1, <2>2, Zenon
<1>7. ASSUME NEW i \in m + 1 .. pos
      PROVE  sib[i - m] = s[i]
  <2>1. i - m \in 1 .. Len(s) + 1 - m /\ m + (i - m) = i /\ i \in 1 .. pos
    BY <1>1, <1>2
  <2>2. QED
    BY <1>3, <1>5, <2>1
<1>8. sib[pos + 1 - m] = e
  <2>1. pos + 1 - m \in 1 .. Len(s) + 1 - m /\ m + (pos + 1 - m) = pos + 1
    BY <1>1, <1>2
  <2>2. QED
    BY <1>3, <1>5, <2>1
<1>9. ASSUME NEW i \in pos + 1 .. Len(s)
      PROVE  sib[i + 1 - m] = s[i]
  <2>1. /\ i + 1 - m \in 1 .. Len(s) + 1 - m /\ m + (i + 1 - m) = i + 1
        /\ i + 1 \in pos + 2 .. Len(s) + 1 /\ (i + 1) - 1 = i
    BY <1>1, <1>2
  <2>2. QED
    BY <1>3, <1>5, <2>1
<1>10. ASSUME NEW j \in 1 .. Len(sib)
       PROVE  (\E i \in 1 .. Len(s) : sib[j] = s[i]) \/ sib[j] = e
  <2>1. m + j \in 1 .. Len(s) + 1 /\ sib[j] = full[m + j]
    BY <1>1, <1>5
  <2>2. CASE m + j <= pos
    BY <1>2, <1>3, <2>1, <2>2
  <2>3. CASE m + j = pos + 1
    BY <1>3, <2>1, <2>3
  <2>4. CASE m + j > pos + 1
    <3>1. m + j \in pos + 2 .. Len(s) + 1 /\ (m + j) - 1 \in 1 .. Len(s)
      BY <1>1, <1>2, <2>1, <2>4
    <3>2. QED
      BY <1>3, <2>1, <3>1
  <2>5. m + j <= pos \/ m + j = pos + 1 \/ m + j > pos + 1
    BY <1>2, <2>1
  <2>6. QED
    BY <2>2, <2>3, <2>4, <2>5
<1>11. ASSUME NEW i \in 1 .. Len(rem), NEW j \in 1 .. Len(sib)
       PROVE  rem[i].key < sib[j].key
  <2>1. /\ i \in 1 .. Len(full) /\ m + j \in 1 .. Len(full) /\ i < m + j
        /\ i \in 1 .. pos
    BY <1>1, <1>2, <1>3, <1>5, <1>6
  <2>2. rem[i] = full[i] /\ sib[j] = full[m + j]
    BY <1>3, <1>5, <1>6, <2>1
  <2>3. QED
    BY <1>3, <2>1, <2>2 DEF Ascending
<1>12. RightCut(s, e, pos, m, sib, rem)
  BY <1>2, <1>5, <1>6, <1>7, <1>8, <1>9, <1>10, <1>11 DEF RightCut
<1>13. QED
  BY <1>12 DEF m

LEMMA RangeOfEntries ==
    ASSUME NEW s \in Seq(Entry), NEW x
    PROVE  x \in Range(s) <=> \E i \in 1 .. Len(s) : s[i] = x
  BY DEF Range

(* Either way the two halves hold the old entries and the new one, in two   *)
(* ranges of keys, neither of them shorter than half the old node.          *)
LEMMA SplitHalves ==
    ASSUME NEW s \in Seq(Entry), NEW e \in Entry, NEW pos \in 0 .. Len(s),
           Ascending(s), IsLowerBound(s, e.key, pos), ~IsDuplicate(s, e.key, pos),
           Len(s) >= 3, NEW sib, NEW rem,
           sib = SiblingChildren(s, pos, e), rem = RemainingChildren(s, pos)
    PROVE  /\ sib \in Seq(Entry) /\ Ascending(sib)
           /\ rem \in Seq(Entry) /\ Ascending(rem)
           /\ Len(sib) + Len(rem) = Len(s) + 1
           /\ Len(s) \div 2 <= Len(sib) /\ Len(s) \div 2 <= Len(rem)
           /\ Range(sib) \cup Range(rem) = Range(s) \cup {e}
           /\ e \in Range(sib)
           /\ \/ \A a \in Range(sib), b \in Range(rem) : a.key < b.key
              \/ \A a \in Range(sib), b \in Range(rem) : b.key < a.key
<1> DEFINE m    == SplitPoint(s)
           half == Len(s) \div 2
<1>1. /\ m \in Nat /\ 2 <= m /\ m < Len(s) /\ Len(s) \in Nat
      /\ half \in Nat /\ half <= m /\ half <= Len(s) - m
  BY SplitPointFacts
<1> HIDE DEF half
<1>2. pos \in Nat /\ pos <= Len(s)
  BY <1>1
<1>3. CASE Direction(s, pos) = "LEFT"
  <2>1. /\ sib \in Seq(Entry) /\ Ascending(sib)
        /\ rem \in Seq(Entry) /\ Ascending(rem)
        /\ Len(sib) = m + 1
        /\ Len(rem) = Len(s) - m
        /\ \A i \in 1 .. pos : sib[i] = s[i]
        /\ sib[pos + 1] = e
        /\ \A i \in pos + 2 .. m + 1 : sib[i] = s[i - 1]
        /\ \A i \in 1 .. Len(s) - m : rem[i] = s[m + i]
        /\ \A i \in 1 .. Len(sib) : sib[i].key < s[m + 1].key
        /\ \A i \in 1 .. Len(rem) : s[m + 1].key <= rem[i].key
    BY <1>3, LeftHalves
  <2>2. pos < m
    BY <1>1, <1>2, <1>3 DEF Direction
  <2> HIDE DEF m
  <2>3. ASSUME NEW x \in Range(sib)
        PROVE  x \in Range(s) \cup {e}
    <3>1. PICK i \in 1 .. Len(sib) : sib[i] = x
      BY <2>1, RangeOfEntries
    <3>2. CASE i <= pos
      BY <1>1, <1>2, <2>1, <3>1, <3>2, RangeOfEntries
    <3>3. CASE i = pos + 1
      BY <2>1, <3>1, <3>3
    <3>4. CASE i > pos + 1
      <4>1. i \in pos + 2 .. m + 1 /\ i - 1 \in 1 .. Len(s)
        BY <1>1, <1>2, <2>1, <3>4
      <4>2. QED
        BY <2>1, <3>1, <4>1, RangeOfEntries
    <3>5. QED
      BY <1>2, <2>1, <3>2, <3>3, <3>4
  <2>4. ASSUME NEW x \in Range(rem)
        PROVE  x \in Range(s)
    <3>1. PICK i \in 1 .. Len(rem) : rem[i] = x
      BY <2>1, RangeOfEntries
    <3>2. m + i \in 1 .. Len(s) /\ x = s[m + i]
      BY <1>1, <2>1, <3>1
    <3>3. QED
      BY <3>2, RangeOfEntries
  <2>5. e \in Range(sib)
    <3>1. pos + 1 \in 1 .. Len(sib)
      BY <1>2, <2>1, <2>2, <1>1
    <3>2. QED
      BY <2>1, <3>1, RangeOfEntries
  <2>6. ASSUME NEW x \in Range(s)
        PROVE  x \in Range(sib) \cup Range(rem)
    <3>1. PICK i \in 1 .. Len(s) : s[i] = x
      BY RangeOfEntries
    <3>2. CASE i <= pos
      <4>1. i \in 1 .. pos /\ i \in 1 .. Len(sib)
        BY <1>1, <1>2, <2>1, <2>2, <3>2
      <4>2. QED
        BY <2>1, <3>1, <4>1, RangeOfEntries
    <3>3. CASE pos < i /\ i <= m
      <4>1. i + 1 \in pos + 2 .. m + 1 /\ i + 1 \in 1 .. Len(sib) /\ (i + 1) - 1 = i
        BY <1>1, <1>2, <2>1, <3>3
      <4>2. QED
        BY <2>1, <3>1, <4>1, RangeOfEntries
    <3>4. CASE i > m
      <4>1. i - m \in 1 .. Len(s) - m /\ m + (i - m) = i
        BY <1>1, <3>4
      <4>2. QED
        BY <2>1, <3>1, <4>1, RangeOfEntries
    <3>5. i <= pos \/ (pos < i /\ i <= m) \/ i > m
      BY <1>1, <1>2
    <3>6. QED
      BY <3>2, <3>3, <3>4, <3>5
  <2>7. ASSUME NEW a \in Range(sib), NEW b \in Range(rem)
        PROVE  a.key < b.key
    <3>1. PICK i \in 1 .. Len(sib) : sib[i] = a
      BY <2>1, RangeOfEntries
    <3>2. PICK j \in 1 .. Len(rem) : rem[j] = b
      BY <2>1, RangeOfEntries
    <3>3. a.key < s[m + 1].key /\ s[m + 1].key <= b.key
      BY <2>1, <3>1, <3>2
    <3>4. a.key \in Int /\ b.key \in Int
      BY <2>1, <3>1, <3>2, EntryKeys
    <3>5. PICK k \in 1 .. Len(s) : k = m + 1
      BY <1>1
    <3>6. s[k].key \in Int
      BY EntryKeys
    <3>7. QED
      BY <3>3, <3>4, <3>5, <3>6
  <2>8. /\ Len(sib) + Len(rem) = Len(s) + 1
        /\ half <= Len(sib) /\ half <= Len(rem)
    BY <1>1, <2>1
  <2>9. Range(sib) \cup Range(rem) = Range(s) \cup {e}
    BY <2>3, <2>4, <2>5, <2>6
  <2>10. QED
    BY <2>1, <2>5, <2>7, <2>8, <2>9 DEF half
<1>4. CASE Direction(s, pos) # "LEFT"
  <2> HIDE DEF m
  <2>0. RightCut(s, e, pos, m, sib, rem)
    BY <1>4, RightHalves DEF m
  <2>1. /\ sib \in Seq(Entry) /\ Ascending(sib)
        /\ rem \in Seq(Entry) /\ Ascending(rem)
        /\ Len(sib) = Len(s) + 1 - m
        /\ Len(rem) = m
        /\ m <= pos
        /\ \A i \in 1 .. m : rem[i] = s[i]
        /\ \A i \in m + 1 .. pos : sib[i - m] = s[i]
        /\ sib[pos + 1 - m] = e
        /\ \A i \in pos + 1 .. Len(s) : sib[i + 1 - m] = s[i]
        /\ \A j \in 1 .. Len(sib) : (\E i \in 1 .. Len(s) : sib[j] = s[i]) \/ sib[j] = e
        /\ \A i \in 1 .. Len(rem), j \in 1 .. Len(sib) : rem[i].key < sib[j].key
    BY <2>0 DEF RightCut
  <2>2. Range(sib) \subseteq Range(s) \cup {e}
    <3>1. ASSUME NEW x \in Range(sib)
          PROVE  x \in Range(s) \cup {e}
      <4>1. PICK j \in 1 .. Len(sib) : sib[j] = x
        BY <2>1, RangeOfEntries
      <4>2. (\E i \in 1 .. Len(s) : sib[j] = s[i]) \/ sib[j] = e
        BY <2>1
      <4>3. QED
        BY <4>1, <4>2, RangeOfEntries
    <3>2. QED
      BY <3>1
  <2>3. Range(rem) \subseteq Range(s)
    BY <1>1, <2>1, RangeOfEntries
  <2>4. e \in Range(sib)
    <3>1. pos + 1 - m \in 1 .. Len(sib)
      BY <1>1, <1>2, <2>1
    <3>2. QED
      BY <2>1, <3>1, RangeOfEntries
  <2>5. ASSUME NEW x \in Range(s)
        PROVE  x \in Range(sib) \cup Range(rem)
    <3>1. PICK i \in 1 .. Len(s) : s[i] = x
      BY RangeOfEntries
    <3>2. CASE i <= m
      <4>1. i \in 1 .. m /\ i \in 1 .. Len(rem)
        BY <1>1, <2>1, <3>2
      <4>2. QED
        BY <2>1, <3>1, <4>1, RangeOfEntries
    <3>3. CASE m < i /\ i <= pos
      <4>1. i \in m + 1 .. pos /\ i - m \in 1 .. Len(sib)
        BY <1>1, <1>2, <2>1, <3>3
      <4>2. QED
        BY <2>1, <3>1, <4>1, RangeOfEntries
    <3>4. CASE pos < i
      <4>1. i \in pos + 1 .. Len(s) /\ i + 1 - m \in 1 .. Len(sib)
        BY <1>1, <1>2, <2>1, <3>4
      <4>2. QED
        BY <2>1, <3>1, <4>1, RangeOfEntries
    <3>5. i <= m \/ (m < i /\ i <= pos) \/ pos < i
      BY <1>1, <1>2
    <3>6. QED
      BY <3>2, <3>3, <3>4, <3>5
  <2>6. ASSUME NEW a \in Range(sib), NEW b \in Range(rem)
        PROVE  b.key < a.key
    <3>1. PICK i \in 1 .. Len(sib) : sib[i] = a
      BY <2>1, RangeOfEntries
    <3>2. PICK j \in 1 .. Len(rem) : rem[j] = b
      BY <2>1, RangeOfEntries
    <3>3. QED
      BY <2>1, <3>1, <3>2
  <2>7. /\ Len(sib) + Len(rem) = Len(s) + 1
        /\ half <= Len(sib) /\ half <= Len(rem)
    BY <1>1, <2>1
  <2>8. Range(sib) \cup Range(rem) = Range(s) \cup {e}
    BY <2>2, <2>3, <2>4, <2>5
  <2>9. QED
    BY <2>1, <2>4, <2>6, <2>7, <2>8 DEF half
<1>5. QED
  BY <1>3, <1>4

(* Of a LEFT split, the key of the first entry behind the cut divides the   *)
(* two halves.                                                              *)
LEMMA LeftSeparates ==
    ASSUME NEW s \in Seq(Entry), NEW e \in Entry, NEW pos \in 0 .. Len(s),
           Ascending(s), IsLowerBound(s, e.key, pos), ~IsDuplicate(s, e.key, pos),
           Len(s) >= 3, Direction(s, pos) = "LEFT", NEW sib, NEW rem,
           sib = SiblingChildren(s, pos, e), rem = RemainingChildren(s, pos)
    PROVE  Separates(SplitKey(s), Range(sib), Range(rem))
<1>1. /\ sib \in Seq(Entry)
      /\ rem \in Seq(Entry)
      /\ \A i \in 1 .. Len(sib) : sib[i].key < SplitKey(s)
      /\ \A i \in 1 .. Len(rem) : SplitKey(s) <= rem[i].key
  BY LeftHalves DEF SplitKey
<1>2. ASSUME NEW x \in Range(sib)
      PROVE  x.key < SplitKey(s)
  BY <1>1, RangeOfEntries
<1>3. ASSUME NEW x \in Range(rem)
      PROVE  SplitKey(s) <= x.key
  BY <1>1, RangeOfEntries
<1>4. QED
  BY <1>2, <1>3 DEF Separates

-----------------------------------------------------------------------------
(* The two steps that change a leaf, from any state that satisfies the      *)
(* invariant.                                                               *)
IInv == NodesOK /\ Ordered

LEMMA StoreStep ==
    ASSUME IInv, NEW n \in leaves, NEW key \in Keys, NEW size \in Sizes,
           NEW pos \in 0 .. Len(children[n]), IsLowerBound(children[n], key, pos),
           InsertStores(n, key, size, pos)
    PROVE  /\ IInv'
           /\ leaves' = leaves /\ split' = split
           /\ \A q \in Nodes \ {n} : children'[q] = children[q]
           /\ Contents(n)' = Contents(n) \cup {[key |-> key, size |-> size]}
           /\ Len(children'[n]) = Len(children[n]) + 1
<1> DEFINE e == [key |-> key, size |-> size]
           s == children[n]
           t == InsertAt(s, pos + 1, e)
<1>1. n \in Nodes /\ s \in Seq(Entry) /\ Ascending(s) /\ e \in Entry /\ e.key = key
  BY DEF IInv, NodesOK, Ordered, Entry
<1>2. /\ ~IsDuplicate(s, e.key, pos) /\ IsLowerBound(s, e.key, pos) /\ pos \in 0 .. Len(s)
      /\ children' = [children EXCEPT ![n] = t]
      /\ UNCHANGED <<leaves, split, aborted>>
  BY <1>1 DEF InsertStores
<1> HIDE DEF e, s
<1>3. /\ t \in Seq(Entry)
      /\ Len(t) = Len(s) + 1
      /\ \A i \in 1 .. pos : t[i] = s[i]
      /\ t[pos + 1] = e
      /\ \A i \in pos + 2 .. Len(s) + 1 : t[i] = s[i - 1]
      /\ Ascending(t)
  BY <1>1, <1>2, InsertFacts
<1> HIDE DEF t
<1>4. /\ children'[n] = t
      /\ \A q \in Nodes \ {n} : children'[q] = children[q]
      /\ children' \in [Nodes -> Seq(Entry)]
  BY <1>1, <1>2, <1>3 DEF IInv, NodesOK
<1>5. NodesOK'
  BY <1>2, <1>4 DEF IInv, NodesOK
<1>6. Ordered'
  BY <1>3, <1>4 DEF IInv, Ordered
<1>7. Range(t) = Range(s) \cup {e}
  <2>1. Len(s) \in Nat /\ pos \in Nat /\ pos <= Len(s)
    BY <1>1, <1>2, EntryKeys
  <2>2. ASSUME NEW x \in Range(t)
        PROVE  x \in Range(s) \cup {e}
    <3>1. PICK i \in 1 .. Len(t) : t[i] = x
      BY <1>3, RangeOfEntries
    <3>2. CASE i \in 1 .. pos
      <4>1. i \in 1 .. Len(s)
        BY <2>1, <3>2
      <4>2. QED
        BY <1>1, <1>3, <3>1, <3>2, <4>1, RangeOfEntries
    <3>3. CASE i = pos + 1
      BY <1>3, <3>1, <3>3
    <3>4. CASE i \in pos + 2 .. Len(s) + 1
      <4>1. i - 1 \in 1 .. Len(s)
        BY <2>1, <3>4
      <4>2. QED
        BY <1>1, <1>3, <3>1, <3>4, <4>1, RangeOfEntries
    <3>5. i \in 1 .. pos \/ i = pos + 1 \/ i \in pos + 2 .. Len(s) + 1
      BY <1>3, <2>1
    <3>6. QED
      BY <3>2, <3>3, <3>4, <3>5
  <2>3. ASSUME NEW x \in Range(s)
        PROVE  x \in Range(t)
    <3>1. PICK i \in 1 .. Len(s) : s[i] = x
      BY <1>1, RangeOfEntries
    <3>2. CASE i <= pos
      <4>1. i \in 1 .. pos /\ i \in 1 .. Len(t)
        BY <1>3, <2>1, <3>2
      <4>2. QED
        BY <1>3, <3>1, <4>1, RangeOfEntries
    <3>3. CASE pos < i
      <4>1. i + 1 \in pos + 2 .. Len(s) + 1 /\ i + 1 \in 1 .. Len(t) /\ (i + 1) - 1 = i
        BY <1>3, <2>1, <3>3
      <4>2. QED
        BY <1>3, <3>1, <4>1, RangeOfEntries
    <3>4. i <= pos \/ pos < i
      BY <2>1
    <3>5. QED
      BY <3>2, <3>3, <3>4
  <2>4. e \in Range(t)
    <3>1. pos + 1 \in 1 .. Len(t)
      BY <1>3, <2>1
    <3>2. QED
      BY <1>3, <3>1, RangeOfEntries
  <2>5. QED
    BY <2>2, <2>3, <2>4
<1>8. QED
  BY <1>2, <1>3, <1>4, <1>5, <1>6, <1>7 DEF IInv, Contents, e, s

LEMMA SplitStoreStep ==
    ASSUME IInv, NEW n \in leaves, NEW key \in Keys, NEW size \in Sizes,
           NEW sibling \in Nodes \ leaves,
           NEW pos \in 0 .. Len(children[n]), IsLowerBound(children[n], key, pos),
           SplitStores(n, key, size, sibling, pos)
    PROVE  /\ IInv'
           /\ leaves' = leaves \cup {sibling}
           /\ \A q \in Nodes \ {n, sibling} : children'[q] = children[q]
           /\ \A q \in Nodes \ {n} : split'[q] = split[q]
           /\ SplitStep(n, sibling, [key |-> key, size |-> size])
           /\ Len(children[n]) \div 2 <= Len(children'[n])
           /\ Len(children[n]) \div 2 <= Len(children'[sibling])
           /\ /\ split'[n] # split[n]
              /\ split'[n].direction = "LEFT"
              => Separates(split'[n].key, Range(children'[split'[n].sibling]), Contents(n)')
<1> DEFINE e   == [key |-> key, size |-> size]
           s   == children[n]
           sib == SiblingChildren(s, pos, e)
           rem == RemainingChildren(s, pos)
<1>1. /\ n \in Nodes /\ sibling \in Nodes /\ n # sibling
      /\ s \in Seq(Entry) /\ Ascending(s) /\ e \in Entry /\ e.key = key
  BY DEF IInv, NodesOK, Ordered, Entry
<1>2. /\ ~IsDuplicate(s, e.key, pos) /\ IsLowerBound(s, e.key, pos) /\ pos \in 0 .. Len(s)
      /\ ~(Len(s) < 3)
      /\ leaves' = leaves \cup {sibling}
      /\ children' = [children EXCEPT ![sibling] = sib, ![n] = rem]
      /\ RecordSplit(n, sibling, Direction(s, pos), SplitKey(s))
  BY <1>1 DEF SplitStores, SplitNotRequired
<1> HIDE DEF e, s
<1>3. Len(s) >= 3
  BY <1>1, <1>2, EntryKeys
<1>4. /\ sib \in Seq(Entry) /\ Ascending(sib)
      /\ rem \in Seq(Entry) /\ Ascending(rem)
      /\ Len(sib) + Len(rem) = Len(s) + 1
      /\ Len(s) \div 2 <= Len(sib) /\ Len(s) \div 2 <= Len(rem)
      /\ Range(sib) \cup Range(rem) = Range(s) \cup {e}
      /\ e \in Range(sib)
      /\ \/ \A a \in Range(sib), b \in Range(rem) : a.key < b.key
         \/ \A a \in Range(sib), b \in Range(rem) : b.key < a.key
  BY <1>1, <1>2, <1>3, SplitHalves
<1>5. Direction(s, pos) = "LEFT" => Separates(SplitKey(s), Range(sib), Range(rem))
  BY <1>1, <1>2, <1>3, LeftSeparates
<1> HIDE DEF sib, rem
<1>6. /\ children'[n] = rem /\ children'[sibling] = sib
      /\ \A q \in Nodes \ {n, sibling} : children'[q] = children[q]
      /\ children' \in [Nodes -> Seq(Entry)]
  BY <1>1, <1>2, <1>4 DEF IInv, NodesOK
<1>7. SplitKey(s) \in Keys
  <2>1. PICK k \in 1 .. Len(s) : k = SplitPoint(s) + 1
    BY <1>1, <1>3, SplitPointFacts
  <2>2. s[k].key \in Keys
    BY <1>1, EntryKeys DEF Entry
  <2>3. QED
    BY <2>1, <2>2 DEF SplitKey
<1>8. Direction(s, pos) \in {"LEFT", "RIGHT"}
  BY DEF Direction
<1>9. CASE split[n] = NoSplit
  <2> DEFINE r == [sibling |-> sibling, direction |-> Direction(s, pos), key |-> SplitKey(s)]
  <2>1. split' = [split EXCEPT ![n] = r] /\ UNCHANGED aborted
    BY <1>2, <1>9 DEF RecordSplit
  <2>2. r \in Split /\ r.sibling = sibling /\ r.direction = Direction(s, pos)
        /\ r.key = SplitKey(s)
    BY <1>1, <1>7, <1>8 DEF Split
  <2> HIDE DEF r
  <2>3. /\ split'[n] = r
        /\ \A q \in Nodes \ {n} : split'[q] = split[q]
        /\ split' \in [Nodes -> Split \cup {NoSplit}]
    BY <1>1, <2>1, <2>2 DEF IInv, NodesOK
  <2>4. NodesOK'
    <3>1. \A q \in Nodes : split'[q] # NoSplit => split'[q].sibling \in leaves' \ {q}
      BY <1>1, <1>2, <2>2, <2>3 DEF IInv, NodesOK
    <3>2. leaves' \subseteq Nodes /\ FirstLeaf \in leaves' /\ aborted' \in BOOLEAN
      BY <1>1, <1>2, <2>1 DEF IInv, NodesOK
    <3>3. QED
      BY <1>2, <1>6, <2>3, <3>1, <3>2 DEF NodesOK
  <2>5. Ordered'
    BY <1>4, <1>6 DEF IInv, Ordered
  <2>6. split'[n].direction = "LEFT"
        => Separates(split'[n].key, Range(children'[split'[n].sibling]), Contents(n)')
    BY <1>5, <1>6, <2>2, <2>3 DEF Contents
  <2>7. SplitStep(n, sibling, e)
    BY <1>4, <1>6 DEF SplitStep, Contents, s
  <2>8. QED
    BY <1>2, <1>4, <1>6, <2>3, <2>4, <2>5, <2>6, <2>7 DEF IInv, e, s
<1>10. CASE split[n] # NoSplit
  <2>1. split' = split /\ aborted' = TRUE
    BY <1>2, <1>10 DEF RecordSplit
  <2>2. NodesOK'
    BY <1>1, <1>2, <1>6, <2>1 DEF IInv, NodesOK
  <2>3. Ordered'
    BY <1>4, <1>6 DEF IInv, Ordered
  <2>4. SplitStep(n, sibling, e)
    BY <1>4, <1>6 DEF SplitStep, Contents, s
  <2>5. QED
    BY <1>2, <1>4, <1>6, <2>1, <2>2, <2>3, <2>4 DEF IInv, e, s
<1>11. QED
  BY <1>9, <1>10

-----------------------------------------------------------------------------
LEMMA InitInv == Init => IInv
<1> SUFFICES ASSUME Init PROVE IInv
  OBVIOUS
<1>1. NodesOK
  <2>1. <<>> \in Seq(Entry)
    OBVIOUS
  <2>2. children \in [Nodes -> Seq(Entry)]
    BY <2>1 DEF Init
  <2>3. split \in [Nodes -> Split \cup {NoSplit}] /\ \A n \in Nodes : split[n] = NoSplit
    BY DEF Init
  <2>4. QED
    BY <2>2, <2>3, LeafAssumption DEF Init, NodesOK
<1>2. Ordered
  BY DEF Init, Ordered, Ascending
<1>3. QED
  BY <1>1, <1>2 DEF IInv

(* What any step does: it changes no leaf, or it is one of the two above.   *)
LEMMA StepKinds ==
    ASSUME IInv, Next
    PROVE  \/ UNCHANGED vars
           \/ \E n \in leaves, key \in Keys, size \in Sizes :
                 \E pos \in 0 .. Len(children[n]) :
                    /\ IsLowerBound(children[n], key, pos)
                    /\ \/ InsertStores(n, key, size, pos)
                       \/ \E sibling \in Nodes \ leaves :
                              SplitStores(n, key, size, sibling, pos)
<1>1. PICK n \in leaves, key \in Keys, size \in Sizes :
        \/ Insert(n, key, size)
        \/ \E sibling \in Nodes \ leaves : SplitAndInsert(n, key, size, sibling)
  BY DEF Next
<1>2. CASE Insert(n, key, size)
  <2>1. PICK pos \in 0 .. Len(children[n]) :
          /\ IsLowerBound(children[n], key, pos)
          /\ \/ InsertThrows(n, key, size, pos)
             \/ InsertRefused(n, key, size, pos)
             \/ InsertStores(n, key, size, pos)
    BY <1>2 DEF Insert
  <2>2. CASE InsertThrows(n, key, size, pos)
    BY <2>2 DEF InsertThrows
  <2>3. CASE InsertRefused(n, key, size, pos)
    BY <2>3 DEF InsertRefused
  <2>4. CASE InsertStores(n, key, size, pos)
    BY <2>1, <2>4
  <2>5. QED
    BY <2>1, <2>2, <2>3, <2>4
<1>3. CASE \E sibling \in Nodes \ leaves : SplitAndInsert(n, key, size, sibling)
  <2>1. PICK sibling \in Nodes \ leaves : SplitAndInsert(n, key, size, sibling)
    BY <1>3
  <2>2. PICK pos \in 0 .. Len(children[n]) :
          /\ IsLowerBound(children[n], key, pos)
          /\ SplitThrows(n, key, size, pos) \/ SplitStores(n, key, size, sibling, pos)
    BY <2>1 DEF SplitAndInsert
  <2>3. CASE SplitThrows(n, key, size, pos)
    BY <2>3 DEF SplitThrows
  <2>4. CASE SplitStores(n, key, size, sibling, pos)
    BY <2>2, <2>4
  <2>5. QED
    BY <2>2, <2>3, <2>4
<1>4. QED
  BY <1>1, <1>2, <1>3

LEMMA StepInv == IInv /\ [Next]_vars => IInv'
<1> SUFFICES ASSUME IInv, [Next]_vars PROVE IInv'
  OBVIOUS
<1>1. CASE Next
  <2>1. CASE UNCHANGED vars
    BY <2>1 DEF vars, IInv, NodesOK, Ordered
  <2>2. CASE \E n \in leaves, key \in Keys, size \in Sizes :
               \E pos \in 0 .. Len(children[n]) :
                  /\ IsLowerBound(children[n], key, pos)
                  /\ \/ InsertStores(n, key, size, pos)
                     \/ \E sibling \in Nodes \ leaves :
                            SplitStores(n, key, size, sibling, pos)
    BY <2>2, StoreStep, SplitStoreStep
  <2>3. QED
    BY <1>1, <2>1, <2>2, StepKinds
<1>2. CASE UNCHANGED vars
  BY <1>2 DEF vars, IInv, NodesOK, Ordered
<1>3. QED
  BY <1>1, <1>2

LEMMA Invariance == Spec => []IInv
  BY InitInv, StepInv, PTL DEF Spec

(* No series of inserts and splits leaves a vector of entries unordered.    *)
THEOREM LeavesOrdered == Spec => []Ordered
  BY Invariance, PTL DEF IInv

-----------------------------------------------------------------------------
(* A step of splitAndInsert or insert loses and duplicates no entry.        *)
THEOREM NothingLost == Spec => EntriesConserved
<1> DEFINE Conserved ==
      \A n \in leaves :
           \/ children'[n] = children[n]
           \/ \E key \in Keys, size \in Sizes :
                  LET e == [key |-> key, size |-> size]
                  IN  \/ /\ leaves' = leaves
                         /\ Contents(n)' = Contents(n) \cup {e}
                         /\ Len(children'[n]) = Len(children[n]) + 1
                      \/ \E s \in leaves' \ leaves : SplitStep(n, s, e)
<1>1. ASSUME IInv, Next
      PROVE  Conserved
  <2>1. leaves \subseteq Nodes
    BY <1>1 DEF IInv, NodesOK
  <2>2. CASE UNCHANGED vars
    BY <2>2 DEF vars
  <2>3. ASSUME NEW n \in leaves, NEW key \in Keys, NEW size \in Sizes,
               NEW pos \in 0 .. Len(children[n]), IsLowerBound(children[n], key, pos),
               InsertStores(n, key, size, pos)
        PROVE  Conserved
    <3>1. /\ leaves' = leaves
          /\ \A q \in Nodes \ {n} : children'[q] = children[q]
          /\ Contents(n)' = Contents(n) \cup {[key |-> key, size |-> size]}
          /\ Len(children'[n]) = Len(children[n]) + 1
      BY <1>1, <2>3, StoreStep
    <3>2. QED
      BY <2>1, <3>1, Zenon
  <2>4. ASSUME NEW n \in leaves, NEW key \in Keys, NEW size \in Sizes,
               NEW pos \in 0 .. Len(children[n]), IsLowerBound(children[n], key, pos),
               NEW sibling \in Nodes \ leaves, SplitStores(n, key, size, sibling, pos)
        PROVE  Conserved
    <3>1. /\ leaves' = leaves \cup {sibling}
          /\ \A q \in Nodes \ {n, sibling} : children'[q] = children[q]
          /\ SplitStep(n, sibling, [key |-> key, size |-> size])
      BY <1>1, <2>4, SplitStoreStep
    <3>2. sibling \in leaves' \ leaves
      BY <3>1
    <3>3. ASSUME NEW q \in leaves, q # n
          PROVE  children'[q] = children[q]
      BY <2>1, <3>1, <3>3
    <3>4. QED
      BY <3>1, <3>2, <3>3, Zenon
  <2>5. QED
    BY <1>1, <2>2, <2>3, <2>4, StepKinds
<1>2. IInv /\ [Next]_vars => [Conserved]_vars
  BY <1>1
<1>3. QED
  BY <1>2, Invariance, PTL DEF Spec, EntriesConserved

(* Neither half of a split is shorter than half the old vector.             *)
THEOREM SplitsBalanced == Spec => HalvesBalanced
<1> DEFINE Balanced ==
      \A n \in leaves, s \in leaves' \ leaves :
           children'[n] # children[n] =>
               /\ Len(children[n]) \div 2 <= Len(children'[n])
               /\ Len(children[n]) \div 2 <= Len(children'[s])
<1>1. ASSUME IInv, Next
      PROVE  Balanced
  <2>1. leaves \subseteq Nodes
    BY <1>1 DEF IInv, NodesOK
  <2>2. CASE UNCHANGED vars
    BY <2>2 DEF vars
  <2>3. ASSUME NEW n \in leaves, NEW key \in Keys, NEW size \in Sizes,
               NEW pos \in 0 .. Len(children[n]), IsLowerBound(children[n], key, pos),
               InsertStores(n, key, size, pos)
        PROVE  Balanced
    BY <2>3 DEF InsertStores
  <2>4. ASSUME NEW n \in leaves, NEW key \in Keys, NEW size \in Sizes,
               NEW pos \in 0 .. Len(children[n]), IsLowerBound(children[n], key, pos),
               NEW sibling \in Nodes \ leaves, SplitStores(n, key, size, sibling, pos)
        PROVE  Balanced
    <3>1. /\ leaves' = leaves \cup {sibling}
          /\ \A q \in Nodes \ {n, sibling} : children'[q] = children[q]
          /\ Len(children[n]) \div 2 <= Len(children'[n])
          /\ Len(children[n]) \div 2 <= Len(children'[sibling])
      BY <1>1, <2>4, SplitStoreStep
    <3>2. \A q \in leaves : q # n => children'[q] = children[q]
      BY <2>1, <3>1
    <3>3. leaves' \ leaves = {sibling}
      BY <3>1
    <3>4. QED
      BY <3>1, <3>2, <3>3, Zenon
  <2>5. QED
    BY <1>1, <2>2, <2>3, <2>4, StepKinds
<1>2. IInv /\ [Next]_vars => [Balanced]_vars
  BY <1>1
<1>3. QED
  BY <1>2, Invariance, PTL DEF Spec, HalvesBalanced

(* The key recorded by a LEFT split has the sibling below it and the node   *)
(* at or above it.                                                          *)
THEOREM LeftKeySeparates == Spec => LeftSplitSeparates
<1> DEFINE Separated ==
      \A n \in leaves :
           /\ split'[n] # split[n]
           /\ split'[n].direction = "LEFT"
           => Separates(split'[n].key, Range(children'[split'[n].sibling]), Contents(n)')
<1>1. ASSUME IInv, Next
      PROVE  Separated
  <2>1. leaves \subseteq Nodes
    BY <1>1 DEF IInv, NodesOK
  <2>2. CASE UNCHANGED vars
    BY <2>2 DEF vars
  <2>3. ASSUME NEW n \in leaves, NEW key \in Keys, NEW size \in Sizes,
               NEW pos \in 0 .. Len(children[n]), IsLowerBound(children[n], key, pos),
               InsertStores(n, key, size, pos)
        PROVE  Separated
    BY <2>3 DEF InsertStores
  <2>4. ASSUME NEW n \in leaves, NEW key \in Keys, NEW size \in Sizes,
               NEW pos \in 0 .. Len(children[n]), IsLowerBound(children[n], key, pos),
               NEW sibling \in Nodes \ leaves, SplitStores(n, key, size, sibling, pos)
        PROVE  Separated
    <3>1. /\ \A q \in Nodes \ {n} : split'[q] = split[q]
          /\ /\ split'[n] # split[n]
             /\ split'[n].direction = "LEFT"
             => Separates(split'[n].key, Range(children'[split'[n].sibling]), Contents(n)')
      BY <1>1, <2>4, SplitStoreStep
    <3>2. QED
      BY <2>1, <3>1, Zenon
  <2>5. QED
    BY <1>1, <2>2, <2>3, <2>4, StepKinds
<1>2. IInv /\ [Next]_vars => [Separated]_vars
  BY <1>1
<1>3. QED
  BY <1>2, Invariance, PTL DEF Spec, LeftSplitSeparates
-----------------------------------------------------------------------------
(* The byte accounting: no stored entry exceeds a quarter of the node, and  *)
(* mBytes is the total of the entries as long as no assert has failed.      *)
SizesFit == \A n \in Nodes : \A a \in Contents(n) : a.size <= MaxEntry

BytesInv == IInv /\ SizesFit /\ bytes \in [Nodes -> Nat] /\ BytesExact

LEMMA MaxEntryNat == MaxEntry \in Nat /\ 4 * MaxEntry <= Capacity
  BY CapacityAssumption DEF MaxEntry

(* A vector of entries within a quarter of the node has a total.            *)
LEMMA EntriesSized ==
    ASSUME NEW s \in Seq(Entry), \A a \in Range(s) : a.size <= MaxEntry
    PROVE  /\ Sized(s)
           /\ BytesUsed(s) \in Nat
           /\ Len(s) < 4 => BytesUsed(s) <= MaxEntry + MaxEntry + MaxEntry
<1>1. Len(s) \in Nat /\ \A i \in 1 .. Len(s) : s[i] \in Entry
  BY EntryKeys
<1>2. \A a \in Entry : a.size \in Nat
  BY LeafAssumption DEF Entry
<1>3. Sized(s)
  BY <1>1, <1>2 DEF Sized
<1>4. \A i \in 1 .. Len(s) : s[i].size <= MaxEntry
  BY RangeOfEntries
<1>5. QED
  BY <1>3, <1>4, MaxEntryNat, TotalOfFew

LEMMA BytesInit == Init => BytesInv
<1> SUFFICES ASSUME Init PROVE BytesInv
  OBVIOUS
<1>1. \A n \in Nodes : children[n] = <<>> /\ bytes[n] = 0
  BY DEF Init
<1>2. /\ <<>> \in Seq(Entry) /\ Len(<<>>) = 0
      /\ \A a \in Range(<<>>) : a.size <= MaxEntry
  <2>1. <<>> \in Seq(Entry) /\ Len(<<>>) = 0
    OBVIOUS
  <2>2. PICK s \in Seq(Entry) : s = <<>>
    BY <2>1
  <2>3. \A a \in Range(s) : FALSE
    <3>1. ASSUME NEW a \in Range(s)
          PROVE  FALSE
      <4>1. \E i \in 1 .. Len(s) : s[i] = a
        BY RangeOfEntries
      <4>2. QED
        BY <2>1, <2>2, <4>1
    <3>2. QED
      BY <3>1
  <2>4. QED
    BY <2>1, <2>2, <2>3
<1>3. BytesUsed(<<>>) = 0
  <2>1. Sized(<<>>)
    BY <1>2, EntriesSized
  <2>2. RunningTotal(<<>>)[0] = 0
    BY <2>1, TotalFacts
  <2>3. QED
    BY <1>2, <2>2 DEF BytesUsed
<1>4. SizesFit
  BY <1>1, <1>2 DEF SizesFit, Contents
<1>5. BytesExact /\ bytes \in [Nodes -> Nat]
  BY <1>1, <1>3 DEF BytesExact, Init
<1>6. QED
  BY <1>4, <1>5, InitInv DEF BytesInv

(* insert adds the size of the entry it places.                             *)
LEMMA StoreBytes ==
    ASSUME BytesInv, NEW n \in leaves, NEW key \in Keys, NEW size \in Sizes,
           NEW pos \in 0 .. Len(children[n]), IsLowerBound(children[n], key, pos),
           InsertStores(n, key, size, pos)
    PROVE  BytesInv'
<1> DEFINE e == [key |-> key, size |-> size]
           s == children[n]
           t == InsertAt(s, pos + 1, e)
<1>1. /\ n \in Nodes /\ s \in Seq(Entry) /\ Ascending(s)
      /\ e \in Entry /\ e.key = key /\ e.size = size /\ size \in Nat
  BY LeafAssumption DEF BytesInv, IInv, NodesOK, Ordered, Entry
<1>2. /\ ~IsDuplicate(s, e.key, pos) /\ IsLowerBound(s, e.key, pos)
      /\ children'[n] = t /\ bytes'[n] = bytes[n] + size
      /\ \A q \in Nodes \ {n} : children'[q] = children[q] /\ bytes'[q] = bytes[q]
      /\ bytes' \in [Nodes -> Nat]
      /\ aborted' = aborted /\ e.size <= MaxEntry
  <2>1. /\ ~IsDuplicate(s, e.key, pos) /\ IsLowerBound(s, e.key, pos)
        /\ children' = [children EXCEPT ![n] = t]
        /\ bytes' = [bytes EXCEPT ![n] = @ + size]
        /\ aborted' = aborted /\ ~(e.size > MaxEntry)
    BY <1>1 DEF InsertStores, TooBig
  <2>2. bytes \in [Nodes -> Nat] /\ DOMAIN children = Nodes
    BY DEF BytesInv, IInv, NodesOK
  <2>3. e.size <= MaxEntry
    BY <1>1, <2>1, MaxEntryNat
  <2> HIDE DEF t, e, s
  <2>4. QED
    BY <1>1, <2>1, <2>2, <2>3
<1>3. IInv' /\ Contents(n)' = Contents(n) \cup {e}
  BY StoreStep DEF BytesInv
<1>4. SizesFit'
  <2>1. \A q \in Nodes : \A a \in Contents(q) : a.size <= MaxEntry
    BY DEF BytesInv, SizesFit
  <2>2. \A q \in Nodes \ {n} : Contents(q)' = Contents(q)
    BY <1>2 DEF Contents
  <2> HIDE DEF e
  <2>3. \A q \in Nodes : \A a \in Contents(q)' : a.size <= MaxEntry
    BY <1>1, <1>2, <1>3, <2>1, <2>2
  <2>4. QED
    BY <2>3 DEF SizesFit, MaxEntry
<1>5. BytesUsed(t) = BytesUsed(s) + size
  <2>1. /\ t \in Seq(Entry)
        /\ Len(t) = Len(s) + 1
        /\ \A i \in 1 .. pos : t[i] = s[i]
        /\ t[pos + 1] = e
        /\ \A i \in pos + 2 .. Len(s) + 1 : t[i] = s[i - 1]
    <3>1. pos \in 0 .. Len(s)
      OBVIOUS
    <3> HIDE DEF s, e
    <3>2. QED
      BY <1>1, <1>2, <3>1, InsertFacts, ZenonT(30)
  <2>2. Sized(s)
    BY <1>1, EntriesSized DEF BytesInv, SizesFit, Contents
  <2>3. Sized(t)
    <3>1. \A a \in Range(t) : a.size <= MaxEntry
      BY <1>1, <1>2, <1>4 DEF SizesFit, Contents, MaxEntry
    <3>2. QED
      BY <2>1, <3>1, EntriesSized
  <2> HIDE DEF t, e, s
  <2>4. PICK k \in 1 .. Len(s) + 1 : k = pos + 1
    BY <1>1, EntryKeys DEF s
  <2>5. \A j \in 1 .. Len(s) + 1 : (j < k => t[j] = s[j]) /\ (k < j => t[j] = s[j - 1])
    <3>1. Len(s) \in Nat /\ pos \in Nat
      BY <1>1, EntryKeys DEF s
    <3>2. ASSUME NEW j \in 1 .. Len(s) + 1
          PROVE  (j < k => t[j] = s[j]) /\ (k < j => t[j] = s[j - 1])
      <4>1. j < k => j \in 1 .. pos
        BY <2>4, <3>1
      <4>2. k < j => j \in pos + 2 .. Len(s) + 1
        BY <2>4, <3>1
      <4>3. QED
        BY <2>1, <4>1, <4>2, Zenon
    <3>3. QED
      BY <3>2
  <2>6. e.size \in Nat /\ t[k] = e
    BY <1>1, <2>1, <2>4
  <2>7. BytesUsed(t) = BytesUsed(s) + e.size
    <3>1. PICK u : u = t
      OBVIOUS
    <3>2. PICK r : r = s
      OBVIOUS
    <3>3. PICK a : a = e
      OBVIOUS
    <3>4. /\ Sized(r) /\ Sized(u) /\ k \in 1 .. Len(r) + 1
          /\ a.size \in Nat /\ Len(u) = Len(r) + 1 /\ u[k] = a
          /\ \A j \in 1 .. Len(r) + 1 : (j < k => u[j] = r[j]) /\ (k < j => u[j] = r[j - 1])
      BY <2>1, <2>2, <2>3, <2>5, <2>6, <3>1, <3>2, <3>3, Zenon
    <3>5. BytesUsed(u) = BytesUsed(r) + a.size
      BY <3>4, InsertAddsSize
    <3>6. QED
      BY <3>1, <3>2, <3>3, <3>5
  <2>8. QED
    BY <1>1, <2>7
<1>6. BytesExact'
  <2> HIDE DEF t, e
  <2>1. ASSUME ~aborted', NEW q \in Nodes
        PROVE  bytes'[q] = BytesUsed(children'[q])
    <3>1. bytes[q] = BytesUsed(children[q])
      BY <1>2, <2>1 DEF BytesInv, BytesExact
    <3>2. CASE q = n
      BY <1>2, <1>5, <3>1, <3>2
    <3>3. CASE q # n
      BY <1>2, <3>1, <3>3
    <3>4. QED
      BY <3>2, <3>3
  <2>2. QED
    BY <2>1 DEF BytesExact, BytesUsed, RunningTotal
<1>7. QED
  BY <1>2, <1>3, <1>4, <1>6 DEF BytesInv

(* splitAndInsert recalculates both nodes.                                  *)
LEMMA SplitBytes ==
    ASSUME BytesInv, NEW n \in leaves, NEW key \in Keys, NEW size \in Sizes,
           NEW sibling \in Nodes \ leaves,
           NEW pos \in 0 .. Len(children[n]), IsLowerBound(children[n], key, pos),
           SplitStores(n, key, size, sibling, pos)
    PROVE  BytesInv'
<1> DEFINE e == [key |-> key, size |-> size]
<1>1. /\ n \in Nodes /\ sibling \in Nodes /\ n # sibling
      /\ e.size = size /\ size \in Nat
      /\ bytes \in [Nodes -> Nat]
  BY LeafAssumption DEF BytesInv, IInv, NodesOK, Entry
<1>2. /\ IInv'
      /\ \A q \in Nodes \ {n, sibling} : children'[q] = children[q]
      /\ SplitStep(n, sibling, e)
  BY SplitStoreStep, ZenonT(30) DEF BytesInv
<1>3. e.size <= MaxEntry /\ RecalculateBytes(n, sibling) /\ (aborted' = aborted \/ aborted')
  <2>1. ~(size > MaxEntry) /\ RecalculateBytes(n, sibling)
        /\ RecordSplit(n, sibling, Direction(children[n], pos), SplitKey(children[n]))
    BY DEF SplitStores, TooBig
  <2>2. aborted' = aborted \/ aborted'
    BY <2>1 DEF RecordSplit
  <2>3. QED
    BY <1>1, <2>1, <2>2, MaxEntryNat
<1> HIDE DEF e
<1>4. \A q \in Nodes : \A a \in Contents(q)' : a.size <= MaxEntry
  <2>1. \A q \in Nodes : \A a \in Contents(q) : a.size <= MaxEntry
    BY DEF BytesInv, SizesFit
  <2>2. \A q \in Nodes \ {n, sibling} : Contents(q)' = Contents(q)
    BY <1>2 DEF Contents
  <2>3. Contents(n)' \cup Contents(sibling)' = Contents(n) \cup {e}
    BY <1>2 DEF SplitStep
  <2>4. QED
    BY <1>1, <1>3, <2>1, <2>2, <2>3
<1>5. SizesFit'
  BY <1>4 DEF SizesFit, MaxEntry
<1>6. \A q \in Nodes : BytesUsed(children'[q]) \in Nat
  <2>1. \A q \in Nodes : children'[q] \in Seq(Entry)
    BY <1>2 DEF IInv, NodesOK, Entry
  <2>2. ASSUME NEW q \in Nodes
        PROVE  BytesUsed(children'[q]) \in Nat
    <3>1. PICK s \in Seq(Entry) : s = children'[q]
      BY <2>1
    <3>2. \A a \in Range(s) : a.size <= MaxEntry
      BY <1>4, <3>1 DEF Contents
    <3>3. QED
      BY <3>1, <3>2, EntriesSized
  <2>3. QED
    BY <2>2
<1>7. CASE aborted'
  <2>1. bytes' = bytes
    BY <1>3, <1>7 DEF RecalculateBytes
  <2>2. BytesExact'
    BY <1>7 DEF BytesExact
  <2>3. QED
    BY <1>1, <1>2, <1>5, <2>1, <2>2 DEF BytesInv
<1>8. CASE ~aborted'
  <2> DEFINE b(q) == BytesUsed(children'[q])
  <2>1. bytes' = [bytes EXCEPT ![n] = b(n), ![sibling] = b(sibling)]
    BY <1>3, <1>8 DEF RecalculateBytes
  <2>2. \A q \in Nodes : b(q) \in Nat
    BY <1>6
  <2>3. ~aborted
    BY <1>3, <1>8
  <2>4. \A q \in Nodes \ {n, sibling} : bytes[q] = b(q)
    BY <1>2, <2>3 DEF BytesInv, BytesExact
  <2> HIDE DEF b
  <2>5. bytes' \in [Nodes -> Nat] /\ \A q \in Nodes : bytes'[q] = b(q)
    BY <1>1, <2>1, <2>2, <2>4
  <2>6. BytesExact'
    BY <2>5 DEF BytesExact, BytesUsed, RunningTotal, b
  <2>7. QED
    BY <1>2, <1>5, <2>5, <2>6 DEF BytesInv
<1>9. QED
  BY <1>7, <1>8

LEMMA BytesInvariance == Spec => []BytesInv
<1>1. ASSUME BytesInv, [Next]_vars
      PROVE  BytesInv'
  <2>1. CASE UNCHANGED vars
    BY <1>1, <2>1 DEF vars, BytesInv, IInv, NodesOK, Ordered, SizesFit, Contents, BytesExact
  <2>2. CASE Next
    <3>1. IInv
      BY <1>1 DEF BytesInv
    <3>2. QED
      BY <1>1, <2>1, <2>2, <3>1, StepKinds, StoreBytes, SplitBytes
  <2>3. QED
    BY <1>1, <2>1, <2>2
<1>2. QED
  BY <1>1, BytesInit, PTL DEF Spec

(* The whole type invariant: byte counts are natural numbers, and a         *)
(* recorded sibling is a constructed leaf.                                  *)
THEOREM TypeCorrect == Spec => []TypeOK
<1>1. BytesInv => TypeOK
  BY DEF BytesInv, IInv, TypeOK
<1>2. QED
  BY <1>1, BytesInvariance, PTL

(* mBytes, kept by insert and rebuilt by split, never drifts from the       *)
(* entries.                                                                 *)
THEOREM BytesNeverDrift == Spec => []BytesExact
<1>1. BytesInv => BytesExact
  BY DEF BytesInv
<1>2. QED
  BY <1>1, BytesInvariance, PTL

(* A leaf that refuses an entry holds four: three of at most a quarter of   *)
(* the node leave room for another.                                         *)
LEMMA RefusalIsLong ==
    ASSUME BytesInv, ~aborted, NEW n \in leaves, NEW size \in Sizes,
           ~TooBig(size), NoSpace(n, size)
    PROVE  /\ Len(children[n]) \in Nat /\ Len(children[n]) >= 4
           /\ ~(size < Available(bytes[n]))
<1>1. /\ n \in Nodes /\ children[n] \in Seq(Entry) /\ size \in Nat
      /\ bytes[n] = BytesUsed(children[n])
      /\ \A a \in Range(children[n]) : a.size <= MaxEntry
  BY LeafAssumption DEF BytesInv, IInv, NodesOK, BytesExact, SizesFit, Contents
<1>2. /\ bytes[n] \in Nat /\ Len(children[n]) \in Nat
      /\ Len(children[n]) < 4 => bytes[n] <= MaxEntry + MaxEntry + MaxEntry
  BY <1>1, EntriesSized DEF Sized
<1>3. PICK free : free = Available(bytes[n])
  OBVIOUS
<1>4. free \in Int
  BY <1>2, <1>3, CapacityAssumption DEF Available
<1>5. size > free /\ ~(size < free)
  BY <1>1, <1>3, <1>4 DEF NoSpace
<1>6. ~(Len(children[n]) < 4)
  <2>1. SUFFICES ASSUME Len(children[n]) < 4 PROVE FALSE
    OBVIOUS
  <2>2. size <= MaxEntry
    BY <1>1, MaxEntryNat DEF TooBig
  <2>3. PICK left \in Nat : left = Capacity - bytes[n] /\ left < SizeMod
    BY <1>2, <2>1, MaxEntryNat, CapacityAssumption
  <2>4. left % SizeMod = left
    BY <2>3, CapacityAssumption
  <2>5. free = left
    BY <1>3, <2>3, <2>4 DEF Available
  <2>6. PICK most \in Nat, used \in Nat : most = MaxEntry /\ used = bytes[n]
    BY <1>2, MaxEntryNat
  <2>7. used <= most + most + most /\ 4 * most <= Capacity /\ size <= most /\ left = Capacity - used
    BY <1>2, <2>1, <2>2, <2>3, <2>6, MaxEntryNat
  <2>8. size <= left
    BY <1>1, <2>3, <2>6, <2>7, CapacityAssumption, SMTT(30)
  <2>9. QED
    BY <1>1, <1>5, <2>3, <2>5, <2>8
<1>7. QED
  BY <1>2, <1>3, <1>5, <1>6

(* A leaf that refuses an entry for lack of space is long enough to split,  *)
(* so splitAndInsert does not throw after Tree has allocated the sibling.   *)
THEOREM RefusalAllowsSplit == Spec => []RefusedCanSplit
<1>1. ASSUME BytesInv, ~aborted, NEW n \in leaves, NEW size \in Sizes,
             ~TooBig(size), NoSpace(n, size)
      PROVE  ~SplitNotRequired(children[n], bytes[n], size)
  <2>1. /\ Len(children[n]) \in Nat /\ Len(children[n]) >= 4
        /\ ~(size < Available(bytes[n]))
    BY <1>1, RefusalIsLong
  <2>2. ~(Len(children[n]) < 3)
    BY <2>1
  <2>3. QED
    BY <2>1, <2>2 DEF SplitNotRequired
<1>2. BytesInv => RefusedCanSplit
  BY <1>1 DEF RefusedCanSplit
<1>3. QED
  BY <1>2, BytesInvariance, PTL

-----------------------------------------------------------------------------
(* The tree *)

RootEntry == [key : Keys \cup {Sentinel}, child : Nodes]

(* Every entry of the root leads to a leaf that has been constructed.       *)
RootTyped ==
    /\ root \in Seq(RootEntry)
    /\ \A i \in DOMAIN root : root[i].child \in leaves

TreeInv == IInv /\ RootTyped /\ FiledAsRecorded /\ LeavesFiled

LEMMA SplitIsNotNone ==
    ASSUME IInv, NEW n \in Nodes, split[n] # NoSplit
    PROVE  split[n] \in Split
  BY DEF IInv, NodesOK

(* What one insert into the leaf below the i-th entry does to the leaves.   *)
LeafPart(n, key, size, pos) ==
    /\ IsLowerBound(children[n], key, pos)
    /\ \/ InsertThrows(n, key, size, pos)
       \/ InsertStores(n, key, size, pos)
       \/ \E sibling \in Nodes \ leaves : SplitStores(n, key, size, sibling, pos)

LEMMA InsertParts ==
    ASSUME NEW i \in DOMAIN root, NEW key \in Keys, NEW size \in Sizes,
           InsertBelow(i, key, size)
    PROVE  \E pos \in 0 .. Len(children[root[i].child]) :
              /\ LeafPart(root[i].child, key, size, pos)
              /\ \/ InsertThrows(root[i].child, key, size, pos) /\ UNCHANGED rootVars
                 \/ FileSibling(i)
<1>1. PICK pos \in 0 .. Len(children[root[i].child]) :
        /\ IsLowerBound(children[root[i].child], key, pos)
        /\ \/ InsertThrows(root[i].child, key, size, pos) /\ UNCHANGED rootVars
           \/ InsertStores(root[i].child, key, size, pos) /\ FileSibling(i)
           \/ /\ \E sibling \in Allocatable :
                    SplitStores(root[i].child, key, size, sibling, pos)
              /\ FileSibling(i)
  BY DEF InsertBelow
<1>2. QED
  BY <1>1 DEF LeafPart, Allocatable

LEMMA LeafPartIsNext ==
    ASSUME NEW n \in leaves, NEW key \in Keys, NEW size \in Sizes,
           NEW pos \in 0 .. Len(children[n]), LeafPart(n, key, size, pos), ~aborted
    PROVE  Next
<1>1. CASE InsertThrows(n, key, size, pos) \/ InsertStores(n, key, size, pos)
  <2>1. Insert(n, key, size)
    BY <1>1 DEF Insert, LeafPart
  <2>2. QED
    BY <2>1 DEF Next
<1>2. CASE \E sibling \in Nodes \ leaves : SplitStores(n, key, size, sibling, pos)
  <2>1. PICK sibling \in Nodes \ leaves : SplitStores(n, key, size, sibling, pos)
    BY <1>2
  <2>2. SplitAndInsert(n, key, size, sibling)
    BY <2>1 DEF SplitAndInsert, LeafPart
  <2>3. QED
    BY <2>2 DEF Next
<1>3. QED
  BY <1>1, <1>2 DEF LeafPart

(* The tree's step is one of LeafNode's.                                    *)
LEMMA TreeStepIsLeafStep ==
    ASSUME RootTyped, TreeNext
    PROVE  Next
<1>1. PICK key \in Keys, size \in Sizes, i \in DOMAIN root : InsertBelow(i, key, size)
  BY DEF TreeNext, TreeInsert
<1>2. root[i].child \in leaves /\ ~aborted
  BY DEF RootTyped, TreeNext
<1>3. QED
  BY <1>1, <1>2, InsertParts, LeafPartIsNext

-----------------------------------------------------------------------------
(* A recorded split is kept: an assert guards it.                           *)
LEMMA SplitsKept ==
    ASSUME IInv, NEW n \in leaves, NEW key \in Keys, NEW size \in Sizes,
           NEW pos \in 0 .. Len(children[n]), LeafPart(n, key, size, pos),
           NEW q \in Nodes, split[q] # NoSplit
    PROVE  split'[q] = split[q]
<1>1. CASE InsertThrows(n, key, size, pos)
  BY <1>1 DEF InsertThrows, vars
<1>2. CASE InsertStores(n, key, size, pos)
  BY <1>2 DEF InsertStores
<1>3. ASSUME NEW sibling \in Nodes \ leaves, SplitStores(n, key, size, sibling, pos)
      PROVE  split'[q] = split[q]
  <2>1. RecordSplit(n, sibling, Direction(children[n], pos), SplitKey(children[n]))
    BY <1>3 DEF SplitStores
  <2>2. QED
    BY <2>1 DEF RecordSplit, IInv, NodesOK
<1>4. QED
  BY <1>1, <1>2, <1>3 DEF LeafPart

(* A leaf that a call brings is recorded by the leaf it split from, unless  *)
(* an assert has failed.                                                    *)
LEMMA NewLeafRecorded ==
    ASSUME IInv, NEW n \in leaves, NEW key \in Keys, NEW size \in Sizes,
           NEW pos \in 0 .. Len(children[n]), LeafPart(n, key, size, pos),
           NEW s \in leaves' \ leaves, ~aborted'
    PROVE  split'[n] # NoSplit /\ split'[n].sibling = s
<1>1. PICK sibling \in Nodes \ leaves : SplitStores(n, key, size, sibling, pos)
  BY DEF LeafPart, InsertThrows, InsertStores, vars
<1>2. leaves' = leaves \cup {sibling}
  BY <1>1 DEF SplitStores
<1>3. s = sibling /\ n \in Nodes
  BY <1>2 DEF IInv, NodesOK
<1>4. RecordSplit(n, sibling, Direction(children[n], pos), SplitKey(children[n]))
  BY <1>1 DEF SplitStores
<1>5. split'[n] = [sibling   |-> sibling,
                   direction |-> Direction(children[n], pos),
                   key       |-> SplitKey(children[n])]
  BY <1>3, <1>4 DEF RecordSplit, IInv, NodesOK
<1>6. SplitKey(children[n]) \in Keys
  <2>1. children[n] \in Seq(Entry) /\ ~(Len(children[n]) < 3)
    BY <1>1, <1>3 DEF IInv, NodesOK, SplitStores, SplitNotRequired
  <2>2. SplitPoint(children[n]) + 1 \in 1 .. Len(children[n])
    BY <2>1, SplitPointFacts, EntryKeys
  <2>3. children[n][SplitPoint(children[n]) + 1] \in Entry
    BY <2>1, <2>2, EntryKeys
  <2>4. QED
    BY <2>3 DEF SplitKey, Entry
<1>7. Direction(children[n], pos) \in {"LEFT", "RIGHT"}
  BY DEF Direction
<1>8. split'[n] \in Split
  BY <1>5, <1>6, <1>7 DEF Split
<1>9. QED
  BY <1>3, <1>5, <1>8, LeafAssumption DEF Split

-----------------------------------------------------------------------------
(* t holds e and the elements of s. *)
Extends(s, e, t) ==
    /\ \E j \in DOMAIN t : t[j] = e
    /\ \A j \in DOMAIN t : t[j] = e \/ \E k \in DOMAIN s : t[j] = s[k]
    /\ \A k \in DOMAIN s : \E j \in DOMAIN t : t[j] = s[k]

(* An insertion adds one element and keeps the others.                      *)
LEMMA InsertAtKeeps ==
    ASSUME NEW S, NEW s \in Seq(S), NEW at \in 1 .. Len(s) + 1, NEW e \in S, NEW t,
           t = InsertAt(s, at, e)
    PROVE  t \in Seq(S) /\ Extends(s, e, t)
<1>1. Len(s) \in Nat /\ DOMAIN s = 1 .. Len(s)
  OBVIOUS
<1>2. /\ t \in Seq(S)
      /\ Len(t) = Len(s) + 1
      /\ t[at] = e
      /\ \A j \in 1 .. Len(s) + 1 :
            /\ j < at => t[j] = s[j]
            /\ at < j => t[j] = s[j - 1]
  <2>1. /\ InsertAt(s, at, e) \in Seq(S)
        /\ Len(InsertAt(s, at, e)) = Len(s) + 1
        /\ InsertAt(s, at, e)[at] = e
        /\ \A j \in 1 .. Len(s) + 1 :
              /\ j < at => InsertAt(s, at, e)[j] = s[j]
              /\ at < j => InsertAt(s, at, e)[j] = s[j - 1]
    BY InsertAtProperties, SMTT(30)
  <2>2. QED
    BY <2>1, Zenon
<1>3. DOMAIN t = 1 .. Len(s) + 1
  BY <1>1, <1>2
<1>4. \E j \in DOMAIN t : t[j] = e
  BY <1>1, <1>2, <1>3
<1>5. ASSUME NEW j \in DOMAIN t
      PROVE  t[j] = e \/ \E k \in DOMAIN s : t[j] = s[k]
  <2>1. CASE j < at
    <3>1. j \in DOMAIN s /\ t[j] = s[j]
      BY <1>1, <1>2, <1>3, <2>1
    <3>2. QED
      BY <3>1
  <2>2. CASE j = at
    BY <1>2, <2>2
  <2>3. CASE at < j
    <3>1. j - 1 \in DOMAIN s /\ t[j] = s[j - 1]
      BY <1>1, <1>2, <1>3, <2>3
    <3>2. QED
      BY <3>1
  <2>4. QED
    BY <1>1, <1>3, <2>1, <2>2, <2>3
<1>6. ASSUME NEW k \in DOMAIN s
      PROVE  \E j \in DOMAIN t : t[j] = s[k]
  <2>1. CASE k < at
    <3>1. k \in DOMAIN t /\ t[k] = s[k]
      BY <1>1, <1>2, <1>3, <2>1
    <3>2. QED
      BY <3>1
  <2>2. CASE at <= k
    <3>1. k + 1 \in DOMAIN t /\ t[k + 1] = s[(k + 1) - 1] /\ (k + 1) - 1 = k
      BY <1>1, <1>2, <1>3, <2>2
    <3>2. QED
      BY <3>1
  <2>3. QED
    BY <1>1, <2>1, <2>2
<1>7. QED
  BY <1>2, <1>4, <1>5, <1>6 DEF Extends

(* Filing adds what the split recorded and keeps every entry of the root.   *)
LEMMA FiledEntries ==
    ASSUME root \in Seq(RootEntry), NEW i \in DOMAIN root, NEW s \in Split,
           NEW t, t = Filed(i, s)
    PROVE  /\ t \in Seq(RootEntry)
           /\ Extends(root, [key |-> s.key, child |-> s.sibling], t)
<1> DEFINE e  == [key |-> s.key, child |-> s.sibling]
           at == IF s.direction = "RIGHT" THEN i + 1 ELSE i
<1>0. root \in Seq(RootEntry)
  OBVIOUS
<1>1. e \in RootEntry
  BY DEF Split, RootEntry
<1>2. at \in 1 .. Len(root) + 1
  OBVIOUS
<1>3. t = InsertAt(root, at, e)
  BY DEF Filed
<1> HIDE DEF e, at
<1>4. t \in Seq(RootEntry) /\ Extends(root, e, t)
  BY <1>0, <1>1, <1>2, <1>3, InsertAtKeeps, Zenon
<1>5. QED
  BY <1>4 DEF e

LEMMA TreeInitInv == TreeInit => TreeInv
<1> SUFFICES ASSUME TreeInit PROVE TreeInv
  OBVIOUS
<1> DEFINE e == [key |-> Sentinel, child |-> FirstLeaf]
<1>1. IInv /\ leaves = {FirstLeaf}
  BY InitInv DEF TreeInit, Init
<1>2. root = <<e>> /\ e \in RootEntry
  BY LeafAssumption DEF TreeInit, RootEntry
<1>3. DOMAIN root = {1} /\ root[1] = e /\ root \in Seq(RootEntry)
  BY <1>2
<1>4. RootTyped
  BY <1>1, <1>3 DEF RootTyped
<1>5. FiledAsRecorded /\ LeavesFiled
  BY <1>1, <1>3 DEF FiledAsRecorded, LeavesFiled
<1>6. QED
  BY <1>1, <1>4, <1>5 DEF TreeInv

(* What becomes of the root when the leaf below its i-th entry returns: it  *)
(* stays as it is, or gains what that leaf has recorded.                    *)
LEMMA RootPart ==
    ASSUME RootTyped, NEW i \in DOMAIN root, IInv', FileSibling(i),
           root[i].child \in leaves, leaves \subseteq Nodes
    PROVE  \/ root' = root
           \/ /\ split'[root[i].child] # NoSplit
              /\ root' \in Seq(RootEntry)
              /\ Extends(root, [key   |-> split'[root[i].child].key,
                                child |-> split'[root[i].child].sibling], root')
<1> DEFINE s == split'[root[i].child]
<1>1. CASE UNCHANGED rootVars
  BY <1>1 DEF rootVars
<1>2. CASE s # NoSplit /\ FileStores(i, s)
  <2>1. s \in Split
    BY <1>2 DEF IInv, NodesOK
  <2>2. root \in Seq(RootEntry) /\ root' = Filed(i, s)
    BY <1>2 DEF RootTyped, FileStores
  <2>3. QED
    BY <1>2, <2>1, <2>2, FiledEntries
<1>3. CASE FileSplitsRoot(s)
  BY <1>3 DEF FileSplitsRoot, AllocateInternal
<1>4. QED
  BY <1>1, <1>2, <1>3 DEF FileSibling

(* Recorded in the next state, of nodes and keys of this one *)
RecordedNow(n, key, s) ==
    split'[n] # NoSplit /\ split'[n].key = key /\ split'[n].sibling = s

LEMMA TreeStepInv == TreeInv /\ [TreeNext]_treeVars => TreeInv'
<1> SUFFICES ASSUME TreeInv, [TreeNext]_treeVars PROVE TreeInv'
  OBVIOUS
<1>1. CASE UNCHANGED treeVars
  BY <1>1 DEF treeVars, TreeInv, IInv, NodesOK, Ordered, RootTyped, FiledAsRecorded,
              LeavesFiled, Recorded
<1>2. CASE TreeNext
  <2>1. PICK i \in DOMAIN root, key \in Keys, size \in Sizes : InsertBelow(i, key, size)
    BY <1>2 DEF TreeNext, TreeInsert
  <2>0. PICK n : n = root[i].child
    OBVIOUS
  <2>2. n \in leaves /\ leaves \subseteq Nodes /\ n \in Nodes /\ ~aborted /\ ~crashed
    BY <1>2, <2>0 DEF TreeNext, TreeInv, RootTyped, IInv, NodesOK
  <2>3. PICK pos \in 0 .. Len(children[n]) :
          /\ LeafPart(n, key, size, pos)
          /\ \/ InsertThrows(n, key, size, pos) /\ UNCHANGED rootVars
             \/ FileSibling(i)
    BY <2>0, <2>1, InsertParts
  <2>4. IInv'
    BY <2>2, <2>3, LeafPartIsNext, StepInv DEF TreeInv
  <2>5. leaves \subseteq leaves' /\ leaves' \subseteq Nodes
    BY <2>3, <2>4 DEF LeafPart, InsertThrows, InsertStores, SplitStores, vars, IInv, NodesOK
  <2>6. \/ root' = root
        \/ /\ split'[n] # NoSplit
           /\ root' \in Seq(RootEntry)
           /\ Extends(root, [key |-> split'[n].key, child |-> split'[n].sibling], root')
    BY <2>0, <2>2, <2>3, <2>4, RootPart DEF TreeInv, rootVars
  <2>7. \A q \in Nodes : split[q] # NoSplit => split'[q] = split[q]
    BY <2>2, <2>3, SplitsKept DEF TreeInv
  <2>8. \A m, k, s : m \in leaves /\ Recorded(m, k, s) => m \in leaves' /\ RecordedNow(m, k, s)
    BY <2>2, <2>5, <2>7 DEF Recorded, RecordedNow
  <2>9. \A k \in DOMAIN root : \E j \in DOMAIN root' : root'[j] = root[k]
    BY <2>6 DEF Extends
  <2>10. RootTyped'
    <3>1. CASE root' = root
      BY <2>5, <3>1 DEF TreeInv, RootTyped
    <3>2. CASE /\ split'[n] # NoSplit
               /\ root' \in Seq(RootEntry)
               /\ Extends(root, [key |-> split'[n].key, child |-> split'[n].sibling], root')
      <4>1. split'[n].sibling \in leaves'
        BY <2>2, <2>4, <3>2 DEF IInv, NodesOK
      <4>2. ASSUME NEW j \in DOMAIN root' PROVE root'[j].child \in leaves'
        <5>1. CASE root'[j] = [key |-> split'[n].key, child |-> split'[n].sibling]
          BY <4>1, <5>1
        <5>2. CASE \E k \in DOMAIN root : root'[j] = root[k]
          BY <2>5, <5>2 DEF TreeInv, RootTyped
        <5>3. QED
          BY <3>2, <5>1, <5>2 DEF Extends
      <4>3. QED
        BY <3>2, <4>2 DEF RootTyped
    <3>3. QED
      BY <2>6, <3>1, <3>2
  <2>11. FiledAsRecorded'
    <3>1. \E j \in DOMAIN root' : root'[j] = [key |-> Sentinel, child |-> FirstLeaf]
      BY <2>9 DEF TreeInv, FiledAsRecorded
    <3>2. ASSUME NEW j \in DOMAIN root'
          PROVE  \/ root'[j] = [key |-> Sentinel, child |-> FirstLeaf]
                 \/ \E m \in leaves' : RecordedNow(m, root'[j].key, root'[j].child)
      <4>1. CASE \E k \in DOMAIN root : root'[j] = root[k]
        BY <2>8, <4>1 DEF TreeInv, FiledAsRecorded
      <4>2. CASE /\ split'[n] # NoSplit
                 /\ root'[j] = [key |-> split'[n].key, child |-> split'[n].sibling]
        BY <2>2, <2>5, <4>2 DEF RecordedNow
      <4>3. QED
        BY <2>6, <4>1, <4>2 DEF Extends
    <3>3. QED
      BY <3>1, <3>2 DEF FiledAsRecorded, Recorded, RecordedNow
  <2>12. LeavesFiled'
    <3>1. SUFFICES ASSUME ~aborted', ~crashed', NEW s \in leaves'
                   PROVE  \/ \E j \in DOMAIN root' : root'[j].child = s
                          \/ \E m \in leaves', k \in Keys :
                                 RecordedNow(m, k, s) /\ TooBig(FiledBytes(k))
      BY DEF LeavesFiled, Recorded, RecordedNow
    <3>2. CASE s \in leaves
      <4>1. CASE \E k \in DOMAIN root : root[k].child = s
        BY <2>9, <4>1
      <4>2. CASE \E m \in leaves, k \in Keys : Recorded(m, k, s) /\ TooBig(FiledBytes(k))
        BY <2>8, <4>2
      <4>3. QED
        BY <2>2, <3>2, <4>1, <4>2 DEF TreeInv, LeavesFiled
    <3>3. CASE s \notin leaves
      <4>1. split'[n] # NoSplit /\ split'[n].sibling = s
        BY <2>2, <2>3, <3>1, <3>3, NewLeafRecorded DEF TreeInv
      <4>2. split'[n] \in Split
        BY <2>2, <2>4, <4>1 DEF IInv, NodesOK
      <4>3. RecordedNow(n, split'[n].key, s) /\ split'[n].key \in Keys
        BY <4>1, <4>2 DEF RecordedNow, Split
      <4>4. FileSibling(i)
        BY <2>3, <3>1, <3>3 DEF InsertThrows, vars
      <4>5. CASE TooBig(FiledBytes(split'[n].key))
        BY <2>2, <2>5, <4>3, <4>5
      <4>6. CASE FileStores(i, split'[n])
        <5>1. Extends(root, [key |-> split'[n].key, child |-> s], root')
          BY <4>1, <4>2, <4>6, FiledEntries DEF TreeInv, RootTyped, FileStores
        <5>2. QED
          BY <5>1 DEF Extends
      <4>7. ~FileSplitsRoot(split'[n])
        BY <3>1 DEF FileSplitsRoot, AllocateInternal
      <4>8. QED
        BY <2>0, <3>1, <4>1, <4>4, <4>5, <4>6, <4>7 DEF FileSibling
    <3>4. QED
      BY <3>2, <3>3
  <2>13. QED
    BY <2>4, <2>10, <2>11, <2>12 DEF TreeInv
<1>3. QED
  BY <1>1, <1>2

LEMMA TreeInvariance == TreeSpec => []TreeInv
  BY TreeInitInv, TreeStepInv, PTL DEF TreeSpec

-----------------------------------------------------------------------------
(* Every entry of the root repeats what the leaf that split recorded, and   *)
(* the constructor's child is never lost, although the stale mSplit is      *)
(* filed again and again.                                                   *)
THEOREM RootRepeatsSplits == TreeSpec => []FiledAsRecorded
  BY TreeInvariance, PTL DEF TreeInv

(* When insert has returned every leaf is below the root, or its split key  *)
(* is too long for an internal node.                                        *)
THEOREM NoLeafForgotten == TreeSpec => []LeavesFiled
  BY TreeInvariance, PTL DEF TreeInv

(* Tree::insert makes only calls that LeafNode's specification has.         *)
THEOREM TreeImplementsLeafNode == TreeSpec => DrivesLeaves
<1>1. TreeInit => Init
  BY DEF TreeInit
<1>2. TreeInv /\ [TreeNext]_treeVars => [Next]_vars
  BY TreeStepIsLeafStep DEF TreeInv, treeVars, vars
<1>3. QED
  BY <1>1, <1>2, TreeInvariance, PTL DEF TreeSpec, DrivesLeaves, Spec

(* A tree splits only a leaf that has refused an entry, and such a leaf is  *)
(* cut into halves of two entries at least: what the limit of a quarter of  *)
(* the node is there for.                                                   *)
THEOREM TreeSplitsLeaveTwo == TreeSpec => SplitLeavesTwo
<1> DEFINE Two == \A n \in leaves, s \in leaves' \ leaves :
                      children'[n] # children[n] =>
                          Len(children'[n]) >= 2 /\ Len(children'[s]) >= 2
<1>1. ASSUME TreeInv, BytesInv, [TreeNext]_treeVars,
             NEW x \in leaves, NEW s \in leaves' \ leaves, children'[x] # children[x]
      PROVE  Len(children'[x]) >= 2 /\ Len(children'[s]) >= 2
  <2>1. TreeNext
    BY <1>1 DEF treeVars
  <2>2. PICK i \in DOMAIN root, key \in Keys, size \in Sizes : InsertBelow(i, key, size)
    BY <2>1 DEF TreeNext, TreeInsert
  <2>3. PICK n : n = root[i].child
    OBVIOUS
  <2>4. n \in leaves /\ leaves \subseteq Nodes /\ ~aborted
    BY <1>1, <2>1, <2>3 DEF TreeNext, TreeInv, RootTyped, IInv, NodesOK
  <2>5. PICK pos \in 0 .. Len(children[n]), sibling \in Nodes \ leaves :
            NoSpace(n, size) /\ SplitStores(n, key, size, sibling, pos)
    BY <1>1, <2>2, <2>3 DEF InsertBelow, InsertThrows, InsertStores, vars, Allocatable
  <2>6. PICK old \in Seq(Entry) : old = children[n]
    BY <1>1, <2>4 DEF TreeInv, IInv, NodesOK
  <2>7. /\ leaves' = leaves \cup {sibling} /\ ~TooBig(size)
        /\ children' = [children EXCEPT
               ![sibling] = SiblingChildren(old, pos, [key |-> key, size |-> size]),
               ![n]       = RemainingChildren(old, pos)]
    BY <2>5, <2>6 DEF SplitStores
  <2>8. Len(old) \in Nat /\ Len(old) >= 4
    BY <1>1, <2>4, <2>5, <2>6, <2>7, RefusalIsLong
  <2>9. PICK e \in Entry : e = [key |-> key, size |-> size]
    BY DEF Entry
  <2>10. s = sibling /\ n # sibling /\ x = n
    BY <1>1, <2>4, <2>5, <2>7 DEF TreeInv, IInv, NodesOK
  <2>11. PICK moved, kept : moved = SiblingChildren(old, pos, e) /\ kept = RemainingChildren(old, pos)
    OBVIOUS
  <2>12. children'[s] = moved /\ children'[x] = kept
    BY <1>1, <2>4, <2>5, <2>7, <2>9, <2>10, <2>11 DEF TreeInv, IInv, NodesOK
  <2>13. PICK m \in Nat : m = SplitPoint(old) /\ 2 <= m /\ m + 2 <= Len(old)
    BY <2>8 DEF SplitPoint
  <2>14. Halves(old, pos, e, m, moved, kept)
    <3>1. pos \in 0 .. Len(old) /\ Len(old) >= 3
      BY <2>5, <2>6, <2>8
    <3>2. Halves(old, pos, e, SplitPoint(old), SiblingChildren(old, pos, e),
                 RemainingChildren(old, pos))
      BY <3>1, HalvesPointwise
    <3>3. QED
      BY <2>11, <2>13, <3>2
  <2>15. \/ Len(moved) = m + 1 /\ Len(kept) = Len(old) - m
         \/ Len(moved) = Len(old) + 1 - m /\ Len(kept) = m
    BY <2>14 DEF Halves
  <2>16. QED
    BY <2>8, <2>12, <2>13, <2>15
<1>2. TreeInv /\ BytesInv /\ [TreeNext]_treeVars => [Two]_vars
  BY <1>1
<1>3. TreeSpec => []BytesInv
  BY TreeImplementsLeafNode, BytesInvariance DEF DrivesLeaves
<1>4. QED
  BY <1>2, <1>3, TreeInvariance, PTL DEF TreeSpec, SplitLeavesTwo

(* What is stored in the leaves taken together                              *)
Kept == UNION {Contents(n) : n \in leaves}

(* No insert into the tree loses an entry taken in earlier.                 *)
THEOREM TreeImplementsStore == TreeSpec => KeepsEntries
<1>1. Init => Kept = {}
  <2> SUFFICES ASSUME Init PROVE Kept = {}
    OBVIOUS
  <2>1. leaves = {FirstLeaf} /\ children[FirstLeaf] = <<>>
    BY LeafAssumption DEF Init
  <2>2. Contents(FirstLeaf) = {}
    BY <2>1 DEF Contents, Range
  <2>3. QED
    BY <2>1, <2>2 DEF Kept
<1>2. ASSUME IInv, Next
      PROVE  Kept' = Kept \/ \E e \in Entry : Kept' = Kept \cup {e}
  <2>1. leaves \subseteq Nodes
    BY <1>2 DEF IInv, NodesOK
  <2>2. CASE UNCHANGED vars
    BY <2>2 DEF vars, Kept, Contents
  <2>3. ASSUME NEW n \in leaves, NEW key \in Keys, NEW size \in Sizes,
               NEW pos \in 0 .. Len(children[n]), IsLowerBound(children[n], key, pos),
               InsertStores(n, key, size, pos)
        PROVE  \E e \in Entry : Kept' = Kept \cup {e}
    <3> DEFINE e == [key |-> key, size |-> size]
    <3>1. e \in Entry
      BY DEF Entry
    <3>2. /\ leaves' = leaves
          /\ \A q \in Nodes \ {n} : children'[q] = children[q]
          /\ Contents(n)' = Contents(n) \cup {e}
      BY <1>2, <2>3, StoreStep
    <3> HIDE DEF e
    <3>3. \A q \in leaves \ {n} : Contents(q)' = Contents(q)
      BY <2>1, <3>2 DEF Contents
    <3>4. Kept' = Kept \cup {e}
      BY <3>2, <3>3 DEF Kept
    <3>5. QED
      BY <3>1, <3>4
  <2>4. ASSUME NEW n \in leaves, NEW key \in Keys, NEW size \in Sizes,
               NEW pos \in 0 .. Len(children[n]), IsLowerBound(children[n], key, pos),
               NEW sibling \in Nodes \ leaves, SplitStores(n, key, size, sibling, pos)
        PROVE  \E e \in Entry : Kept' = Kept \cup {e}
    <3> DEFINE e == [key |-> key, size |-> size]
    <3>1. e \in Entry
      BY DEF Entry
    <3>2. /\ leaves' = leaves \cup {sibling}
          /\ \A q \in Nodes \ {n, sibling} : children'[q] = children[q]
          /\ SplitStep(n, sibling, e)
      BY <1>2, <2>4, SplitStoreStep
    <3> HIDE DEF e
    <3>3. \A q \in leaves \ {n} : Contents(q)' = Contents(q)
      BY <2>1, <3>2 DEF Contents
    <3>4. Kept' = Kept \cup {e}
      BY <3>2, <3>3 DEF Kept, SplitStep
    <3>5. QED
      BY <3>1, <3>4
  <2>5. QED
    BY <1>2, <2>2, <2>3, <2>4, StepKinds
<1>3. Init => Store!Init
  BY <1>1 DEF Store!Init, Kept
<1>4. IInv /\ [Next]_vars => [Store!Next]_Kept
  <2>1. UNCHANGED vars => Kept' = Kept
    BY DEF vars, Kept, Contents
  <2>2. QED
    BY <1>2, <2>1 DEF Store!Next, Store!Insert, Kept
<1>5. TreeSpec => Spec
  BY TreeImplementsLeafNode DEF DrivesLeaves
<1>6. QED
  BY <1>3, <1>4, <1>5, Invariance, PTL DEF Spec, KeepsEntries, Store!Spec, Kept
=============================================================================
