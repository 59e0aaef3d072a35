---------------------------- MODULE NodeOps_proofs ----------------------------
(***************************************************************************)
(* What the proofs about slow nodes have in common: pointwise descriptions *)
(* of the sequence operators, and the byte accounting.                     *)
(* recalculateBytesUsed exists for any number of entries, and grows by an  *)
(* entry's size when the entry is inserted anywhere.                       *)
(***************************************************************************)
EXTENDS NodeOps, SequenceTheorems, WellFoundedInduction, TLAPS

(* Inserting before the i-th element shifts it and the later ones up by one.*)
LEMMA InsertAtProperties ==
    ASSUME NEW S, NEW s \in Seq(S), NEW i \in 1 .. Len(s) + 1, NEW e \in S
    PROVE  /\ InsertAt(s, i, e) \in Seq(S)
           /\ Len(InsertAt(s, i, e)) = Len(s) + 1
           /\ InsertAt(s, i, e)[i] = e
           /\ \A j \in 1 .. Len(s) + 1 :
                 /\ j < i => InsertAt(s, i, e)[j] = s[j]
                 /\ i < j => InsertAt(s, i, e)[j] = s[j - 1]
<1> DEFINE front == SubSeq(s, 1, i - 1)
           back  == SubSeq(s, i, Len(s))
           upto  == front \o <<e>>
<1>0. Len(s) \in Nat
  OBVIOUS
<1>1. /\ front \in Seq(S)
      /\ Len(front) = i - 1
      /\ \A j \in 1 .. i - 1 : front[j] = s[j]
  BY SubSeqProperties
<1>2. /\ back \in Seq(S)
      /\ Len(back) = Len(s) - i + 1
      /\ \A j \in 1 .. Len(s) - i + 1 : back[j] = s[i + j - 1]
  BY SubSeqProperties
<1> HIDE DEF front, back
<1>3. /\ upto \in Seq(S)
      /\ Len(upto) = i
      /\ \A j \in 1 .. i : upto[j] = IF j < i THEN s[j] ELSE e
  <2>1. upto = Append(front, e)
    BY <1>1, AppendIsConcat
  <2>2. QED
    BY <1>1, <2>1, AppendProperties
<1>4. InsertAt(s, i, e) = upto \o back
  BY DEF InsertAt, front, back
<1> DEFINE whole == upto \o back
<1> HIDE DEF upto
<1>5. /\ whole \in Seq(S)
      /\ Len(whole) = Len(s) + 1
      /\ \A j \in 1 .. Len(s) + 1 : whole[j] =
            IF j <= i THEN upto[j] ELSE back[j - i]
  BY <1>0, <1>2, <1>3, ConcatProperties
<1> HIDE DEF whole
<1>6. ASSUME NEW j \in 1 .. Len(s) + 1
      PROVE  whole[j] = IF j < i THEN s[j]
                                 ELSE IF j = i THEN e ELSE s[j - 1]
  <2>1. CASE j <= i
    BY <1>0, <1>3, <1>5, <2>1
  <2>2. CASE j > i
    <3>1. j - i \in 1 .. Len(s) - i + 1 /\ i + (j - i) - 1 = j - 1
      BY <1>0, <2>2
    <3>2. QED
      BY <1>0, <1>2, <1>5, <2>2, <3>1
  <2>3. j <= i \/ j > i
    BY <1>0
  <2>4. QED
    BY <2>1, <2>2, <2>3
<1>7. /\ whole[i] = e
      /\ \A j \in 1 .. Len(s) + 1 : /\ j < i => whole[j] = s[j]
                                    /\ i < j => whole[j] = s[j - 1]
  BY <1>0, <1>6
<1>8. QED
  BY <1>4, <1>5, <1>7 DEF whole

(* A slice that lies within the sequence. *)
LEMMA SliceProperties ==
    ASSUME NEW S, NEW s \in Seq(S), NEW m \in 1 .. Len(s) + 1, NEW n \in m - 1 .. Len(s)
    PROVE  /\ SubSeq(s, m, n) \in Seq(S)
           /\ Len(SubSeq(s, m, n)) = n - m + 1
           /\ \A i \in 1 .. n - m + 1 : SubSeq(s, m, n)[i] = s[m + i - 1]
<1>1. Len(s) \in Nat /\ m \in Int /\ n \in Int
  OBVIOUS
<1>2. \A i \in m .. n : s[i] \in S
  BY <1>1, ElementOfSeq
<1>3. QED
  BY <1>1, <1>2, SubSeqProperties

(* The halves of a split, element by element: the new entry is in the       *)
(* sibling, at its place among those moved with it.                         *)
Halves(s, pos, e, m, moved, kept) ==
    IF pos < m
    THEN /\ Len(moved) = m + 1 /\ Len(kept) = Len(s) - m
         /\ \A i \in 1 .. pos : moved[i] = s[i]
         /\ moved[pos + 1] = e
         /\ \A i \in pos + 1 .. m : moved[i + 1] = s[i]
         /\ \A i \in m + 1 .. Len(s) : kept[i - m] = s[i]
    ELSE /\ Len(moved) = Len(s) + 1 - m /\ Len(kept) = m
         /\ \A i \in 1 .. m : kept[i] = s[i]
         /\ \A i \in m + 1 .. pos : moved[i - m] = s[i]
         /\ moved[pos + 1 - m] = e
         /\ \A i \in pos + 1 .. Len(s) : moved[i + 1 - m] = s[i]

LEMMA HalvesPointwise ==
    ASSUME NEW S, NEW s \in Seq(S), NEW e \in S, NEW pos \in 0 .. Len(s), Len(s) >= 3
    PROVE  /\ SplitPoint(s) \in Nat /\ 2 <= SplitPoint(s) /\ SplitPoint(s) < Len(s)
           /\ SiblingChildren(s, pos, e) \in Seq(S)
           /\ RemainingChildren(s, pos) \in Seq(S)
           /\ Halves(s, pos, e, SplitPoint(s), SiblingChildren(s, pos, e),
                     RemainingChildren(s, pos))
<1> DEFINE full  == InsertAt(s, pos + 1, e)
           moved == SiblingChildren(s, pos, e)
           kept  == RemainingChildren(s, pos)
<1>1. PICK m \in Nat : m = SplitPoint(s) /\ 2 <= m /\ m < Len(s)
  BY LenProperties DEF SplitPoint
<1>2. Len(s) \in Nat /\ pos \in Nat /\ pos <= Len(s) /\ pos + 1 \in 1 .. Len(s) + 1
  BY LenProperties
<1>3. /\ full \in Seq(S)
      /\ Len(full) = Len(s) + 1
      /\ full[pos + 1] = e
      /\ \A i \in 1 .. Len(s) + 1 : /\ i < pos + 1 => full[i] = s[i]
                                    /\ pos + 1 < i => full[i] = s[i - 1]
  <2>1. PICK p \in 1 .. Len(s) + 1 : p = pos + 1
    BY <1>2
  <2>2. /\ InsertAt(s, p, e) \in Seq(S)
        /\ Len(InsertAt(s, p, e)) = Len(s) + 1
        /\ InsertAt(s, p, e)[p] = e
        /\ \A i \in 1 .. Len(s) + 1 : /\ i < p => InsertAt(s, p, e)[i] = s[i]
                                      /\ p < i => InsertAt(s, p, e)[i] = s[i - 1]
    BY InsertAtProperties
  <2>3. QED
    BY <2>1, <2>2, Zenon
<1>4. /\ moved = IF pos < m THEN SubSeq(full, 1, m + 1) ELSE SubSeq(full, m + 1, Len(full))
      /\ kept = IF pos < m THEN SubSeq(s, m + 1, Len(s)) ELSE SubSeq(s, 1, m)
  BY <1>1 DEF SiblingChildren, RemainingChildren, Direction
<1> HIDE DEF full, moved, kept
<1>5. CASE pos < m
  <2>1. /\ moved \in Seq(S) /\ Len(moved) = m + 1
        /\ \A i \in 1 .. m + 1 : moved[i] = full[i]
    <3>1. PICK k \in 0 .. Len(full) : k = m + 1
      BY <1>1, <1>2, <1>3
    <3>2. /\ SubSeq(full, 1, k) \in Seq(S)
          /\ Len(SubSeq(full, 1, k)) = k
          /\ \A i \in 1 .. k : SubSeq(full, 1, k)[i] = full[i]
      BY <1>3, <3>1, SliceProperties
    <3>3. QED
      BY <1>4, <1>5, <3>1, <3>2, Zenon
  <2>2. /\ kept \in Seq(S) /\ Len(kept) = Len(s) - m
        /\ \A i \in 1 .. Len(s) - m : kept[i] = s[m + i]
    <3>1. PICK k \in 1 .. Len(s) : k = m + 1
      BY <1>1, <1>2
    <3>2. /\ SubSeq(s, k, Len(s)) \in Seq(S)
          /\ Len(SubSeq(s, k, Len(s))) = Len(s) - k + 1
          /\ \A i \in 1 .. Len(s) - k + 1 : SubSeq(s, k, Len(s))[i] = s[k + i - 1]
      BY <1>2, <3>1, SliceProperties
    <3>3. kept = SubSeq(s, k, Len(s))
      BY <1>4, <1>5, <3>1
    <3>4. QED
      BY <1>1, <1>2, <3>1, <3>2, <3>3, SMTT(30)
  <2>3. \A i \in 1 .. pos : moved[i] = s[i]
    <3>1. \A i \in 1 .. pos : i \in 1 .. m + 1 /\ i \in 1 .. Len(s) + 1 /\ i < pos + 1
      BY <1>1, <1>2, <1>5
    <3>2. QED
      BY <1>3, <2>1, <3>1, Zenon
  <2>4. moved[pos + 1] = e
    <3>1. pos + 1 \in 1 .. m + 1
      BY <1>1, <1>2, <1>5
    <3>2. QED
      BY <1>3, <2>1, <3>1, Zenon
  <2>5. \A i \in pos + 1 .. m : moved[i + 1] = s[i]
    <3>1. \A i \in pos + 1 .. m : /\ i + 1 \in 1 .. m + 1 /\ i + 1 \in 1 .. Len(s) + 1
                                  /\ pos + 1 < i + 1 /\ (i + 1) - 1 = i
      BY <1>1, <1>2
    <3>2. QED
      BY <1>3, <2>1, <3>1
  <2>6. \A i \in m + 1 .. Len(s) : kept[i - m] = s[i]
    <3>1. \A i \in m + 1 .. Len(s) : i - m \in 1 .. Len(s) - m /\ m + (i - m) = i
      BY <1>1, <1>2
    <3>2. QED
      BY <2>2, <3>1
  <2>7. QED
    BY <1>1, <1>5, <2>1, <2>2, <2>3, <2>4, <2>5, <2>6 DEF Halves, moved, kept
<1>6. CASE m <= pos
  <2>0. ~(pos < m)
    BY <1>1, <1>2, <1>6
  <2>1. /\ moved \in Seq(S) /\ Len(moved) = Len(s) + 1 - m
        /\ \A i \in 1 .. Len(s) + 1 - m : moved[i] = full[m + i]
    <3>0. Len(full) = Len(s) + 1
      BY <1>3
    <3>1. PICK k \in 1 .. Len(full) : k = m + 1
      BY <1>1, <1>2, <3>0
    <3>2. /\ SubSeq(full, k, Len(full)) \in Seq(S)
          /\ Len(SubSeq(full, k, Len(full))) = Len(full) - k + 1
          /\ \A i \in 1 .. Len(full) - k + 1 : SubSeq(full, k, Len(full))[i] = full[k + i - 1]
      BY <1>2, <1>3, <3>1, SliceProperties
    <3>3. moved = SubSeq(full, k, Len(full))
      BY <1>4, <2>0, <3>1
    <3>4. Len(full) - k + 1 = Len(s) + 1 - m /\ \A i \in 1 .. Len(s) + 1 - m : k + i - 1 = m + i
      BY <1>1, <1>2, <3>0, <3>1, SMTT(30)
    <3>5. QED
      BY <3>2, <3>3, <3>4
  <2>2. /\ kept \in Seq(S) /\ Len(kept) = m
        /\ \A i \in 1 .. m : kept[i] = s[i]
    <3>1. PICK k \in 0 .. Len(s) : k = m
      BY <1>1, <1>2
    <3>2. /\ SubSeq(s, 1, k) \in Seq(S)
          /\ Len(SubSeq(s, 1, k)) = k
          /\ \A i \in 1 .. k : SubSeq(s, 1, k)[i] = s[i]
      BY <1>2, <3>1, SliceProperties
    <3>3. QED
      BY <1>4, <2>0, <3>1, <3>2, Zenon
  <2>3. \A i \in m + 1 .. pos : moved[i - m] = s[i]
    <3>1. \A i \in m + 1 .. pos : /\ i - m \in 1 .. Len(s) + 1 - m /\ m + (i - m) = i
                                  /\ i \in 1 .. Len(s) + 1 /\ i < pos + 1
      BY <1>1, <1>2
    <3>2. QED
      BY <1>3, <2>1, <3>1
  <2>4. moved[pos + 1 - m] = e
    <3>1. pos + 1 - m \in 1 .. Len(s) + 1 - m /\ m + (pos + 1 - m) = pos + 1
      BY <1>1, <1>2, <1>6
    <3>2. QED
      BY <1>3, <2>1, <3>1
  <2>5. \A i \in pos + 1 .. Len(s) : moved[i + 1 - m] = s[i]
    <3>1. \A i \in pos + 1 .. Len(s) : /\ i + 1 - m \in 1 .. Len(s) + 1 - m
                                       /\ m + (i + 1 - m) = i + 1
                                       /\ i + 1 \in 1 .. Len(s) + 1
                                       /\ pos + 1 < i + 1 /\ (i + 1) - 1 = i
      BY <1>1, <1>2, <1>6
    <3>2. ASSUME NEW i \in pos + 1 .. Len(s)
          PROVE  moved[i + 1 - m] = s[i]
      <4>1. moved[i + 1 - m] = full[i + 1]
        BY <2>1, <3>1
      <4>2. full[i + 1] = s[(i + 1) - 1]
        BY <1>3, <3>1
      <4>3. QED
        BY <3>1, <4>1, <4>2
    <3>3. QED
      BY <3>2
  <2>6. QED
    BY <1>1, <2>0, <2>1, <2>2, <2>3, <2>4, <2>5 DEF Halves, moved, kept
<1>7. QED
  BY <1>1, <1>2, <1>5, <1>6

(* Every old entry is in one of the halves, and nothing else but the new    *)
(* one, which is in the sibling.                                            *)
Covered(s, e, moved, kept) ==
    /\ Len(moved) + Len(kept) = Len(s) + 1
    /\ \A i \in 1 .. Len(kept) : \E j \in 1 .. Len(s) : kept[i] = s[j]
    /\ \A i \in 1 .. Len(moved) : moved[i] = e \/ \E j \in 1 .. Len(s) : moved[i] = s[j]
    /\ \E i \in 1 .. Len(moved) : moved[i] = e
    /\ \A j \in 1 .. Len(s) : \/ \E i \in 1 .. Len(kept) : kept[i] = s[j]
                              \/ \E i \in 1 .. Len(moved) : moved[i] = s[j]

LEMMA HalvesCover ==
    ASSUME NEW s, NEW pos, NEW e, NEW m, NEW moved, NEW kept,
           Len(s) \in Nat, m \in Nat, m < Len(s), pos \in 0 .. Len(s),
           Halves(s, pos, e, m, moved, kept)
    PROVE  Covered(s, e, moved, kept)
<1>0. Len(s) \in Nat /\ m \in Nat /\ m < Len(s) /\ pos \in Nat /\ pos <= Len(s)
  OBVIOUS
<1>1. CASE pos < m
  <2>1. /\ Len(moved) = m + 1 /\ Len(kept) = Len(s) - m
        /\ \A i \in 1 .. pos : moved[i] = s[i]
        /\ moved[pos + 1] = e
        /\ \A i \in pos + 1 .. m : moved[i + 1] = s[i]
        /\ \A i \in m + 1 .. Len(s) : kept[i - m] = s[i]
    BY <1>1 DEF Halves
  <2>2. ASSUME NEW i \in 1 .. Len(kept)
        PROVE  \E j \in 1 .. Len(s) : kept[i] = s[j]
    <3>1. i + m \in m + 1 .. Len(s) /\ (i + m) - m = i /\ i + m \in 1 .. Len(s)
      BY <1>0, <2>1
    <3>2. kept[(i + m) - m] = s[i + m]
      BY <2>1, <3>1
    <3>3. QED
      BY <3>1, <3>2
  <2>3. ASSUME NEW i \in 1 .. Len(moved)
        PROVE  moved[i] = e \/ \E j \in 1 .. Len(s) : moved[i] = s[j]
    <3>1. CASE i <= pos
      <4>1. i \in 1 .. pos /\ i \in 1 .. Len(s)
        BY <1>0, <3>1
      <4>2. QED
        BY <2>1, <4>1
    <3>2. CASE i = pos + 1
      BY <2>1, <3>2
    <3>3. CASE pos + 1 < i
      <4>1. i - 1 \in pos + 1 .. m /\ (i - 1) + 1 = i /\ i - 1 \in 1 .. Len(s)
        BY <1>0, <2>1, <3>3
      <4>2. moved[(i - 1) + 1] = s[i - 1]
        BY <2>1, <4>1
      <4>3. QED
        BY <4>1, <4>2
    <3>4. QED
      BY <1>0, <3>1, <3>2, <3>3
  <2>4. pos + 1 \in 1 .. Len(moved)
    BY <1>0, <1>1, <2>1
  <2>5. ASSUME NEW j \in 1 .. Len(s)
        PROVE  \/ \E i \in 1 .. Len(kept) : kept[i] = s[j]
               \/ \E i \in 1 .. Len(moved) : moved[i] = s[j]
    <3>1. CASE j <= pos
      <4>1. j \in 1 .. pos /\ j \in 1 .. Len(moved)
        BY <1>0, <1>1, <2>1, <3>1
      <4>2. QED
        BY <2>1, <4>1
    <3>2. CASE pos < j /\ j <= m
      <4>1. j \in pos + 1 .. m /\ j + 1 \in 1 .. Len(moved)
        BY <1>0, <2>1, <3>2
      <4>2. QED
        BY <2>1, <4>1
    <3>3. CASE m < j
      <4>1. j \in m + 1 .. Len(s) /\ j - m \in 1 .. Len(kept)
        BY <1>0, <2>1, <3>3
      <4>2. QED
        BY <2>1, <4>1
    <3>4. QED
      BY <1>0, <3>1, <3>2, <3>3
  <2>6. Len(moved) + Len(kept) = Len(s) + 1
    BY <1>0, <2>1
  <2>7. QED
    BY <2>1, <2>2, <2>3, <2>4, <2>5, <2>6 DEF Covered
<1>2. CASE m <= pos
  <2>1. /\ Len(moved) = Len(s) + 1 - m /\ Len(kept) = m
        /\ \A i \in 1 .. m : kept[i] = s[i]
        /\ \A i \in m + 1 .. pos : moved[i - m] = s[i]
        /\ moved[pos + 1 - m] = e
        /\ \A i \in pos + 1 .. Len(s) : moved[i + 1 - m] = s[i]
    <3>1. ~(pos < m)
      BY <1>0, <1>2
    <3>2. QED
      BY <3>1 DEF Halves
  <2>2. ASSUME NEW i \in 1 .. Len(kept)
        PROVE  \E j \in 1 .. Len(s) : kept[i] = s[j]
    <3>1. i \in 1 .. m /\ i \in 1 .. Len(s)
      BY <1>0, <2>1
    <3>2. QED
      BY <2>1, <3>1
  <2>3. ASSUME NEW i \in 1 .. Len(moved)
        PROVE  moved[i] = e \/ \E j \in 1 .. Len(s) : moved[i] = s[j]
    <3>1. CASE i + m <= pos
      <4>1. i + m \in m + 1 .. pos /\ (i + m) - m = i /\ i + m \in 1 .. Len(s)
        BY <1>0, <3>1
      <4>2. moved[(i + m) - m] = s[i + m]
        BY <2>1, <4>1
      <4>3. QED
        BY <4>1, <4>2
    <3>2. CASE i + m = pos + 1
      <4>1. i = pos + 1 - m
        BY <1>0, <3>2
      <4>2. QED
        BY <2>1, <4>1
    <3>3. CASE pos + 1 < i + m
      <4>1. /\ i + m - 1 \in pos + 1 .. Len(s) /\ (i + m - 1) + 1 - m = i
            /\ i + m - 1 \in 1 .. Len(s)
        BY <1>0, <2>1, <3>3
      <4>2. moved[(i + m - 1) + 1 - m] = s[i + m - 1]
        BY <2>1, <4>1
      <4>3. QED
        BY <4>1, <4>2
    <3>4. QED
      BY <1>0, <3>1, <3>2, <3>3
  <2>4. pos + 1 - m \in 1 .. Len(moved)
    BY <1>0, <1>2, <2>1
  <2>5. ASSUME NEW j \in 1 .. Len(s)
        PROVE  \/ \E i \in 1 .. Len(kept) : kept[i] = s[j]
               \/ \E i \in 1 .. Len(moved) : moved[i] = s[j]
    <3>1. CASE j <= m
      <4>1. j \in 1 .. m /\ j \in 1 .. Len(kept)
        BY <1>0, <2>1, <3>1
      <4>2. QED
        BY <2>1, <4>1
    <3>2. CASE m < j /\ j <= pos
      <4>1. j \in m + 1 .. pos /\ j - m \in 1 .. Len(moved)
        BY <1>0, <2>1, <3>2
      <4>2. QED
        BY <2>1, <4>1
    <3>3. CASE pos < j
      <4>1. j \in pos + 1 .. Len(s) /\ j + 1 - m \in 1 .. Len(moved)
        BY <1>0, <1>2, <2>1, <3>3
      <4>2. QED
        BY <2>1, <4>1
    <3>4. QED
      BY <1>0, <3>1, <3>2, <3>3
  <2>6. Len(moved) + Len(kept) = Len(s) + 1
    BY <1>0, <2>1
  <2>7. QED
    BY <2>1, <2>2, <2>3, <2>4, <2>5, <2>6 DEF Covered
<1>3. QED
  BY <1>0, <1>1, <1>2

-----------------------------------------------------------------------------
(* Induction over positions takes the form of a least position.             *)
LEMMA LeastNatural ==
    ASSUME NEW T, T \subseteq Nat, T # {}
    PROVE  \E n \in T : \A m \in T : n <= m
<1> DEFINE R == OpToRel(<, Nat)
<1>1. IsWellFoundedOn(R, Nat)
  BY NatLessThanWellFounded
<1>2. \A m, n \in Nat : m < n => <<m, n>> \in R
  BY DEF OpToRel
<1> HIDE DEF R
<1>3. PICK n \in T : \A m \in T : ~(<<m, n>> \in R)
  BY <1>1, WFMin
<1>4. ASSUME NEW m \in T
      PROVE  n <= m
  <2>1. m \in Nat /\ n \in Nat /\ ~(m < n)
    BY <1>2, <1>3
  <2>2. QED
    BY <2>1
<1>5. QED
  BY <1>4

(* s is a vector of entries with sizes. *)
Sized(s) == Len(s) \in Nat /\ \A i \in 1 .. Len(s) : s[i].size \in Nat

IsTotal(s, n, f) == f = [i \in 0 .. n |-> IF i = 0 THEN 0 ELSE f[i - 1] + s[i].size]

(* The recursion of RunningTotal has a solution.                            *)
LEMMA TotalExists ==
    ASSUME NEW s, Sized(s)
    PROVE  \E f : IsTotal(s, Len(s), f)
<1> DEFINE T == {n \in Nat : n <= Len(s) /\ ~\E f : IsTotal(s, n, f)}
<1>1. SUFFICES T = {}
  BY DEF Sized
<1>2. SUFFICES ASSUME T # {} PROVE FALSE
  OBVIOUS
<1>3. PICK n \in T : \A m \in T : n <= m
  BY <1>2, LeastNatural
<1>4. CASE n = 0
  <2> DEFINE f == [i \in 0 .. 0 |-> 0]
  <2>1. IsTotal(s, 0, f)
    BY DEF IsTotal
  <2>2. QED
    BY <1>3, <1>4, <2>1
<1>5. CASE n # 0
  <2>1. n - 1 \in Nat /\ n - 1 <= Len(s) /\ n \in Nat
    BY <1>3, <1>5 DEF Sized
  <2>2. n - 1 \notin T
    BY <1>3, <2>1
  <2>3. PICK f : IsTotal(s, n - 1, f)
    BY <2>1, <2>2
  <2> DEFINE g == [i \in 0 .. n |-> IF i = n THEN f[n - 1] + s[n].size ELSE f[i]]
  <2>4. ASSUME NEW i \in 0 .. n
        PROVE  g[i] = IF i = 0 THEN 0 ELSE g[i - 1] + s[i].size
    <3>1. CASE i = n
      BY <1>5, <2>1, <3>1
    <3>2. CASE i # n
      <4>1. i \in 0 .. n - 1 /\ (i # 0 => i - 1 # n /\ i - 1 \in 0 .. n)
        BY <2>1, <3>2
      <4>2. f[i] = IF i = 0 THEN 0 ELSE f[i - 1] + s[i].size
        BY <2>3, <4>1 DEF IsTotal
      <4>3. QED
        BY <3>2, <4>1, <4>2
    <3>3. QED
      BY <3>1, <3>2
  <2>5. IsTotal(s, n, g)
    BY <2>4 DEF IsTotal
  <2>6. QED
    BY <1>3, <2>5
<1>6. QED
  BY <1>4, <1>5

LEMMA TotalFacts ==
    ASSUME NEW s, Sized(s)
    PROVE  /\ RunningTotal(s)[0] = 0
           /\ \A i \in 1 .. Len(s) :
                 RunningTotal(s)[i] = RunningTotal(s)[i - 1] + s[i].size
<1>1. IsTotal(s, Len(s), RunningTotal(s))
  <2>1. \E f : IsTotal(s, Len(s), f)
    BY TotalExists
  <2>2. QED
    BY <2>1, Zenon DEF IsTotal, RunningTotal
<1>2. PICK t : t = RunningTotal(s)
  OBVIOUS
<1>3. t = [i \in 0 .. Len(s) |-> IF i = 0 THEN 0 ELSE t[i - 1] + s[i].size]
  BY <1>1, <1>2, Zenon DEF IsTotal
<1>4. PICK n \in Nat : n = Len(s)
  BY DEF Sized
<1>5. t = [i \in 0 .. n |-> IF i = 0 THEN 0 ELSE t[i - 1] + s[i].size]
  BY <1>3, <1>4, Zenon
<1>6. t[0] = 0
  BY <1>4, <1>5
<1>7. ASSUME NEW i \in 1 .. n
      PROVE  t[i] = t[i - 1] + s[i].size
  <2>1. i \in 0 .. n /\ i # 0
    BY <1>4
  <2>2. QED
    BY <1>5, <2>1
<1>8. QED
  BY <1>2, <1>4, <1>6, <1>7

LEMMA TotalsAreNatural ==
    ASSUME NEW s, Sized(s)
    PROVE  \A i \in 0 .. Len(s) : RunningTotal(s)[i] \in Nat
<1> DEFINE T == {n \in Nat : n <= Len(s) /\ RunningTotal(s)[n] \notin Nat}
<1>1. SUFFICES ASSUME T # {} PROVE FALSE
  BY DEF Sized
<1>2. PICK n \in T : \A m \in T : n <= m
  BY <1>1, LeastNatural
<1>3. n # 0
  BY <1>2, TotalFacts
<1>4. n \in 1 .. Len(s) /\ n - 1 \in Nat
  BY <1>2, <1>3 DEF Sized
<1>5. RunningTotal(s)[n - 1] \in Nat
  BY <1>2, <1>4 DEF Sized
<1>6. RunningTotal(s)[n] \in Nat
  BY <1>4, <1>5, TotalFacts DEF Sized
<1>7. QED
  BY <1>2, <1>6

(* Inserting an entry anywhere adds its size to the total.                  *)
LEMMA InsertAddsSize ==
    ASSUME NEW s, Sized(s), NEW u, Sized(u), NEW k \in 1 .. Len(s) + 1, NEW e,
           e.size \in Nat, Len(u) = Len(s) + 1, u[k] = e,
           \A j \in 1 .. Len(s) + 1 : /\ j < k => u[j] = s[j]
                                      /\ k < j => u[j] = s[j - 1]
    PROVE  BytesUsed(u) = BytesUsed(s) + e.size
<1>1. PICK t : t = RunningTotal(s)
  OBVIOUS
<1>2. PICK v : v = RunningTotal(u)
  OBVIOUS
<1>3. /\ Len(s) \in Nat
      /\ t[0] = 0 /\ \A i \in 1 .. Len(s) : t[i] = t[i - 1] + s[i].size
      /\ v[0] = 0 /\ \A i \in 1 .. Len(s) + 1 : v[i] = v[i - 1] + u[i].size
      /\ \A i \in 0 .. Len(s) : t[i] \in Nat
      /\ \A i \in 1 .. Len(s) : s[i].size \in Nat
  <2>1. /\ t[0] = 0 /\ \A i \in 1 .. Len(s) : t[i] = t[i - 1] + s[i].size
        /\ \A i \in 0 .. Len(s) : t[i] \in Nat
    BY <1>1, TotalFacts, TotalsAreNatural
  <2>2. v[0] = 0 /\ \A i \in 1 .. Len(s) + 1 : v[i] = v[i - 1] + u[i].size
    BY <1>2, TotalFacts
  <2>3. QED
    BY <2>1, <2>2 DEF Sized
<1> DEFINE Shifted(i) == v[i] = IF i < k THEN t[i] ELSE t[i - 1] + e.size
           T == {i \in Nat : i <= Len(s) + 1 /\ ~Shifted(i)}
<1>4. T = {}
  <2>1. SUFFICES ASSUME T # {} PROVE FALSE
    OBVIOUS
  <2>2. PICK n \in T : \A m \in T : n <= m
    BY <2>1, LeastNatural
  <2>3. n # 0
    BY <1>3, <2>2
  <2>4. n \in 1 .. Len(s) + 1 /\ n - 1 \in 0 .. Len(s) /\ k \in Nat
    BY <1>3, <2>2, <2>3
  <2>5. n - 1 \notin T
    BY <2>2, <2>4
  <2>6. Shifted(n - 1) /\ v[n] = v[n - 1] + u[n].size
    BY <1>3, <2>4, <2>5
  <2>7. CASE n < k
    <3>1. n - 1 < k /\ u[n] = s[n] /\ n \in 1 .. Len(s)
      <4>1. n \in Nat /\ k \in Nat /\ k <= Len(s) + 1 /\ Len(s) \in Nat
        BY <1>3, <2>4
      <4>2. n - 1 < k /\ n \in 1 .. Len(s)
        BY <2>4, <2>7, <4>1
      <4>3. u[n] = s[n]
        <5>1. n \in 1 .. Len(s) + 1
          BY <2>4
        <5>2. QED
          BY <2>7, <5>1, Zenon
      <4>4. QED
        BY <4>2, <4>3
    <3>2. v[n] = t[n]
      BY <1>3, <2>6, <3>1
    <3>3. QED
      BY <2>2, <2>7, <3>2
  <2>8. CASE n = k
    <3>1. v[n] = t[n - 1] + e.size
      BY <2>4, <2>6, <2>8
    <3>2. QED
      BY <2>2, <2>4, <2>8, <3>1
  <2>9. CASE n > k
    <3>1. u[n] = s[n - 1] /\ n - 1 \in 1 .. Len(s) /\ ~(n - 1 < k) /\ n - 2 \in 0 .. Len(s)
      BY <1>3, <2>4, <2>9
    <3>2. v[n] = t[n - 2] + e.size + s[n - 1].size /\ t[n - 1] = t[n - 2] + s[n - 1].size
      BY <1>3, <2>4, <2>6, <3>1
    <3>3. t[n - 2] \in Nat /\ s[n - 1].size \in Nat
      BY <1>3, <3>1
    <3>4. v[n] = t[n - 1] + e.size
      BY <3>2, <3>3
    <3>5. QED
      BY <2>2, <2>4, <2>9, <3>4
  <2>10. QED
    BY <2>4, <2>7, <2>8, <2>9
<1>5. PICK n \in Nat : n = Len(s)
  BY <1>3
<1>6. Shifted(n + 1)
  BY <1>4, <1>5
<1>7. ~(n + 1 < k) /\ (n + 1) - 1 = n
  BY <1>5
<1>8. v[n + 1] = t[n] + e.size
  BY <1>6, <1>7
<1>9. QED
  BY <1>1, <1>2, <1>5, <1>8 DEF BytesUsed

(* A total is a natural number, and two or three entries of at most a       *)
(* quarter of the node take at most half or three quarters of it.           *)
LEMMA TotalOfFew ==
    ASSUME NEW s, Sized(s), NEW most \in Nat, \A i \in 1 .. Len(s) : s[i].size <= most
    PROVE  /\ BytesUsed(s) \in Nat
           /\ Len(s) < 3 => BytesUsed(s) <= most + most
           /\ Len(s) < 4 => BytesUsed(s) <= most + most + most
<1>1. PICK t : t = RunningTotal(s)
  OBVIOUS
<1>2. PICK n \in Nat : n = Len(s)
  BY DEF Sized
<1>3. /\ \A i \in 1 .. n : s[i].size \in Nat /\ s[i].size <= most
      /\ t[0] = 0 /\ \A i \in 1 .. n : t[i] = t[i - 1] + s[i].size
      /\ \A i \in 0 .. n : t[i] \in Nat
  BY <1>1, <1>2, TotalFacts, TotalsAreNatural DEF Sized
<1>4. BytesUsed(s) = t[n]
  BY <1>1, <1>2 DEF BytesUsed
<1>5. t[n] \in Nat
  BY <1>3
<1>6. ASSUME n < 3
      PROVE  t[n] <= most + most
  <2>1. CASE n = 0
    BY <1>3, <2>1
  <2>2. CASE n = 1
    BY <1>3, <2>2
  <2>3. CASE n = 2
    <3>1. t[1] = t[0] + s[1].size /\ t[2] = t[1] + s[2].size
      BY <1>3, <2>3
    <3>2. QED
      BY <1>3, <2>3, <3>1
  <2>4. QED
    BY <1>6, <2>1, <2>2, <2>3
<1>7. ASSUME n < 4
      PROVE  t[n] <= most + most + most
  <2>1. CASE n < 3
    BY <1>5, <1>6, <2>1
  <2>2. CASE n = 3
    <3>1. t[1] = t[0] + s[1].size /\ t[2] = t[1] + s[2].size /\ t[3] = t[2] + s[3].size
      BY <1>3, <2>2
    <3>2. /\ s[1].size \in Nat /\ s[2].size \in Nat /\ s[3].size \in Nat
          /\ s[1].size <= most /\ s[2].size <= most /\ s[3].size <= most
      BY <1>3, <2>2
    <3>3. PICK a, b, c \in Nat : a = s[1].size /\ b = s[2].size /\ c = s[3].size
      BY <3>2
    <3>4. t[3] = a + b + c /\ a <= most /\ b <= most /\ c <= most
      BY <1>3, <3>1, <3>2, <3>3
    <3>5. QED
      BY <2>2, <3>4
  <2>3. QED
    BY <1>7, <2>1, <2>2
<1>8. QED
  BY <1>2, <1>4, <1>5, <1>6, <1>7
=============================================================================
