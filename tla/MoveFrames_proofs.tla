-------------------------- MODULE MoveFrames_proofs --------------------------
(***************************************************************************)
(* For any finite set of cursor frames and any size of the node: the loop  *)
(* of moveFrames keeps the list a list of the same frames although it      *)
(* relinks what it walks over, and when it has ended after a RIGHT split   *)
(* a frame that was rebased once has the number of its entry as position.  *)
(* With one stuck frame at most, every round makes a measure smaller.      *)
(***************************************************************************)
EXTENDS MoveFrames, SequenceTheorems, FiniteSetTheorems, TLAPS

Visitors == DOMAIN before

(* The list holds every frame once, and positions are within the node.      *)
Listed ==
    /\ insertPos \in 0 .. MaxSize /\ splitPos \in 2 .. MaxSize
    /\ End \notin Visitors
    /\ before \in [Visitors -> 0 .. MaxSize]
    /\ position \in [Visitors -> 0 .. MaxSize]
    /\ list \in Seq(Visitors)
    /\ Len(list) = Cardinality(Visitors)
    /\ \A i, j \in 1 .. Len(list) : list[i] = list[j] => i = j
    /\ \A f \in Visitors : \E i \in 1 .. Len(list) : list[i] = f

(* Frames of which RightPositions speaks *)
Sure(f) == f \notin Stuck /\ RightTarget(before[f]) < splitPos

(* What the loop has passed is settled; what is ahead of the iterator may   *)
(* be settled too, when it has been linked in behind it.                    *)
Progress(at) ==
    /\ srcIt = IF at > Len(list) THEN End ELSE list[at]
    /\ Right => \A j \in 1 .. Len(list) : Sure(list[j]) =>
           \/ position[list[j]] = RightTarget(before[list[j]])
           \/ at <= j /\ position[list[j]] = before[list[j]]

WInv == Listed /\ \E at \in 1 .. Len(list) + 1 : Progress(at)

-----------------------------------------------------------------------------
(* t is s with the i-th element moved to the end.                           *)
Rotated(s, i, t) ==
    /\ Len(t) = Len(s)
    /\ \A j \in 1 .. Len(s) : j < i => t[j] = s[j]
    /\ \A j \in 1 .. Len(s) : i <= j /\ j < Len(s) => t[j] = s[j + 1]
    /\ t[Len(s)] = s[i]

LEMMA RotatedList ==
    ASSUME NEW S, NEW s \in Seq(S), NEW i \in 1 .. Len(s)
    PROVE  /\ Append(RemoveAt(s, i), s[i]) \in Seq(S)
           /\ Rotated(s, i, Append(RemoveAt(s, i), s[i]))
<1> DEFINE front == SubSeq(s, 1, i - 1)
           back  == SubSeq(s, i + 1, Len(s))
           r     == front \o back
<1>0. Len(s) \in Nat /\ i \in Nat /\ 1 <= i /\ i <= Len(s) /\ s[i] \in S
  BY LenProperties, ElementOfSeq
<1>1. /\ front \in Seq(S)
      /\ Len(front) = i - 1
      /\ \A j \in 1 .. i - 1 : front[j] = s[j]
  BY <1>0, SubSeqProperties
<1>2. /\ back \in Seq(S)
      /\ Len(back) = Len(s) - i
      /\ \A j \in 1 .. Len(s) - i : back[j] = s[i + j]
  BY <1>0, SubSeqProperties
<1> HIDE DEF front, back
<1>3. /\ r \in Seq(S)
      /\ Len(r) = Len(s) - 1
      /\ \A j \in 1 .. Len(s) - 1 : r[j] = IF j <= i - 1 THEN front[j] ELSE back[j - (i - 1)]
  <2>1. /\ r \in Seq(S)
        /\ Len(r) = Len(front) + Len(back)
        /\ \A j \in 1 .. Len(front) + Len(back) : r[j] =
              IF j <= Len(front) THEN front[j] ELSE back[j - Len(front)]
    BY <1>1, <1>2, ConcatProperties
  <2>2. Len(front) + Len(back) = Len(s) - 1
    BY <1>0, <1>1, <1>2
  <2>3. QED
    BY <1>1, <2>1, <2>2
<1>4. RemoveAt(s, i) = r
  BY DEF RemoveAt, front, back
<1> HIDE DEF r
<1>5. PICK t : t = Append(r, s[i])
  OBVIOUS
<1>6. /\ t \in Seq(S)
      /\ Len(t) = Len(s)
      /\ \A j \in 1 .. Len(s) - 1 : t[j] = r[j]
      /\ t[Len(s)] = s[i]
  BY <1>0, <1>3, <1>5, AppendProperties
<1>7. ASSUME NEW j \in 1 .. Len(s), j < i
      PROVE  t[j] = s[j]
  <2>1. j \in 1 .. i - 1 /\ j \in 1 .. Len(s) - 1 /\ j <= i - 1
    BY <1>0, <1>7
  <2>2. QED
    BY <1>1, <1>3, <1>6, <2>1
<1>8. ASSUME NEW j \in 1 .. Len(s), i <= j, j < Len(s)
      PROVE  t[j] = s[j + 1]
  <2>1. /\ j \in 1 .. Len(s) - 1 /\ ~(j <= i - 1)
        /\ j - (i - 1) \in 1 .. Len(s) - i /\ i + (j - (i - 1)) = j + 1
    BY <1>0, <1>8
  <2>2. t[j] = back[j - (i - 1)]
    BY <1>3, <1>6, <2>1
  <2>3. back[j - (i - 1)] = s[i + (j - (i - 1))]
    BY <1>2, <2>1
  <2>4. QED
    BY <2>1, <2>2, <2>3
<1>9. QED
  BY <1>4, <1>5, <1>6, <1>7, <1>8 DEF Rotated

(* Every element of S is in s, once.                                        *)
EachOnce(s, S) ==
    /\ \A j, k \in 1 .. Len(s) : s[j] = s[k] => j = k
    /\ \A x \in S : \E j \in 1 .. Len(s) : s[j] = x

(* Moving an element keeps a sequence a list of the same elements.          *)
LEMMA RotationKeeps ==
    ASSUME NEW S, NEW s \in Seq(S), NEW t \in Seq(S), NEW i \in 1 .. Len(s), Rotated(s, i, t),
           EachOnce(s, S)
    PROVE  EachOnce(t, S)
<1>1. PICK n \in Nat : n = Len(s) /\ n = Len(t)
  BY LenProperties DEF Rotated
<1>2. /\ \A j \in 1 .. n : j < i => t[j] = s[j]
      /\ \A j \in 1 .. n : i <= j /\ j < n => t[j] = s[j + 1]
      /\ t[n] = s[i]
      /\ i \in 1 .. n
  BY <1>1 DEF Rotated
<1> DEFINE from(j) == IF j < i THEN j ELSE IF j < n THEN j + 1 ELSE i
<1>3. \A j \in 1 .. n : from(j) \in 1 .. n /\ t[j] = s[from(j)]
  <2>1. ASSUME NEW j \in 1 .. n
        PROVE  from(j) \in 1 .. n /\ t[j] = s[from(j)]
    <3>0. i \in Nat /\ 1 <= i /\ i <= n /\ j \in Nat /\ 1 <= j /\ j <= n
      BY <1>2
    <3>1. CASE j < i
      <4>1. from(j) = j
        BY <3>1
      <4>2. QED
        BY <1>2, <3>1, <4>1
    <3>2. CASE i <= j /\ j < n
      <4>1. from(j) = j + 1 /\ j + 1 \in 1 .. n
        BY <3>0, <3>2
      <4>2. QED
        BY <1>2, <3>2, <4>1
    <3>3. CASE i <= j /\ j = n
      <4>1. from(j) = i
        BY <3>0, <3>3
      <4>2. QED
        BY <1>2, <3>3, <4>1
    <3>4. QED
      BY <3>0, <3>1, <3>2, <3>3
  <2>2. QED
    BY <2>1
<1>4. ASSUME NEW j \in 1 .. n, NEW k \in 1 .. n, from(j) = from(k)
      PROVE  j = k
  <2>0. i \in Nat /\ j \in Nat /\ k \in Nat /\ j <= n /\ k <= n /\ i <= n
    BY <1>2
  <2>1. from(j) = IF j < i THEN j ELSE IF j < n THEN j + 1 ELSE i
    OBVIOUS
  <2>2. from(k) = IF k < i THEN k ELSE IF k < n THEN k + 1 ELSE i
    OBVIOUS
  <2>3. QED
    BY <1>4, <2>0, <2>1, <2>2
<1> HIDE DEF from
<1>5. ASSUME NEW j \in 1 .. n, NEW k \in 1 .. n, t[j] = t[k]
      PROVE  j = k
  <2>1. s[from(j)] = s[from(k)] /\ from(j) \in 1 .. Len(s) /\ from(k) \in 1 .. Len(s)
    BY <1>1, <1>3, <1>5
  <2>2. from(j) = from(k)
    BY <2>1 DEF EachOnce
  <2>3. QED
    BY <1>4, <2>2
<1>6. ASSUME NEW x \in S
      PROVE  \E j \in 1 .. n : t[j] = x
  <2>1. PICK k \in 1 .. n : s[k] = x
    BY <1>1 DEF EachOnce
  <2>2. CASE k < i
    BY <1>2, <2>1, <2>2
  <2>3. CASE k = i
    <3>1. n \in 1 .. n
      BY <1>2
    <3>2. QED
      BY <1>2, <2>1, <2>3, <3>1
  <2>4. CASE i < k
    <3>1. k - 1 \in 1 .. n /\ i <= k - 1 /\ k - 1 < n /\ (k - 1) + 1 = k
      BY <1>2, <2>4
    <3>2. t[k - 1] = s[(k - 1) + 1]
      BY <1>2, <3>1
    <3>3. QED
      BY <2>1, <3>1, <3>2
  <2>5. QED
    BY <1>2, <2>2, <2>3, <2>4
<1>7. QED
  BY <1>1, <1>5, <1>6 DEF EachOnce

-----------------------------------------------------------------------------
(* Positions *)

LEMMA RebasedFacts ==
    ASSUME insertPos \in 0 .. MaxSize, splitPos \in 2 .. MaxSize, NEW p \in 0 .. MaxSize
    PROVE  /\ Rebased(p) \in 0 .. MaxSize
           /\ Right /\ p # insertPos => Rebased(p) = RightTarget(p)
           /\ Right /\ p < splitPos => RightTarget(p) = p
<1>1. MaxSize \in Nat
  BY FramesAssumption
<1>2. CASE p = insertPos
  <2>1. Rebased(p) = p
    BY <1>2 DEF Rebased
  <2>2. QED
    BY <1>1, <1>2, <2>1 DEF Right, RightTarget
<1>3. CASE p >= splitPos /\ p < insertPos
  <2>1. Rebased(p) = p - splitPos
    BY <1>1, <1>3 DEF Rebased
  <2>2. QED
    BY <1>1, <1>3, <2>1 DEF Right, RightTarget
<1>4. CASE p >= splitPos /\ p > insertPos
  <2>1. Rebased(p) = p - splitPos + 1
    BY <1>1, <1>4 DEF Rebased
  <2>2. QED
    BY <1>1, <1>4, <2>1 DEF Right, RightTarget
<1>5. CASE p < splitPos /\ p < insertPos
  <2>1. Rebased(p) = p
    BY <1>1, <1>5 DEF Rebased
  <2>2. QED
    BY <1>1, <1>5, <2>1 DEF Right, RightTarget
<1>6. CASE p < splitPos /\ p > insertPos
  <2>1. Rebased(p) = p + 1
    BY <1>1, <1>6 DEF Rebased
  <2>2. QED
    BY <1>1, <1>6, <2>1 DEF Right, RightTarget
<1>7. QED
  BY <1>1, <1>2, <1>3, <1>4, <1>5, <1>6

(* A frame that has its old position or its entry's new number has the      *)
(* latter after the loop has met it.                                        *)
LEMMA SureSettles ==
    ASSUME Listed, Right, NEW f \in Visitors, Sure(f),
           position[f] = RightTarget(before[f]) \/ position[f] = before[f]
    PROVE  Rebased(position[f]) = RightTarget(before[f])
<1>1. /\ insertPos \in 0 .. MaxSize /\ splitPos \in 2 .. MaxSize /\ MaxSize \in Nat
      /\ before[f] \in 0 .. MaxSize /\ position[f] \in 0 .. MaxSize
  BY FramesAssumption DEF Listed
<1>2. before[f] # insertPos /\ RightTarget(before[f]) < splitPos
  BY DEF Sure, Stuck, Visitors
<1>3. CASE position[f] = before[f]
  BY <1>1, <1>2, <1>3, RebasedFacts
<1>4. CASE position[f] = RightTarget(before[f])
  <2>1. position[f] < splitPos /\ position[f] # insertPos
    BY <1>1, <1>2, <1>4 DEF Right
  <2>2. Rebased(position[f]) = RightTarget(position[f]) /\ RightTarget(position[f]) = position[f]
    BY <1>1, <2>1, RebasedFacts
  <2>3. QED
    BY <1>4, <2>2
<1>5. QED
  BY <1>3, <1>4

LEMMA PlaceIs ==
    ASSUME Listed, NEW at \in 1 .. Len(list)
    PROVE  Place(list[at]) = at
<1>1. DOMAIN list = 1 .. Len(list)
  BY DEF Listed
<1>2. \A j \in DOMAIN list : list[j] = list[at] <=> j = at
  BY <1>1 DEF Listed
<1>3. QED
  BY <1>1, <1>2 DEF Place

-----------------------------------------------------------------------------
LEMMA WInit == Init => WInv
<1> SUFFICES ASSUME Init PROVE WInv
  OBVIOUS
<1>1. PICK size \in 3 .. MaxSize, F \in SUBSET Frames :
        /\ insertPos \in 0 .. size
        /\ splitPos = MedianPos(size)
        /\ list \in SetToSeqs(F)
        /\ position \in [F -> 0 .. size - 1]
        /\ srcIt = First(list)
        /\ before = position
  BY DEF Init
<1>2. MaxSize \in Nat /\ IsFiniteSet(F) /\ End \notin F
  BY FramesAssumption, FS_Subset
<1>3. Visitors = F
  BY <1>1 DEF Visitors
<1>4. PICK n \in Nat : n = Cardinality(F)
  BY <1>2, FS_CardinalityType
<1>5. list \in [1 .. n -> F] /\ \A i, j \in 1 .. n : i # j => list[i] # list[j]
  BY <1>1, <1>4 DEF SetToSeqs
<1>6. list \in Seq(F) /\ Len(list) = n
  BY <1>5
<1>7. ASSUME NEW f \in F
      PROVE  \E i \in 1 .. n : list[i] = f
  <2>1. list \in Injection(1 .. n, F)
    BY <1>5 DEF Injection, IsInjective
  <2>2. Cardinality(1 .. n) = n /\ IsFiniteSet(1 .. n)
    BY FS_Interval, SMTT(30)
  <2>3. list \in Surjection(1 .. n, F)
    BY <1>2, <1>4, <2>1, <2>2, FS_Injection
  <2>4. QED
    BY <2>3 DEF Surjection
<1>8. splitPos \in 2 .. MaxSize /\ insertPos \in 0 .. MaxSize
  BY <1>1, <1>2 DEF MedianPos
<1>9. before \in [F -> 0 .. MaxSize] /\ position \in [F -> 0 .. MaxSize]
  BY <1>1, <1>2
<1>10. Listed
  BY <1>2, <1>3, <1>4, <1>5, <1>6, <1>7, <1>8, <1>9 DEF Listed
<1>11. Progress(1)
  <2>1. srcIt = IF 1 > Len(list) THEN End ELSE list[1]
    BY <1>1, <1>6 DEF First
  <2>2. \A j \in 1 .. Len(list) : position[list[j]] = before[list[j]] /\ 1 <= j
    BY <1>1, <1>6
  <2>3. QED
    BY <2>1, <2>2 DEF Progress
<1>12. 1 \in 1 .. Len(list) + 1
  BY <1>6
<1>13. QED
  BY <1>10, <1>11, <1>12 DEF WInv

LEMMA WStep ==
    ASSUME WInv, [Next]_vars
    PROVE  WInv'
<1>1. CASE UNCHANGED vars
  <2>1. /\ list' = list /\ position' = position /\ before' = before /\ srcIt' = srcIt
        /\ insertPos' = insertPos /\ splitPos' = splitPos
    BY <1>1 DEF vars
  <2>2. Listed'
    BY <2>1 DEF WInv, Listed, Visitors
  <2>3. \A at : Progress(at) => Progress(at)'
    BY <2>1 DEF Progress, Sure, Stuck, Right, RightTarget
  <2>4. PICK at \in 1 .. Len(list) + 1 : Progress(at)
    BY DEF WInv
  <2>5. QED
    BY <2>1, <2>2, <2>3, <2>4 DEF WInv
<1>2. CASE Next
  <2>1. PICK at \in 1 .. Len(list) + 1 : Progress(at)
    BY DEF WInv
  <2>2. PICK n \in Nat : n = Len(list)
    BY LenProperties DEF WInv, Listed
  <2>3. PICK f : f = srcIt
    OBVIOUS
  <2>4. /\ f # End
        /\ srcIt' = After(f)
        /\ position' = [position EXCEPT ![f] = Rebased(position[f])]
        /\ list' = IF Spliced(position[f]) THEN MovedToEnd(f) ELSE list
        /\ insertPos' = insertPos /\ splitPos' = splitPos /\ before' = before
    BY <1>2, <2>3 DEF Next, MoveFrame
  <2>5. at \in 1 .. n /\ list[at] = f
    BY <2>1, <2>2, <2>3, <2>4 DEF Progress
  <2>6. /\ f \in Visitors /\ Place(f) = at
        /\ list \in Seq(Visitors)
        /\ position[f] \in 0 .. MaxSize
    BY <2>2, <2>5, PlaceIs, ElementOfSeq DEF WInv, Listed
  <2>7. srcIt' = IF at = n THEN End ELSE list[at + 1]
    BY <2>2, <2>4, <2>6 DEF After
  <2>8. /\ position'[f] = Rebased(position[f]) /\ Rebased(position[f]) \in 0 .. MaxSize
        /\ \A g \in Visitors : g # f => position'[g] = position[g]
        /\ position' \in [Visitors -> 0 .. MaxSize]
    BY <2>4, <2>6, RebasedFacts DEF WInv, Listed
  <2>9. Visitors' = Visitors /\ (Right' <=> Right) /\ \A g : Sure(g)' <=> Sure(g)
    BY <2>4 DEF Visitors, Right, Sure, Stuck, RightTarget
  <2>10. \A g \in Visitors : RightTarget(before[g])' = RightTarget(before[g])
    BY <2>4 DEF RightTarget
  <2>11. Right /\ Sure(f) => position'[f] = RightTarget(before[f])
    <3>1. Right /\ Sure(f) => position[f] = RightTarget(before[f]) \/ position[f] = before[f]
      BY <2>1, <2>2, <2>5 DEF Progress
    <3>2. QED
      BY <2>6, <2>8, <3>1, SureSettles DEF WInv
  (* What Progress says of the frames other than f is kept. *)
  <2>12. ASSUME Right, NEW j \in 1 .. n, Sure(list[j]), j # at
         PROVE  \/ position'[list[j]] = RightTarget(before[list[j]])
                \/ at < j /\ position'[list[j]] = before[list[j]]
    <3>1. list[j] \in Visitors /\ list[j] # f
      BY <2>2, <2>5, <2>6, <2>12, ElementOfSeq DEF WInv, Listed
    <3>2. position'[list[j]] = position[list[j]]
      BY <2>8, <3>1
    <3>3. \/ position[list[j]] = RightTarget(before[list[j]])
          \/ at <= j /\ position[list[j]] = before[list[j]]
      BY <2>1, <2>2, <2>12 DEF Progress
    <3>4. QED
      BY <2>5, <2>12, <3>2, <3>3
  <2>13. CASE ~Spliced(position[f])
    <3>1. list' = list
      BY <2>4, <2>13
    <3>2. Listed'
      BY <2>4, <2>8, <2>9, <3>1 DEF WInv, Listed
    <3>3. PICK next \in 1 .. n + 1 : next = at + 1
      BY <2>5
    <3>4. srcIt' = IF next > Len(list') THEN End ELSE list'[next]
      BY <2>2, <2>5, <2>7, <3>1, <3>3
    <3>5. ASSUME Right, NEW j \in 1 .. n, Sure(list[j])
          PROVE  \/ position'[list[j]] = RightTarget(before[list[j]])
                 \/ next <= j /\ position'[list[j]] = before[list[j]]
      <4>1. CASE j = at
        BY <2>5, <2>11, <3>5, <4>1
      <4>2. CASE j # at
        BY <2>5, <2>12, <3>3, <3>5, <4>2
      <4>3. QED
        BY <4>1, <4>2
    <3>6. Progress(next)'
      <4>1. \A j \in 1 .. n : RightTarget(before[list[j]])' = RightTarget(before[list[j]])
        BY <2>4, <3>1 DEF RightTarget
      <4>2. QED
        BY <2>2, <2>4, <2>9, <3>1, <3>4, <3>5, <4>1 DEF Progress
    <3>7. QED
      BY <2>2, <3>1, <3>2, <3>3, <3>6 DEF WInv
  <2>14. CASE Spliced(position[f])
    <3>1. PICK t : t = list'
      OBVIOUS
    <3>2. t = Append(RemoveAt(list, at), list[at])
      BY <2>4, <2>5, <2>6, <2>14, <3>1 DEF MovedToEnd
    <3>3. t \in Seq(Visitors) /\ Rotated(list, at, t)
      BY <2>2, <2>5, <2>6, <3>2, RotatedList
    <3>4. /\ Len(t) = n
          /\ \A j \in 1 .. n : j < at => t[j] = list[j]
          /\ \A j \in 1 .. n : at <= j /\ j < n => t[j] = list[j + 1]
          /\ t[n] = f
      BY <2>2, <2>5, <3>3 DEF Rotated
    <3>5. /\ \A j, k \in 1 .. Len(t) : t[j] = t[k] => j = k
          /\ \A x \in Visitors : \E j \in 1 .. Len(t) : t[j] = x
      <4>1. EachOnce(list, Visitors)
        BY DEF WInv, Listed, EachOnce
      <4>2. at \in 1 .. Len(list)
        BY <2>2, <2>5
      <4>3. EachOnce(t, Visitors)
        BY <2>6, <3>3, <4>1, <4>2, RotationKeeps
      <4>4. QED
        BY <4>3 DEF EachOnce
    <3>6. Listed'
      <4>1. list' \in Seq(Visitors) /\ Len(list') = Cardinality(Visitors)
        BY <2>2, <3>1, <3>3, <3>4 DEF WInv, Listed
      <4>2. /\ \A j, k \in 1 .. Len(list') : list'[j] = list'[k] => j = k
            /\ \A x \in Visitors : \E j \in 1 .. Len(list') : list'[j] = x
        BY <3>1, <3>5
      <4>3. /\ insertPos' \in 0 .. MaxSize /\ splitPos' \in 2 .. MaxSize /\ End \notin Visitors
            /\ before' \in [Visitors -> 0 .. MaxSize] /\ position' \in [Visitors -> 0 .. MaxSize]
        BY <2>4, <2>8 DEF WInv, Listed
      <4>4. QED
        BY <2>9, <4>1, <4>2, <4>3 DEF Listed
    <3>7. PICK next \in 1 .. n + 1 : next = IF at = n THEN n + 1 ELSE at
      BY <2>5
    <3>8. srcIt' = IF next > n THEN End ELSE t[next]
      <4>1. CASE at = n
        BY <2>7, <3>7, <4>1
      <4>2. CASE at # n
        <5>1. at < n /\ next = at
          BY <2>5, <3>7, <4>2
        <5>2. t[at] = list[at + 1]
          BY <2>5, <3>4, <5>1
        <5>3. QED
          BY <2>5, <2>7, <5>1, <5>2
      <4>3. QED
        BY <4>1, <4>2
    <3>9. ASSUME Right, NEW j \in 1 .. n, Sure(t[j])
          PROVE  \/ position'[t[j]] = RightTarget(before[t[j]])
                 \/ next <= j /\ position'[t[j]] = before[t[j]]
      <4>1. CASE j = n
        BY <2>11, <3>4, <3>9, <4>1
      <4>2. CASE j < at /\ j # n
        <5>1. t[j] = list[j] /\ j # at /\ ~(at < j)
          BY <2>5, <3>4, <4>2
        <5>2. QED
          BY <2>12, <3>9, <5>1
      <4>3. CASE at <= j /\ j # n
        <5>1. /\ t[j] = list[j + 1] /\ j + 1 \in 1 .. n /\ j + 1 # at /\ next = at
          BY <2>5, <3>4, <3>7, <4>3
        <5>2. \/ position'[list[j + 1]] = RightTarget(before[list[j + 1]])
              \/ position'[list[j + 1]] = before[list[j + 1]]
          BY <2>12, <3>9, <5>1
        <5>3. QED
          BY <4>3, <5>1, <5>2
      <4>4. QED
        BY <2>5, <4>1, <4>2, <4>3
    <3>10. Progress(next)'
      <4>1. \A j \in 1 .. n : RightTarget(before[t[j]])' = RightTarget(before[t[j]])'
        OBVIOUS
      <4>2. \A p : RightTarget(p)' = RightTarget(p)
        BY <2>4 DEF RightTarget
      <4>3. \A j \in 1 .. n : Right' /\ Sure(t[j])' =>
               \/ position'[t[j]] = RightTarget(before[t[j]])
               \/ next <= j /\ position'[t[j]] = before[t[j]]
        BY <2>9, <3>9
      <4>4. QED
        BY <2>4, <2>9, <3>1, <3>4, <3>8, <3>9, <4>2, <4>3 DEF Progress, RightTarget
    <3>11. QED
      BY <3>1, <3>4, <3>6, <3>7, <3>10 DEF WInv
  <2>15. QED
    BY <2>13, <2>14
<1>3. QED
  BY <1>1, <1>2

LEMMA Walk == Spec => []WInv
  BY WInit, WStep, PTL DEF Spec

(* The source's list stays a list of the frames it had, each once, the      *)
(* iterator points into it, and no position leaves the node, although the   *)
(* loop relinks what it is walking over.                                    *)
THEOREM FramesStayListed == Spec => []FramesKept
<1>1. ASSUME WInv
      PROVE  FramesKept
  <2>1. PICK n \in Nat : n = Len(list)
    BY <1>1, LenProperties DEF WInv, Listed
  <2>2. /\ list \in Seq(Visitors) /\ DOMAIN list = 1 .. n
        /\ \A i \in 1 .. n : list[i] \in Visitors
    <3>1. list \in Seq(Visitors)
      BY <1>1 DEF WInv, Listed
    <3>2. QED
      BY <2>1, <3>1, LenProperties, ElementOfSeq
  <2>3. Range(list) = Visitors
    <3>1. \A f \in Visitors : \E i \in 1 .. n : list[i] = f
      BY <1>1, <2>1 DEF WInv, Listed
    <3>2. QED
      BY <2>2, <3>1, Zenon DEF Range
  <2>4. Len(list) = Cardinality(Visitors) /\ position \in [Visitors -> 0 .. MaxSize]
    BY <1>1 DEF WInv, Listed
  <2>5. srcIt \in Visitors \cup {End}
    <3>1. PICK at \in 1 .. n + 1 : srcIt = IF at > n THEN End ELSE list[at]
      BY <1>1, <2>1 DEF WInv, Progress
    <3>2. QED
      BY <2>2, <3>1
  <2>6. QED
    BY <2>3, <2>4, <2>5 DEF FramesKept, Visitors
<1>2. QED
  BY <1>1, Walk, PTL

(* When the loop of a RIGHT split has ended, the position of every frame is *)
(* the number of its entry in the half the entry is in, but for frames on   *)
(* the insert position and those that are rebased twice.  It says nothing   *)
(* of the list the frame is on, which FramesStayListed does.                *)
THEOREM RightPositionsNumbered == Spec => []RightPositions
<1>1. ASSUME WInv, Done, Right, NEW f \in Visitors, Sure(f)
      PROVE  position[f] = RightTarget(before[f])
  <2>1. PICK n \in Nat : n = Len(list)
    BY <1>1, LenProperties DEF WInv, Listed
  <2>2. PICK at \in 1 .. n + 1 : Progress(at)
    BY <2>1, <1>1 DEF WInv
  <2>3. at > n
    <3>1. SUFFICES ASSUME at <= n PROVE FALSE
      BY <2>2
    <3>2. at \in 1 .. n /\ ~(at > n)
      BY <2>2, <3>1
    <3>3. srcIt = list[at] /\ list[at] \in Visitors
      BY <1>1, <2>1, <2>2, <3>2, ElementOfSeq DEF Progress, WInv, Listed
    <3>4. QED
      BY <1>1, <3>3 DEF Done, WInv, Listed
  <2>4. PICK j \in 1 .. n : list[j] = f
    BY <1>1, <2>1 DEF WInv, Listed
  <2>5. ~(at <= j)
    BY <2>3
  <2>6. QED
    BY <1>1, <2>1, <2>2, <2>4, <2>5 DEF Progress
<1>2. WInv => RightPositions
  BY <1>1 DEF RightPositions, Sure, Visitors
<1>3. QED
  BY <1>2, Walk, PTL

-----------------------------------------------------------------------------
(* Why the loop ends: a measure that every round makes smaller, as long as  *)
(* no two frames take turns.                                                *)

(* Where the iterator stands; behind the last place at the end              *)
Here == IF srcIt = End THEN Len(list) + 1 ELSE Place(srcIt)

Ahead(f) == Here <= Place(f)

(* How far a frame that the loop will still meet is from the positions at   *)
(* which it is not spliced, and so passed for good                          *)
Distance(f) ==
    IF f \in Stuck \/ ~Ahead(f) THEN 0
    ELSE IF Right THEN position[f]
    ELSE IF position[f] < splitPos THEN splitPos - position[f]
    ELSE 0

(* The places ahead, and those behind the frame in Stuck                    *)
Rest ==
    (Len(list) + 1 - Here)
      + IF Stuck = {} THEN 0 ELSE Len(list) - Place(CHOOSE f \in Stuck : TRUE)

Measured ==
    /\ \A f \in Visitors : Distance(f) \in Nat
    /\ Rest \in Nat

(* No frame gets farther away, and if none gets nearer the rest shrinks.    *)
Closer ==
    /\ \A f \in Visitors : Distance(f)' <= Distance(f)
    /\ (\A f \in Visitors : Distance(f)' = Distance(f)) => Rest' < Rest

(* A frame outside Stuck that is still ahead never gets where those are.    *)
Settling ==
    /\ \A f \in Visitors : position[f] < 2 * splitPos
    /\ \A f \in Stuck : position[f] = before[f]
    /\ \A f \in Visitors \ Stuck :
          IF Right THEN position[f] # insertPos
          ELSE Ahead(f) => position[f] > insertPos \/ position[f] >= splitPos

PlaceIn(s, x) == CHOOSE j \in DOMAIN s : s[j] = x

LEMMA PlaceInIs ==
    ASSUME NEW S, NEW s \in Seq(S), EachOnce(s, S), NEW x \in S
    PROVE  /\ PlaceIn(s, x) \in 1 .. Len(s)
           /\ s[PlaceIn(s, x)] = x
           /\ \A j \in 1 .. Len(s) : s[j] = x => PlaceIn(s, x) = j
<1>1. DOMAIN s = 1 .. Len(s)
  OBVIOUS
<1>2. PICK k \in DOMAIN s : s[k] = x
  BY <1>1 DEF EachOnce
<1>3. PlaceIn(s, x) \in DOMAIN s /\ s[PlaceIn(s, x)] = x
  BY <1>2 DEF PlaceIn
<1>4. QED
  BY <1>1, <1>3 DEF EachOnce

(* What a round does to the iterator, the places and the positions.         *)
Round(at) ==
    /\ srcIt \in Visitors /\ Here = at
    /\ position' = [position EXCEPT ![srcIt] = Rebased(position[srcIt])]
    /\ insertPos' = insertPos /\ splitPos' = splitPos /\ before' = before
    /\ Len(list') = Len(list)
    /\ Here' = IF Spliced(position[srcIt]) /\ at < Len(list) THEN at ELSE at + 1
    /\ \A g \in Visitors :
          /\ Place(g) \in 1 .. Len(list)
          /\ Place(g) = at <=> g = srcIt
          /\ Place(g)' = IF ~Spliced(position[srcIt]) \/ Place(g) < at THEN Place(g)
                         ELSE IF g = srcIt THEN Len(list)
                         ELSE Place(g) - 1

LEMMA RoundFacts ==
    ASSUME WInv, Next
    PROVE  \E at \in 1 .. Len(list) : Round(at)
<1>1. PICK at \in 1 .. Len(list) + 1 : Progress(at)
  BY DEF WInv
<1>2. PICK n \in Nat : n = Len(list)
  BY LenProperties DEF WInv, Listed
<1>3. PICK f : f = srcIt
  OBVIOUS
<1>4. /\ f # End
      /\ srcIt' = After(f)
      /\ position' = [position EXCEPT ![f] = Rebased(position[f])]
      /\ list' = IF Spliced(position[f]) THEN MovedToEnd(f) ELSE list
      /\ insertPos' = insertPos /\ splitPos' = splitPos /\ before' = before
  BY <1>3 DEF Next, MoveFrame
<1>5. at \in 1 .. n /\ list[at] = f
  BY <1>1, <1>2, <1>3, <1>4 DEF Progress
<1>6. /\ list \in Seq(Visitors) /\ EachOnce(list, Visitors) /\ End \notin Visitors
      /\ f \in Visitors /\ Place(f) = at
  BY <1>2, <1>5, PlaceIs, ElementOfSeq DEF WInv, Listed, EachOnce
<1>7. srcIt' = IF at = n THEN End ELSE list[at + 1]
  BY <1>2, <1>4, <1>6 DEF After
<1>8. PICK t : t = list'
  OBVIOUS
<1>9. t \in Seq(Visitors) /\ EachOnce(t, Visitors)
  <2>1. Listed' /\ Visitors' = Visitors
    BY <1>4, WStep DEF WInv, Visitors
  <2>2. QED
    BY <1>8, <2>1 DEF Listed, EachOnce
<1>10. \A g : Place(g) = PlaceIn(list, g) /\ Place(g)' = PlaceIn(t, g)
  BY <1>8 DEF Place, PlaceIn
<1>11. ASSUME NEW g \in Visitors
       PROVE  Place(g) \in 1 .. n /\ list[Place(g)] = g
  BY <1>2, <1>6, <1>10, PlaceInIs
<1>12. Here = at
  BY <1>3, <1>4, <1>6 DEF Here
<1>13. Len(t) = n /\ (Spliced(position[f]) => Rotated(list, at, t))
  <2>1. CASE Spliced(position[f])
    <3>1. t = Append(RemoveAt(list, at), list[at])
      BY <1>4, <1>5, <1>6, <1>8, <2>1 DEF MovedToEnd
    <3>2. Rotated(list, at, t)
      BY <1>2, <1>5, <1>6, <3>1, RotatedList
    <3>3. QED
      BY <1>2, <3>2 DEF Rotated
  <2>2. CASE ~Spliced(position[f])
    BY <1>2, <1>4, <1>8, <2>2
  <2>3. QED
    BY <2>1, <2>2
<1>14. ASSUME NEW g \in Visitors
       PROVE  Place(g)' = IF ~Spliced(position[f]) \/ Place(g) < at THEN Place(g)
                          ELSE IF g = f THEN n
                          ELSE Place(g) - 1
  <2>1. PICK q \in 1 .. n : q = Place(g) /\ list[q] = g
    BY <1>11
  <2>2. \A j \in 1 .. n : t[j] = g => Place(g)' = j
    BY <1>9, <1>10, <1>13, PlaceInIs
  <2>3. CASE ~Spliced(position[f])
    BY <1>4, <1>8, <2>1, <2>2, <2>3
  <2>4. CASE Spliced(position[f])
    <3>0. /\ \A j \in 1 .. n : j < at => t[j] = list[j]
          /\ \A j \in 1 .. n : at <= j /\ j < n => t[j] = list[j + 1]
          /\ t[n] = f
      BY <1>2, <1>5, <1>13, <2>4 DEF Rotated
    <3>1. CASE q < at
      <4>1. t[q] = g
        BY <2>1, <3>0, <3>1
      <4>2. QED
        BY <2>1, <2>2, <3>1, <4>1
    <3>2. CASE q = at
      <4>1. g = f /\ n \in 1 .. n /\ ~(q < at)
        BY <1>5, <2>1, <3>2
      <4>2. Place(g)' = n
        BY <2>2, <3>0, <4>1
      <4>3. QED
        BY <2>1, <2>4, <4>1, <4>2
    <3>3. CASE q > at
      <4>1. q - 1 \in 1 .. n /\ at <= q - 1 /\ q - 1 < n /\ (q - 1) + 1 = q /\ ~(q < at)
        BY <1>5, <2>1, <3>3
      <4>2. t[q - 1] = g
        BY <2>1, <3>0, <4>1
      <4>3. Place(g)' = q - 1
        BY <2>2, <4>1, <4>2
      <4>4. g # f
        BY <1>5, <1>6, <2>1, <3>3
      <4>5. QED
        BY <2>1, <2>4, <4>1, <4>3, <4>4
    <3>4. QED
      BY <1>5, <2>1, <3>1, <3>2, <3>3
  <2>5. QED
    BY <2>3, <2>4
<1>15. Here' = IF Spliced(position[f]) /\ at < n THEN at ELSE at + 1
  <2>1. CASE at = n
    <3>1. Here' = Len(t) + 1
      BY <1>7, <1>8, <2>1 DEF Here
    <3>2. QED
      BY <1>13, <2>1, <3>1
  <2>2. CASE at # n
    <3>1. PICK g \in Visitors : g = list[at + 1] /\ at + 1 \in 1 .. n
      BY <1>2, <1>5, <1>6, <2>2, ElementOfSeq
    <3>2. srcIt' = g /\ srcIt' # End
      BY <1>6, <1>7, <2>2, <3>1
    <3>3. Here' = PlaceIn(t, g)
      BY <1>8, <3>2 DEF Here, Place, PlaceIn
    <3>4. Place(g) = at + 1 /\ g # f
      BY <1>2, <1>5, <1>6, <1>10, <1>11, <3>1, PlaceInIs
    <3>5. Here' = IF ~Spliced(position[f]) THEN at + 1 ELSE at
      BY <1>5, <1>10, <1>14, <3>3, <3>4
    <3>6. at < n
      BY <1>5, <2>2
    <3>7. QED
      BY <3>5, <3>6
  <2>3. QED
    BY <2>1, <2>2
<1>16. \A g \in Visitors : Place(g) = at <=> g = f
  BY <1>5, <1>6, <1>11
<1>17. Round(at)
  BY <1>2, <1>3, <1>4, <1>6, <1>8, <1>11, <1>12, <1>13, <1>14, <1>15, <1>16 DEF Round
<1>18. QED
  BY <1>2, <1>5, <1>17

(* A frame that is spliced and not in Stuck comes nearer, and none comes to *)
(* where the ones in Stuck are.                                             *)
LEMMA RebasedNearer ==
    ASSUME insertPos \in 0 .. MaxSize, splitPos \in 2 .. MaxSize,
           NEW p \in 0 .. MaxSize, p < 2 * splitPos
    PROVE  /\ Rebased(p) \in Nat /\ Rebased(p) < 2 * splitPos
           /\ Right /\ p # insertPos => Rebased(p) # insertPos
           /\ Right /\ p # insertPos /\ Spliced(p) => Rebased(p) < p
           /\ Right /\ p = insertPos => Rebased(p) = p /\ Spliced(p)
           /\ ~Right /\ Spliced(p) <=> ~Right /\ p < splitPos
           /\ ~Right /\ p < splitPos /\ p > insertPos => Rebased(p) = p + 1
           /\ ~Right /\ p < splitPos /\ p <= insertPos => Rebased(p) = p
<1>1. MaxSize \in Nat
  BY FramesAssumption
<1>2. CASE p = insertPos
  <2>1. Rebased(p) = p
    BY <1>2 DEF Rebased
  <2>2. QED
    BY <1>1, <1>2, <2>1 DEF Right, Spliced
<1>3. CASE p >= splitPos /\ p < insertPos
  <2>1. Rebased(p) = p - splitPos
    BY <1>1, <1>3 DEF Rebased
  <2>2. QED
    BY <1>1, <1>3, <2>1 DEF Right, Spliced
<1>4. CASE p >= splitPos /\ p > insertPos
  <2>1. Rebased(p) = p - splitPos + 1
    BY <1>1, <1>4 DEF Rebased
  <2>2. QED
    BY <1>1, <1>4, <2>1 DEF Right, Spliced
<1>5. CASE p < splitPos /\ p < insertPos
  <2>1. Rebased(p) = p
    BY <1>1, <1>5 DEF Rebased
  <2>2. QED
    BY <1>1, <1>5, <2>1 DEF Right, Spliced
<1>6. CASE p < splitPos /\ p > insertPos
  <2>1. Rebased(p) = p + 1
    BY <1>1, <1>6 DEF Rebased
  <2>2. QED
    BY <1>1, <1>6, <2>1 DEF Right, Spliced
<1>7. QED
  BY <1>1, <1>2, <1>3, <1>4, <1>5, <1>6

SInv == WInv /\ Settling

LEMMA SettlingInit == Init => Settling
<1> SUFFICES ASSUME Init PROVE Settling
  OBVIOUS
<1>1. PICK size \in 3 .. MaxSize, F \in SUBSET Frames :
        /\ insertPos \in 0 .. size
        /\ splitPos = MedianPos(size)
        /\ position \in [F -> 0 .. size - 1]
        /\ before = position
  BY DEF Init
<1>2. MaxSize \in Nat
  BY FramesAssumption
<1>3. size \in Nat /\ splitPos \in Nat /\ size <= 2 * splitPos
  BY <1>1, <1>2 DEF MedianPos
<1>4. Visitors = F
  BY <1>1 DEF Visitors
<1>5. \A f \in F : position[f] \in Nat /\ position[f] < 2 * splitPos
  BY <1>1, <1>3
<1>6. \A f \in Visitors \ Stuck :
          IF Right THEN position[f] # insertPos
          ELSE position[f] > insertPos \/ position[f] >= splitPos
  BY <1>1, <1>3, <1>4, <1>5 DEF Stuck, Visitors
<1>7. QED
  BY <1>1, <1>4, <1>5, <1>6 DEF Settling, Stuck, Visitors

(* A frame other than the one met stays ahead or behind.                    *)
LEMMA RoundKeepsAhead ==
    ASSUME WInv, NEW at \in 1 .. Len(list), Round(at), NEW g \in Visitors, g # srcIt
    PROVE  /\ Ahead(g)' <=> Ahead(g)
           /\ position'[g] = position[g]
<1>1. PICK n \in Nat : n = Len(list)
  BY LenProperties DEF WInv, Listed
<1>2. PICK q \in 1 .. n : q = Place(g) /\ q # at
  BY <1>1 DEF Round
<1>3. Place(g)' = IF ~Spliced(position[srcIt]) \/ q < at THEN q ELSE q - 1
  BY <1>2 DEF Round
<1>4. Here = at /\ Here' = IF Spliced(position[srcIt]) /\ at < n THEN at ELSE at + 1
  BY <1>1 DEF Round
<1>5. (Here' <= Place(g)') <=> (at <= q)
  BY <1>1, <1>2, <1>3, <1>4
<1>6. position'[g] = position[g]
  BY DEF Round, WInv, Listed
<1>7. QED
  BY <1>2, <1>4, <1>5, <1>6 DEF Ahead

LEMMA SettlingStep ==
    ASSUME SInv, NEW at \in 1 .. Len(list), Round(at)
    PROVE  Settling'
<1>1. /\ insertPos \in 0 .. MaxSize /\ splitPos \in 2 .. MaxSize /\ MaxSize \in Nat
      /\ position \in [Visitors -> 0 .. MaxSize]
  BY FramesAssumption DEF SInv, WInv, Listed
<1>2. /\ insertPos' = insertPos /\ splitPos' = splitPos /\ before' = before
      /\ Visitors' = Visitors /\ (Right' <=> Right) /\ Stuck' = Stuck
      /\ Stuck \subseteq Visitors
  BY DEF Round, Visitors, Right, Stuck
<1>3. PICK f \in Visitors : f = srcIt /\ position'[f] = Rebased(position[f])
  BY <1>1 DEF Round
<1>4. position[f] \in 0 .. MaxSize /\ position[f] < 2 * splitPos
  BY <1>1 DEF SInv, Settling
<1>5. \A g \in Visitors : g # f => position'[g] = position[g] /\ (Ahead(g)' <=> Ahead(g))
  BY <1>3, RoundKeepsAhead DEF SInv
<1>6. ASSUME NEW g \in Visitors
      PROVE  position'[g] < 2 * splitPos
  BY <1>1, <1>3, <1>4, <1>5, RebasedNearer DEF SInv, Settling
<1>7. ASSUME NEW g \in Stuck
      PROVE  position'[g] = before[g]
  <2>1. position[g] = before[g] /\ g \in Visitors
    BY <1>2 DEF SInv, Settling
  <2>2. CASE g = f
    <3>1. IF Right THEN position[f] = insertPos
          ELSE position[f] <= insertPos /\ position[f] < splitPos
      BY <2>1, <2>2 DEF Stuck
    <3>2. Rebased(position[f]) = position[f]
      BY <1>1, <1>4, <3>1, RebasedNearer
    <3>3. QED
      BY <1>3, <2>1, <2>2, <3>2
  <2>3. QED
    BY <1>5, <2>1, <2>2
<1>8. ASSUME NEW g \in Visitors, g \notin Stuck
      PROVE  IF Right THEN position'[g] # insertPos
             ELSE Ahead(g)' => position'[g] > insertPos \/ position'[g] >= splitPos
  <2>1. IF Right THEN position[g] # insertPos
        ELSE Ahead(g) => position[g] > insertPos \/ position[g] >= splitPos
    BY <1>8 DEF SInv, Settling
  <2>2. CASE g # f
    BY <1>5, <2>1, <2>2
  <2>3. CASE g = f /\ Right
    BY <1>1, <1>3, <1>4, <2>1, <2>3, RebasedNearer
  <2>4. CASE g = f /\ ~Right
    <3>1. Ahead(f) /\ Place(f) = at
      BY <1>3 DEF Round, Ahead
    <3>2. CASE position[f] < splitPos
      <4>1. position[f] > insertPos /\ position'[f] = position[f] + 1
        BY <1>1, <1>3, <1>4, <2>1, <2>4, <3>1, <3>2, RebasedNearer
      <4>2. QED
        BY <1>1, <1>4, <2>4, <4>1
    <3>3. CASE ~(position[f] < splitPos)
      <4>1. ~Spliced(position[f])
        BY <1>1, <1>4, <2>4, <3>3, RebasedNearer
      <4>2. Place(f)' = at /\ Here' = at + 1
        BY <1>3, <3>1, <4>1 DEF Round
      <4>3. ~(at + 1 <= at)
        BY LenProperties DEF SInv, WInv, Listed
      <4>4. QED
        BY <2>4, <4>2, <4>3 DEF Ahead
    <3>4. QED
      BY <3>2, <3>3
  <2>5. QED
    BY <2>2, <2>3, <2>4
<1>9. QED
  BY <1>2, <1>6, <1>7, <1>8 DEF Settling

LEMMA SInvAlways == Spec => []SInv
<1>1. SInv /\ UNCHANGED vars => Settling'
  BY DEF SInv, Settling, vars, Visitors, Stuck, Right, Ahead, Here, Place
<1>2. SInv /\ [Next]_vars => SInv'
  BY <1>1, WStep, RoundFacts, SettlingStep DEF SInv
<1>3. Init => SInv
  BY WInit, SettlingInit DEF SInv
<1>4. QED
  BY <1>2, <1>3, PTL DEF Spec

(* There are no two frames in Stuck.                                        *)
LEMMA AtMostOne ==
    ASSUME WInv, Cardinality(Stuck) <= 1, NEW f \in Stuck, NEW g \in Stuck
    PROVE  f = g
<1>1. PICK n \in Nat : n = Len(list)
  BY LenProperties DEF WInv, Listed
<1>2. list \in Surjection(1 .. n, Visitors)
  <2>1. list \in [1 .. n -> Visitors]
    BY <1>1 DEF WInv, Listed
  <2>2. \A x \in Visitors : \E i \in 1 .. n : list[i] = x
    BY <1>1 DEF WInv, Listed
  <2>3. QED
    BY <2>1, <2>2 DEF Surjection
<1>3. IsFiniteSet(Visitors)
  BY <1>2, FS_Interval, FS_Surjection
<1>4. IsFiniteSet(Stuck) /\ Cardinality(Stuck) \in Nat
  <2>1. Stuck \subseteq Visitors
    BY DEF Stuck, Visitors
  <2>2. QED
    BY <1>3, <2>1, FS_Subset, FS_CardinalityType
<1>5. SUFFICES ASSUME f # g PROVE FALSE
  OBVIOUS
<1>6. IsFiniteSet(Stuck \ {f}) /\ Cardinality(Stuck \ {f}) = Cardinality(Stuck) - 1
  BY <1>4, FS_RemoveElement
<1>7. Cardinality(Stuck \ {f}) = 0
  BY <1>4, <1>6, FS_CardinalityType
<1>8. QED
  BY <1>5, <1>6, <1>7, FS_EmptySet

LEMMA AllMeasured == SInv => Measured
<1> SUFFICES ASSUME SInv PROVE Measured
  OBVIOUS
<1>1. PICK n \in Nat : n = Len(list)
  BY LenProperties DEF SInv, WInv, Listed
<1>2. /\ splitPos \in 2 .. MaxSize /\ MaxSize \in Nat
      /\ \A f \in Visitors : position[f] \in 0 .. MaxSize
  BY FramesAssumption DEF SInv, WInv, Listed
<1>3. \A f \in Visitors : Place(f) \in 1 .. n
  <2>1. EachOnce(list, Visitors) /\ list \in Seq(Visitors)
    BY DEF SInv, WInv, Listed, EachOnce
  <2>2. \A f : Place(f) = PlaceIn(list, f)
    BY DEF Place, PlaceIn
  <2>3. QED
    BY <1>1, <2>1, <2>2, PlaceInIs
<1>4. Here \in 1 .. n + 1
  <2>1. PICK at \in 1 .. n + 1 : srcIt = IF at > n THEN End ELSE list[at]
    BY <1>1 DEF SInv, WInv, Progress
  <2>2. CASE srcIt = End
    BY <1>1, <2>2 DEF Here
  <2>3. CASE srcIt # End
    <3>1. srcIt = list[at] /\ at \in 1 .. n
      BY <2>1, <2>3
    <3>2. srcIt \in Visitors
      BY <1>1, <3>1, ElementOfSeq DEF SInv, WInv, Listed
    <3>3. QED
      BY <1>3, <2>3, <3>2 DEF Here
  <2>4. QED
    BY <2>2, <2>3
<1>5. ASSUME NEW f \in Visitors
      PROVE  Distance(f) \in Nat
  BY <1>2 DEF Distance
<1>6. Rest \in Nat
  <2>1. CASE Stuck = {}
    BY <1>1, <1>4, <2>1 DEF Rest
  <2>2. CASE Stuck # {}
    <3>1. PICK g \in Visitors : g = CHOOSE f \in Stuck : TRUE
      BY <2>2 DEF Stuck, Visitors
    <3>2. Place(g) \in 1 .. n
      BY <1>3
    <3>3. QED
      BY <1>1, <1>4, <2>2, <3>1, <3>2 DEF Rest
  <2>3. QED
    BY <2>1, <2>2
<1>7. QED
  BY <1>5, <1>6 DEF Measured

LEMMA RoundComesCloser ==
    ASSUME SInv, NEW at \in 1 .. Len(list), Round(at), Cardinality(Stuck) <= 1
    PROVE  Closer
<1>1. PICK n \in Nat : n = Len(list) /\ n = Len(list')
  BY LenProperties DEF SInv, WInv, Listed, Round
<1>2. /\ insertPos \in 0 .. MaxSize /\ splitPos \in 2 .. MaxSize /\ MaxSize \in Nat
      /\ position \in [Visitors -> 0 .. MaxSize]
  BY FramesAssumption DEF SInv, WInv, Listed
<1>3. /\ splitPos' = splitPos /\ Visitors' = Visitors /\ (Right' <=> Right) /\ Stuck' = Stuck
      /\ Stuck \subseteq Visitors
  BY DEF Round, Visitors, Right, Stuck
<1>4. PICK f \in Visitors : f = srcIt /\ position'[f] = Rebased(position[f])
  BY <1>2 DEF Round
<1>5. position[f] \in 0 .. MaxSize /\ position[f] < 2 * splitPos
  BY <1>2 DEF SInv, Settling
<1>6. Ahead(f) /\ Place(f) = at /\ Here = at
  BY <1>4 DEF Round, Ahead
<1>7. ASSUME NEW g \in Visitors, g # f
      PROVE  Distance(g)' = Distance(g)
  <2>1. position'[g] = position[g] /\ (Ahead(g)' <=> Ahead(g))
    BY <1>4, <1>7, RoundKeepsAhead DEF SInv
  <2>2. QED
    BY <1>3, <2>1 DEF Distance
<1>8. CASE f \in Stuck
  <2>1. Spliced(position[f])
    <3>1. IF Right THEN position[f] = insertPos
          ELSE position[f] <= insertPos /\ position[f] < splitPos
      BY <1>8 DEF SInv, Settling, Stuck
    <3>2. QED
      BY <1>2, <1>5, <3>1, RebasedNearer
  <2>2. Distance(f)' = Distance(f)
    BY <1>3, <1>8 DEF Distance
  <2>3. f = CHOOSE x \in Stuck : TRUE
    BY <1>8, AtMostOne DEF SInv
  <2>4. Rest = (n + 1 - at) + (n - at)
    BY <1>1, <1>6, <1>8, <2>3 DEF Rest
  <2>5. Rest' = (n + 1 - Here') + (n - Place(f)')
    BY <1>1, <1>3, <1>8, <2>3 DEF Rest
  <2>6. Here' = (IF at < n THEN at ELSE at + 1) /\ Place(f)' = n /\ at \in 1 .. n
    BY <1>1, <1>4, <1>6, <2>1 DEF Round
  <2>7. Rest' < Rest
    BY <2>4, <2>5, <2>6
  <2>8. \A g \in Visitors : Distance(g)' <= Distance(g)
    BY <1>7, <2>2, AllMeasured DEF Measured
  <2>9. QED
    BY <2>7, <2>8 DEF Closer
<1>9. CASE f \notin Stuck /\ Spliced(position[f])
  <2>1. IF Right THEN position[f] # insertPos
        ELSE position[f] > insertPos \/ position[f] >= splitPos
    BY <1>6, <1>9 DEF SInv, Settling
  <2>2. ASSUME Right
        PROVE  Distance(f)' \in Nat /\ Distance(f)' < Distance(f)
    <3>1. Distance(f) = position[f]
      BY <1>6, <1>9, <2>2 DEF Distance
    <3>2. Distance(f)' = 0 \/ Distance(f)' = Rebased(position[f])
      BY <1>3, <1>4, <1>9, <2>2 DEF Distance
    <3>3. Rebased(position[f]) \in Nat /\ Rebased(position[f]) < position[f]
      BY <1>2, <1>5, <1>9, <2>1, <2>2, RebasedNearer
    <3>4. PICK p \in Nat : p = position[f]
      BY <1>5
    <3>5. PICK q \in Nat : q = Rebased(position[f]) /\ q < p
      BY <3>3, <3>4
    <3>6. QED
      BY <3>1, <3>2, <3>4, <3>5
  <2>3. ASSUME ~Right
        PROVE  Distance(f)' \in Nat /\ Distance(f)' < Distance(f)
    <3>1. position[f] < splitPos /\ position'[f] = position[f] + 1
      BY <1>2, <1>4, <1>5, <1>9, <2>1, <2>3, RebasedNearer
    <3>2. Distance(f) = splitPos - position[f]
      BY <1>6, <1>9, <2>3, <3>1 DEF Distance
    <3>3. Distance(f)' = 0 \/ Distance(f)' = splitPos - (position[f] + 1)
      <4>1. f \notin Stuck'
        BY <1>3, <1>9
      <4>2. ~Right'
        BY <1>3, <2>3
      <4>3. /\ splitPos' = splitPos
            /\ position'[f] < splitPos' \/ ~(position'[f] < splitPos')
        BY <1>3
      <4>4. \/ Distance(f)' = 0
            \/ position'[f] < splitPos' /\ Distance(f)' = splitPos' - position'[f]
        BY <4>1, <4>2 DEF Distance
      <4>5. QED
        BY <3>1, <4>3, <4>4
    <3>4. PICK p \in Nat : p = position[f] /\ p < splitPos
      BY <1>5, <3>1
    <3>5. QED
      BY <1>2, <3>2, <3>3, <3>4
  <2>4. Distance(f)' \in Nat /\ Distance(f)' < Distance(f)
    BY <2>2, <2>3
  <2>5. \A g \in Visitors : Distance(g) \in Nat
    BY AllMeasured DEF Measured
  <2>6. ~(Distance(f)' = Distance(f)) /\ Distance(f)' <= Distance(f)
    BY <1>4, <2>4, <2>5
  <2>7. \A g \in Visitors : Distance(g)' <= Distance(g)
    BY <1>7, <2>5, <2>6
  <2>8. QED
    BY <2>6, <2>7 DEF Closer
<1>10. CASE f \notin Stuck /\ ~Spliced(position[f])
  <2>1. /\ Here' = at + 1
        /\ \A g \in Visitors : Place(g)' = Place(g) /\ Place(g) \in 1 .. n
    BY <1>1, <1>4, <1>10 DEF Round
  <2>2. Distance(f)' = 0
    <3>1. ~Ahead(f)'
      BY <1>1, <1>6, <2>1 DEF Ahead
    <3>2. QED
      BY <3>1 DEF Distance
  <2>3. Rest' < Rest
    <3>1. CASE Stuck = {}
      BY <1>1, <1>3, <1>6, <2>1, <3>1 DEF Rest
    <3>2. CASE Stuck # {}
      <4>1. PICK g \in Visitors : g = CHOOSE x \in Stuck : TRUE
        BY <1>3, <3>2
      <4>2. Rest = (n + 1 - at) + (n - Place(g))
        BY <1>1, <1>6, <3>2, <4>1 DEF Rest
      <4>3. Rest' = (n + 1 - (at + 1)) + (n - Place(g))
        BY <1>1, <1>3, <2>1, <3>2, <4>1 DEF Rest
      <4>4. QED
        BY <1>1, <2>1, <4>2, <4>3
    <3>3. QED
      BY <3>1, <3>2
  <2>4. \A g \in Visitors : Distance(g)' <= Distance(g)
    BY <1>7, <2>2, AllMeasured DEF Measured
  <2>5. QED
    BY <2>3, <2>4 DEF Closer
<1>11. QED
  BY <1>8, <1>9, <1>10

(* With at most one frame in Stuck, every round of the loop brings a frame  *)
(* nearer to where it is passed for good, or else leaves fewer places to    *)
(* go, both counted in natural numbers and for finitely many frames: the    *)
(* loop cannot go on for ever.                                              *)
THEOREM RoundsRunOut ==
    Spec => []Measured /\ [][Cardinality(Stuck) <= 1 => Closer]_vars
<1>1. SInv /\ [Next]_vars => [Cardinality(Stuck) <= 1 => Closer]_vars
  BY RoundFacts, RoundComesCloser DEF SInv
<1>2. QED
  BY <1>1, SInvAlways, AllMeasured, PTL DEF Spec
=============================================================================
