------------------------ MODULE PageAllocator_proofs ------------------------
(***************************************************************************)
(* For every set of nodes, the links that dirty() rearranges spell out the *)
(* order of the calls, and a flush in progress skips no node.  FieldsOK    *)
(* and Linked are inductive together; NoneSkipped is inductive relative to *)
(* them.  Following the links then implements DirtyOrder.                  *)
(***************************************************************************)
EXTENDS PageAllocator, SequenceTheorems, FiniteSetTheorems, WellFoundedInduction, TLAPS

(* Removing the i-th element shifts the later ones down by one. *)
LEMMA RemoveAtProperties ==
    ASSUME NEW S, NEW s \in Seq(S), NEW i \in 1 .. Len(s)
    PROVE  /\ RemoveAt(s, i) \in Seq(S)
           /\ Len(RemoveAt(s, i)) = Len(s) - 1
           /\ \A j \in 1 .. Len(s) - 1 :
                 RemoveAt(s, i)[j] = IF j < i THEN s[j] ELSE s[j + 1]
<1> DEFINE front == SubSeq(s, 1, i - 1)
           back  == SubSeq(s, i + 1, Len(s))
<1>0. Len(s) \in Nat
  OBVIOUS
<1>1. /\ front \in Seq(S)
      /\ Len(front) = i - 1
      /\ \A j \in 1 .. i - 1 : front[j] = s[j]
  BY SubSeqProperties
<1>2. /\ back \in Seq(S)
      /\ Len(back) = Len(s) - i
      /\ \A j \in 1 .. Len(s) - i : back[j] = s[i + j]
  BY SubSeqProperties
<1>3. RemoveAt(s, i) = front \o back
  BY DEF RemoveAt
<1> HIDE DEF front, back
<1>4. /\ front \o back \in Seq(S)
      /\ Len(front \o back) = Len(s) - 1
      /\ \A j \in 1 .. Len(s) - 1 : (front \o back)[j] =
            IF j <= i - 1 THEN front[j] ELSE back[j - (i - 1)]
  <2>1. /\ front \o back \in Seq(S)
        /\ Len(front \o back) = Len(front) + Len(back)
        /\ \A j \in 1 .. Len(front) + Len(back) : (front \o back)[j] =
              IF j <= Len(front) THEN front[j] ELSE back[j - Len(front)]
    BY <1>1, <1>2, ConcatProperties
  <2>2. Len(front) + Len(back) = Len(s) - 1
    BY <1>0, <1>1, <1>2
  <2>3. QED
    BY <1>1, <2>1, <2>2
<1>5. ASSUME NEW j \in 1 .. Len(s) - 1
      PROVE  (front \o back)[j] = IF j < i THEN s[j] ELSE s[j + 1]
  <2>1. CASE j < i
    BY <1>0, <1>1, <1>4, <2>1
  <2>2. CASE j >= i
    <3>1. j - (i - 1) \in 1 .. Len(s) - i /\ i + (j - (i - 1)) = j + 1
      BY <1>0, <2>2
    <3>2. QED
      BY <1>0, <1>2, <1>4, <2>2, <3>1
  <2>3. j < i \/ j >= i
    BY <1>0
  <2>4. QED
    BY <2>1, <2>2, <2>3
<1>6. QED
  BY <1>3, <1>4, <1>5

(* Moving the i-th element to the end keeps the elements before it and      *)
(* shifts those after it down by one.                                       *)
LEMMA MovedToEndProperties ==
    ASSUME NEW S, NEW s \in Seq(S), NEW i \in 1 .. Len(s)
    PROVE  /\ History!MovedToEnd(s, i) \in Seq(S)
           /\ Len(History!MovedToEnd(s, i)) = Len(s)
           /\ History!MovedToEnd(s, i)[Len(s)] = s[i]
           /\ \A j \in 1 .. Len(s) - 1 :
                 /\ j < i => History!MovedToEnd(s, i)[j] = s[j]
                 /\ i <= j => History!MovedToEnd(s, i)[j] = s[j + 1]
<1> DEFINE r == RemoveAt(s, i)
           t == History!MovedToEnd(s, i)
<1>1. s[i] \in S /\ Len(s) \in Nat
  BY ElementOfSeq
<1>2. /\ r \in Seq(S)
      /\ Len(r) = Len(s) - 1
      /\ \A j \in 1 .. Len(s) - 1 : r[j] = IF j < i THEN s[j] ELSE s[j + 1]
  BY RemoveAtProperties
<1>3. t = Append(r, s[i])
  BY DEF History!MovedToEnd, History!RemoveAt, RemoveAt
<1> HIDE DEF r, t
<1>4. /\ t \in Seq(S)
      /\ Len(t) = Len(s)
      /\ \A j \in 1 .. Len(s) - 1 : t[j] = r[j]
      /\ t[Len(s)] = s[i]
  BY <1>1, <1>2, <1>3, AppendProperties
<1>5. QED
  BY <1>1, <1>2, <1>4 DEF t

(* A node is in the range of the history if it is at one of its places. *)
LEMMA RangeDirtied ==
    ASSUME dirtied \in Seq(Nodes)
    PROVE  /\ DOMAIN dirtied = 1 .. Len(dirtied)
           /\ Len(dirtied) \in Nat
           /\ \A i \in 1 .. Len(dirtied) : dirtied[i] \in Nodes
           /\ \A n : n \in Range(dirtied) <=> \E i \in 1 .. Len(dirtied) : dirtied[i] = n
  BY DEF Range

(* What Linked says, with the domain of the history spelled out. *)
LEMMA LinkedFacts ==
    ASSUME FieldsOK, Linked
    PROVE  /\ Len(dirtied) = 0 => firstDirty = Null /\ lastDirty = Null
           /\ Len(dirtied) > 0 => /\ firstDirty = dirtied[1]
                                  /\ lastDirty = dirtied[Len(dirtied)]
           /\ \A i \in 1 .. Len(dirtied) :
                 /\ nextDirty[dirtied[i]] = IF i < Len(dirtied) THEN dirtied[i + 1] ELSE Null
                 /\ prevDirty[dirtied[i]] = IF i > 1 THEN dirtied[i - 1] ELSE Null
           /\ \A i, j \in 1 .. Len(dirtied) : dirtied[i] = dirtied[j] => i = j
<1>1. Len(dirtied) \in Nat
  BY RangeDirtied DEF FieldsOK
<1>2. \A i \in Int : At(i) = IF 1 <= i /\ i <= Len(dirtied) THEN dirtied[i] ELSE Null
  BY <1>1 DEF At
<1>3. \A i \in 1 .. Len(dirtied) :
         /\ nextDirty[dirtied[i]] = IF i < Len(dirtied) THEN dirtied[i + 1] ELSE Null
         /\ prevDirty[dirtied[i]] = IF i > 1 THEN dirtied[i - 1] ELSE Null
  <2> SUFFICES ASSUME NEW i \in 1 .. Len(dirtied)
               PROVE  /\ nextDirty[dirtied[i]] = IF i < Len(dirtied) THEN dirtied[i + 1] ELSE Null
                      /\ prevDirty[dirtied[i]] = IF i > 1 THEN dirtied[i - 1] ELSE Null
    OBVIOUS
  <2>1. nextDirty[dirtied[i]] = At(i + 1) /\ prevDirty[dirtied[i]] = At(i - 1)
    BY DEF Linked
  <2>2. QED
    BY <1>1, <1>2, <2>1
<1>4. /\ Len(dirtied) = 0 => firstDirty = Null /\ lastDirty = Null
      /\ Len(dirtied) > 0 => firstDirty = dirtied[1] /\ lastDirty = dirtied[Len(dirtied)]
  BY <1>1, <1>2 DEF Linked
<1>5. QED
  BY <1>3, <1>4 DEF Linked

(* Conversely, the same facts of the next state establish Linked there. *)
LEMMA LinkedNext ==
    ASSUME NEW len \in Nat, Len(dirtied') = len, FieldsOK',
           \A i, j \in 1 .. len : dirtied'[i] = dirtied'[j] => i = j,
           len > 0,
           firstDirty' = dirtied'[1],
           lastDirty' = dirtied'[len],
           \A i \in 1 .. len :
              /\ nextDirty'[dirtied'[i]] = IF i < len THEN dirtied'[i + 1] ELSE Null
              /\ prevDirty'[dirtied'[i]] = IF i > 1 THEN dirtied'[i - 1] ELSE Null,
           \A m \in Nodes : (\A i \in 1 .. len : dirtied'[i] # m)
                               => nextDirty'[m] = Null /\ prevDirty'[m] = Null
    PROVE  Linked'
<1>1. \A i \in Int : At(i)' = IF 1 <= i /\ i <= len THEN dirtied'[i] ELSE Null
  BY DEF At
<1>2. firstDirty' = At(1)' /\ lastDirty' = At(Len(dirtied))'
  BY <1>1
<1>3. \A i \in 1 .. len : /\ nextDirty'[dirtied'[i]] = At(i + 1)'
                          /\ prevDirty'[dirtied'[i]] = At(i - 1)'
  <2> SUFFICES ASSUME NEW i \in 1 .. len
               PROVE  /\ nextDirty'[dirtied'[i]] = At(i + 1)'
                      /\ prevDirty'[dirtied'[i]] = At(i - 1)'
    OBVIOUS
  <2>1. /\ At(i + 1)' = IF i < len THEN dirtied'[i + 1] ELSE Null
        /\ At(i - 1)' = IF i > 1 THEN dirtied'[i - 1] ELSE Null
    BY <1>1
  <2>2. QED
    BY <2>1
<1>4. ASSUME NEW m \in Nodes \ Range(dirtied')
      PROVE  nextDirty'[m] = Null /\ prevDirty'[m] = Null
  <2>1. DOMAIN dirtied' = 1 .. len
    BY DEF FieldsOK
  <2>2. \A i \in 1 .. len : dirtied'[i] # m
    BY <2>1 DEF Range
  <2>3. QED
    BY <2>2
<1>5. QED
  BY <1>2, <1>3, <1>4 DEF Linked

-----------------------------------------------------------------------------
(* One lemma for each way through dirty(). *)

(* A node that is not in the list is appended. *)
LEMMA AppendNewLinked ==
    ASSUME FieldsOK, Linked, NEW n \in Nodes, n \notin Range(dirtied), Dirty(n)
    PROVE  /\ FieldsOK' /\ Linked'
           /\ dirtied' = Append(dirtied, n)
           /\ flushNext' = flushNext \/ flushNext = n
<1> DEFINE len == Len(dirtied)
<1>1. /\ len \in Nat
      /\ DOMAIN dirtied = 1 .. len
      /\ \A i \in 1 .. len : dirtied[i] \in Nodes /\ dirtied[i] # n
  BY RangeDirtied DEF FieldsOK
<1>2. /\ dirtied' = Append(dirtied, n)
      /\ unflushed' = unflushed \ {n}
  BY <1>1 DEF Dirty, History!Dirty
<1>3. /\ dirtied' \in Seq(Nodes)
      /\ Len(dirtied') = len + 1
      /\ DOMAIN dirtied' = 1 .. len + 1
      /\ \A i \in 1 .. len : dirtied'[i] = dirtied[i]
      /\ dirtied'[len + 1] = n
  BY <1>1, <1>2, AppendProperties DEF FieldsOK
<1>4. nextDirty[n] = Null /\ prevDirty[n] = Null
  BY DEF Linked
<1>5. lastDirty # n
  BY <1>1, LinkedFacts, NullAssumption DEF FieldsOK
<1>6. AppendNew(n)
  BY <1>4, <1>5 DEF Dirty, MoveToEnd, StayLast, StayAlone
<1>7. FieldsOK'
  BY <1>2, <1>3, <1>6 DEF FieldsOK, AppendNew, SkipFlushed
<1>8. Linked'
  <2>1. \A i, j \in 1 .. len + 1 : dirtied'[i] = dirtied'[j] => i = j
    BY <1>1, <1>3, LinkedFacts
  <2>2. firstDirty' = dirtied'[1] /\ lastDirty' = dirtied'[len + 1]
    BY <1>1, <1>3, <1>6, LinkedFacts, NullAssumption DEF AppendNew, FieldsOK
  <2>3. ASSUME NEW i \in 1 .. len + 1
        PROVE  /\ nextDirty'[dirtied'[i]] = IF i < len + 1 THEN dirtied'[i + 1] ELSE Null
               /\ prevDirty'[dirtied'[i]] = IF i > 1 THEN dirtied'[i - 1] ELSE Null
    <3>1. CASE len = 0
      BY <1>3, <1>4, <1>6, <3>1, LinkedFacts DEF AppendNew
    <3>2. CASE len > 0
      <4>1. lastDirty = dirtied[len] /\ lastDirty \in Nodes /\ lastDirty # Null
        BY <1>1, <3>2, LinkedFacts, NullAssumption
      <4>2. /\ prevDirty' = [prevDirty EXCEPT ![n] = lastDirty]
            /\ nextDirty' = [nextDirty EXCEPT ![lastDirty] = n]
        BY <1>6, <4>1 DEF AppendNew
      <4>3. CASE i = len + 1
        <5>1. lastDirty # n /\ dirtied'[i] = n
          BY <1>1, <1>3, <3>2, <4>1, <4>3
        <5>2. nextDirty'[n] = Null /\ prevDirty'[n] = dirtied'[len]
          BY <1>3, <1>4, <3>2, <4>1, <4>2, <5>1 DEF FieldsOK
        <5>3. QED
          BY <1>1, <3>2, <4>3, <5>1, <5>2
      <4>4. CASE i = len
        <5>1. dirtied'[i] = lastDirty /\ dirtied'[i + 1] = n /\ lastDirty # n
          BY <1>1, <1>3, <3>2, <4>1, <4>4
        <5>2. nextDirty'[lastDirty] = n /\ prevDirty'[lastDirty] = prevDirty[lastDirty]
          BY <4>1, <4>2, <5>1 DEF FieldsOK
        <5>3. prevDirty[lastDirty] = IF i > 1 THEN dirtied[i - 1] ELSE Null
          BY <1>1, <3>2, <4>1, <4>4, LinkedFacts
        <5>4. i > 1 => dirtied'[i - 1] = dirtied[i - 1]
          BY <1>1, <1>3, <4>4
        <5>5. i < len + 1
          BY <1>1, <4>4
        <5>6. QED
          BY <5>1, <5>2, <5>3, <5>4, <5>5
      <4>5. CASE i < len
        <5>1. dirtied[i] # lastDirty /\ dirtied[i] # n /\ dirtied[i] \in Nodes
          BY <1>1, <4>1, <4>5, <3>2, LinkedFacts
        <5>2. /\ nextDirty'[dirtied[i]] = nextDirty[dirtied[i]]
              /\ prevDirty'[dirtied[i]] = prevDirty[dirtied[i]]
          BY <4>2, <5>1 DEF FieldsOK
        <5>3. QED
          BY <1>1, <1>3, <4>5, <5>2, LinkedFacts, SMTT(30)
      <4>6. QED
        BY <1>1, <4>3, <4>4, <4>5
    <3>3. QED
      BY <1>1, <3>1, <3>2
  <2>4. ASSUME NEW m \in Nodes, \A i \in 1 .. len + 1 : dirtied'[i] # m
        PROVE  nextDirty'[m] = Null /\ prevDirty'[m] = Null
    <3>1. m # n /\ m \notin Range(dirtied)
      BY <1>1, <1>3, <2>4, RangeDirtied DEF FieldsOK
    <3>2. nextDirty[m] = Null /\ prevDirty[m] = Null
      BY <3>1 DEF Linked
    <3>3. m # lastDirty
      BY <1>1, <3>1, LinkedFacts, RangeDirtied, NullAssumption DEF FieldsOK
    <3>4. QED
      BY <1>6, <3>1, <3>2, <3>3 DEF AppendNew, FieldsOK
  <2>5. QED
    BY <1>1, <1>3, <1>7, <2>1, <2>2, <2>3, <2>4, LinkedNext
<1>9. QED
  BY <1>2, <1>6, <1>7, <1>8 DEF AppendNew, SkipFlushed

(* The last node stays: the history moves it to where it is. *)
LEMMA StayLinked ==
    ASSUME FieldsOK, Linked, NEW i \in 1 .. Len(dirtied), i = Len(dirtied),
           Dirty(dirtied[i])
    PROVE  /\ FieldsOK' /\ Linked'
           /\ dirtied' = dirtied
           /\ unflushed' = unflushed \ {dirtied[i]}
           /\ flushNext' = flushNext \/ flushNext = dirtied[i]
<1> DEFINE n   == dirtied[i]
           len == Len(dirtied)
<1>0. dirtied \in Seq(Nodes)
  BY DEF FieldsOK
<1>1. /\ len \in Nat /\ n \in Nodes
      /\ n \in Range(dirtied)
      /\ DOMAIN dirtied = 1 .. len
      /\ \A j \in 1 .. len : dirtied[j] = n => j = i
      /\ nextDirty[n] = Null
      /\ lastDirty = n
  BY RangeDirtied, LinkedFacts DEF FieldsOK
<1>2. /\ dirtied' = History!MovedToEnd(dirtied, i)
      /\ unflushed' = unflushed \ {n}
  <2>1. History!Dirty(n) /\ unflushed' = unflushed \ {n}
    BY DEF Dirty
  <2>2. PICK k \in 1 .. len : dirtied[k] = n /\ dirtied' = History!MovedToEnd(dirtied, k)
    BY <1>1, <2>1, Zenon DEF History!Dirty, History!Range, Range
  <2>3. k = i
    BY <1>1, <2>2
  <2>4. QED
    BY <2>1, <2>2, <2>3, Zenon
<1>3. dirtied' = dirtied
  <2>1. /\ dirtied' \in Seq(Nodes)
        /\ Len(dirtied') = len
        /\ dirtied'[len] = n
        /\ \A j \in 1 .. len - 1 : /\ j < i => dirtied'[j] = dirtied[j]
                                   /\ i <= j => dirtied'[j] = dirtied[j + 1]
    BY <1>0, <1>2, MovedToEndProperties
  <2>2. \A j \in 1 .. len : dirtied'[j] = dirtied[j]
    BY <1>1, <2>1
  <2>3. QED
    BY <1>1, <2>1, <2>2, SeqEqual DEF FieldsOK
<1>4. StayLast(n) \/ StayAlone(n)
  BY <1>1 DEF Dirty, MoveToEnd, AppendNew
<1>5. UNCHANGED links /\ (flushNext' = flushNext \/ (flushNext' = Null /\ flushNext = n))
  BY <1>1, <1>4 DEF StayLast, StayAlone, SkipFlushed, links
<1>6. FieldsOK'
  BY <1>2, <1>3, <1>5 DEF FieldsOK, links
<1>7. Linked'
  BY <1>3, <1>5 DEF Linked, At, links
<1>8. QED
  BY <1>2, <1>3, <1>5, <1>6, <1>7

(* Any other node of the list is unlinked and appended.  Places below i     *)
(* keep their node, places from i on receive the next one.                  *)
LEMMA MoveToEndLinked ==
    ASSUME FieldsOK, Linked, NEW i \in 1 .. Len(dirtied), i < Len(dirtied),
           Dirty(dirtied[i])
    PROVE  /\ FieldsOK' /\ Linked'
           /\ dirtied' = History!MovedToEnd(dirtied, i)
           /\ unflushed' = unflushed \ {dirtied[i]}
           /\ flushNext' = IF flushNext = dirtied[i] THEN dirtied[i + 1] ELSE flushNext
<1> DEFINE n   == dirtied[i]
           len == Len(dirtied)
<1>0. dirtied \in Seq(Nodes)
  BY DEF FieldsOK
<1>i. len \in Nat /\ i \in Nat /\ 1 <= i /\ i < len
  BY <1>0, LenProperties
<1>1. /\ len \in Nat /\ n \in Nodes
      /\ n \in Range(dirtied)
      /\ DOMAIN dirtied = 1 .. len
      /\ \A j \in 1 .. len : dirtied[j] \in Nodes /\ dirtied[j] # Null
      /\ \A j, k \in 1 .. len : dirtied[j] = dirtied[k] => j = k
  BY RangeDirtied, LinkedFacts, NullAssumption DEF FieldsOK
<1>2. /\ nextDirty[n] = dirtied[i + 1]
      /\ prevDirty[n] = IF i > 1 THEN dirtied[i - 1] ELSE Null
      /\ firstDirty = dirtied[1]
      /\ lastDirty = dirtied[len]
      /\ i + 1 \in 1 .. len /\ 1 \in 1 .. len /\ len \in 1 .. len
      /\ nextDirty[n] \in Nodes /\ nextDirty[n] # Null
  BY <1>1, LinkedFacts
<1>3. /\ dirtied' = History!MovedToEnd(dirtied, i)
      /\ unflushed' = unflushed \ {n}
  <2>1. History!Dirty(n) /\ unflushed' = unflushed \ {n}
    BY DEF Dirty
  <2>2. PICK k \in 1 .. len : dirtied[k] = n /\ dirtied' = History!MovedToEnd(dirtied, k)
    BY <1>1, <2>1, Zenon DEF History!Dirty, History!Range, Range
  <2>3. k = i
    BY <1>1, <2>2
  <2>4. QED
    BY <2>1, <2>2, <2>3, Zenon
<1>4. /\ dirtied' \in Seq(Nodes)
      /\ Len(dirtied') = len
      /\ dirtied'[len] = n
      /\ \A j \in 1 .. len - 1 : /\ j < i => dirtied'[j] = dirtied[j]
                                 /\ i <= j => dirtied'[j] = dirtied[j + 1]
  BY <1>0, <1>3, MovedToEndProperties
<1>5. MoveToEnd(n)
  BY <1>2 DEF Dirty, AppendNew, StayLast, StayAlone
<1> DEFINE next == dirtied[i + 1]
           prev == IF i > 1 THEN dirtied[i - 1] ELSE Null
           last == dirtied[len]
<1>6. /\ firstDirty' = IF prev = Null THEN next ELSE firstDirty
      /\ nextDirty' = [m \in Nodes |-> IF m = last THEN n
                                       ELSE IF m = n THEN Null
                                       ELSE IF m = prev THEN next
                                       ELSE nextDirty[m]]
      /\ prevDirty' = [m \in Nodes |-> IF m = n THEN last
                                       ELSE IF m = next THEN prev
                                       ELSE prevDirty[m]]
      /\ lastDirty' = n
      /\ flushNext' = IF flushNext = n THEN next ELSE flushNext
  BY <1>2, <1>5, Zenon DEF MoveToEnd, SkipFlushed
<1>7. FieldsOK'
  <2>1. n \in Nodes /\ next \in Nodes /\ last \in Nodes /\ prev \in Nodes \cup {Null}
    BY <1>1, <1>2
  <2>2. QED
    BY <1>3, <1>4, <1>6, <2>1 DEF FieldsOK
<1>8. \A j, k \in 1 .. len : dirtied'[j] = dirtied'[k] => j = k
  <2> DEFINE src(j) == IF j = len THEN i ELSE IF j < i THEN j ELSE j + 1
  <2>1. ASSUME NEW j \in 1 .. len
        PROVE  src(j) \in 1 .. len /\ dirtied'[j] = dirtied[src(j)]
    <3>1. CASE j = len
      BY <1>4, <1>i, <3>1
    <3>2. CASE j < len /\ j < i
      BY <1>4, <1>i, <3>2
    <3>3. CASE j < len /\ i <= j
      BY <1>4, <1>i, <3>3
    <3>4. QED
      BY <1>i, <3>1, <3>2, <3>3
  <2>2. \A j, k \in 1 .. len : src(j) = src(k) => j = k
    BY <1>i
  <2> HIDE DEF src
  <2>3. QED
    BY <1>1, <2>1, <2>2
<1>9. firstDirty' = dirtied'[1] /\ lastDirty' = dirtied'[len]
  BY <1>1, <1>2, <1>4, <1>6
<1>10. ASSUME NEW j \in 1 .. len
       PROVE  /\ nextDirty'[dirtied'[j]] = IF j < len THEN dirtied'[j + 1] ELSE Null
              /\ prevDirty'[dirtied'[j]] = IF j > 1 THEN dirtied'[j - 1] ELSE Null
  <2>1. CASE j = len
    <3>1. dirtied'[j] = n /\ n # last /\ len > 1
      BY <1>1, <1>2, <1>4, <2>1
    <3>2. nextDirty'[n] = Null /\ prevDirty'[n] = last
      BY <1>1, <1>6, <3>1
    <3>3. dirtied'[len - 1] = last
      <4>1. len - 1 \in 1 .. len - 1 /\ i <= len - 1 /\ (len - 1) + 1 = len
        BY <1>1, <3>1
      <4>2. QED
        BY <1>4, <4>1
    <3>4. QED
      BY <1>1, <2>1, <3>1, <3>2, <3>3
  <2>2. CASE j < i
    <3> DEFINE m == dirtied[j]
    <3>1. /\ dirtied'[j] = m /\ m \in Nodes
          /\ m # n /\ m # last /\ m # next
      BY <1>1, <1>2, <1>4, <2>2
    <3>2. nextDirty'[m] = IF j + 1 = i THEN next ELSE dirtied[j + 1]
      <4>1. CASE j + 1 = i
        BY <1>1, <1>6, <2>2, <3>1, <4>1
      <4>2. CASE j + 1 < i
        <5>1. m # prev
          BY <1>1, <2>2, <4>2
        <5>2. nextDirty[m] = dirtied[j + 1]
          BY <1>1, <2>2, LinkedFacts
        <5>3. QED
          BY <1>6, <3>1, <4>2, <5>1, <5>2
      <4>3. QED
        BY <1>1, <2>2, <4>1, <4>2
    <3>3. prevDirty'[m] = IF j > 1 THEN dirtied[j - 1] ELSE Null
      BY <1>1, <1>6, <3>1, LinkedFacts
    <3>4. /\ dirtied'[j + 1] = IF j + 1 = i THEN next ELSE dirtied[j + 1]
          /\ j > 1 => dirtied'[j - 1] = dirtied[j - 1]
      BY <1>1, <1>4, <2>2, SMTT(30)
    <3>5. j < len
      BY <1>1, <2>2
    <3>6. QED
      BY <3>1, <3>2, <3>3, <3>4, <3>5
  <2>3. CASE i <= j /\ j < len
    <3> DEFINE m == dirtied[j + 1]
    <3>1. /\ dirtied'[j] = m /\ m \in Nodes
          /\ m # n /\ m # prev
      BY <1>1, <1>2, <1>4, <2>3
    <3>2. nextDirty'[m] = IF j + 1 = len THEN n ELSE dirtied[j + 2]
      <4>1. CASE j + 1 = len
        BY <1>1, <1>6, <3>1, <4>1
      <4>2. CASE j + 1 < len
        <5>1. m # last
          BY <1>1, <2>3, <4>2
        <5>2. nextDirty[m] = dirtied[j + 2]
          BY <1>1, <2>3, <4>2, LinkedFacts
        <5>3. QED
          BY <1>6, <3>1, <4>2, <5>1, <5>2
      <4>3. QED
        BY <1>1, <2>3, <4>1, <4>2
    <3>3. prevDirty'[m] = IF j = i THEN prev ELSE dirtied[j]
      <4>1. CASE j = i
        BY <1>6, <3>1, <4>1
      <4>2. CASE j > i
        <5>1. j + 1 \in 1 .. len /\ j + 1 > 1 /\ (j + 1) - 1 = j /\ j + 1 # i + 1
          BY <1>1, <2>3, <4>2
        <5>2. m # next /\ prevDirty[m] = dirtied[j]
          BY <1>1, <1>2, <5>1, LinkedFacts
        <5>3. QED
          BY <1>6, <3>1, <4>2, <5>2
      <4>3. QED
        BY <1>1, <2>3, <4>1, <4>2
    <3>4. /\ dirtied'[j + 1] = IF j + 1 = len THEN n ELSE dirtied[j + 2]
          /\ j > 1 => dirtied'[j - 1] = IF j = i THEN dirtied[i - 1] ELSE dirtied[j]
      <4>1. dirtied'[j + 1] = IF j + 1 = len THEN n ELSE dirtied[j + 2]
        <5>1. j + 1 < len => /\ j + 1 \in 1 .. len - 1
                             /\ i <= j + 1 /\ (j + 1) + 1 = j + 2
          BY <1>1, <2>3
        <5>2. j + 1 = len \/ j + 1 < len
          BY <1>i, <2>3
        <5>3. QED
          BY <1>1, <1>4, <5>1, <5>2
      <4>2. j > 1 => dirtied'[j - 1] = IF j = i THEN dirtied[i - 1] ELSE dirtied[j]
        <5>1. j > 1 => /\ j - 1 \in 1 .. len - 1
                       /\ j = i => j - 1 < i
                       /\ j # i => i <= j - 1 /\ (j - 1) + 1 = j
          BY <1>1, <2>3
        <5>2. QED
          BY <1>4, <5>1
      <4>3. QED
        BY <4>1, <4>2
    <3>5. QED
      BY <1>1, <2>3, <3>1, <3>2, <3>3, <3>4
  <2>4. j = len \/ j < i \/ (i <= j /\ j < len)
    BY <1>i
  <2>5. QED
    BY <2>1, <2>2, <2>3, <2>4, Zenon
<1>11. ASSUME NEW m \in Nodes, \A j \in 1 .. len : dirtied'[j] # m
       PROVE  nextDirty'[m] = Null /\ prevDirty'[m] = Null
  <2>1. \A j \in 1 .. len : dirtied[j] # m
    <3> SUFFICES ASSUME NEW j \in 1 .. len
                 PROVE  dirtied[j] # m
      OBVIOUS
    <3>1. dirtied[j] \in {dirtied'[len], dirtied'[j - 1], dirtied'[j]}
          /\ (j > i => dirtied[j] = dirtied'[j - 1])
          /\ (j < i => dirtied[j] = dirtied'[j])
          /\ (j = i => dirtied[j] = dirtied'[len])
      BY <1>1, <1>4
    <3>2. QED
      BY <1>1, <1>11, <3>1
  <2>2. nextDirty[m] = Null /\ prevDirty[m] = Null
    BY <2>1, RangeDirtied DEF Linked, FieldsOK
  <2>3. m # n /\ m # last /\ m # next /\ m # prev
    BY <1>1, <1>2, <2>1, NullAssumption
  <2>4. QED
    BY <1>6, <2>2, <2>3
<1>12. Linked'
  <2>1. len > 0
    BY <1>1
  <2>2. QED
    BY <1>1, <1>4, <1>7, <1>8, <1>9, <1>10, <1>11, <2>1, LinkedNext
<1>13. QED
  BY <1>3, <1>6, <1>7, <1>12

-----------------------------------------------------------------------------
(* Every call of dirty() takes one of the three ways. *)
LEMMA DirtyWays ==
    ASSUME FieldsOK, NEW n \in Nodes
    PROVE  \/ n \notin Range(dirtied)
           \/ \E i \in 1 .. Len(dirtied) : n = dirtied[i] /\ i = Len(dirtied)
           \/ \E i \in 1 .. Len(dirtied) : n = dirtied[i] /\ i < Len(dirtied)
<1>1. Len(dirtied) \in Nat
  BY RangeDirtied DEF FieldsOK
<1>2. SUFFICES ASSUME NEW i \in 1 .. Len(dirtied), n = dirtied[i]
               PROVE  i = Len(dirtied) \/ i < Len(dirtied)
  BY RangeDirtied DEF FieldsOK
<1>3. QED
  BY <1>1

LEMMA LinkedStep == FieldsOK /\ Linked /\ [Next]_vars => FieldsOK' /\ Linked'
<1> SUFFICES ASSUME FieldsOK, Linked, [Next]_vars
             PROVE  FieldsOK' /\ Linked'
  OBVIOUS
<1>1. ASSUME NEW n \in Nodes, Dirty(n)
      PROVE  FieldsOK' /\ Linked'
  <2>1. CASE n \notin Range(dirtied)
    BY <1>1, <2>1, AppendNewLinked
  <2>2. ASSUME NEW i \in 1 .. Len(dirtied), n = dirtied[i], i = Len(dirtied)
        PROVE  FieldsOK' /\ Linked'
    BY <1>1, <2>2, StayLinked
  <2>3. ASSUME NEW i \in 1 .. Len(dirtied), n = dirtied[i], i < Len(dirtied)
        PROVE  FieldsOK' /\ Linked'
    BY <1>1, <2>3, MoveToEndLinked
  <2>4. QED
    BY <2>1, <2>2, <2>3, DirtyWays
<1>2. CASE BeginFlush
  <2>1. Range(dirtied) \subseteq Nodes
    BY RangeDirtied DEF FieldsOK
  <2>2. FieldsOK'
    BY <1>2, <2>1 DEF BeginFlush, FieldsOK, links
  <2>3. Linked'
    BY <1>2 DEF BeginFlush, Linked, At, links
  <2>4. QED
    BY <2>2, <2>3
<1>3. CASE FlushNext
  <2>1. FieldsOK'
    BY <1>3 DEF FlushNext, FieldsOK, links
  <2>2. Linked'
    BY <1>3 DEF FlushNext, Linked, At, links
  <2>3. QED
    BY <2>1, <2>2
<1>4. CASE UNCHANGED vars
  BY <1>4 DEF vars, links, FieldsOK, Linked, At
<1>5. QED
  BY <1>1, <1>2, <1>3, <1>4 DEF Next

LEMMA LinkedInit == Init => FieldsOK /\ Linked
<1> SUFFICES ASSUME Init
             PROVE  FieldsOK /\ Linked
  OBVIOUS
<1>1. FieldsOK
  BY DEF Init, FieldsOK
<1>2. Linked
  BY DEF Init, Linked, At
<1>3. QED
  BY <1>1, <1>2

LEMMA LinkedAlways == Spec => [](FieldsOK /\ Linked)
  BY LinkedInit, LinkedStep, PTL DEF Spec

(* The fields always hold nodes or null, and no node is its own neighbour:  *)
(* the neighbours of a place hold other nodes.                              *)
THEOREM TypeCorrect == Spec => []TypeOK
<1>1. ASSUME FieldsOK, Linked
      PROVE  TypeOK
  <2> SUFFICES ASSUME NEW n \in Nodes
               PROVE  nextDirty[n] # n /\ prevDirty[n] # n
    BY <1>1 DEF TypeOK
  <2>1. CASE n \notin Range(dirtied)
    BY <1>1, <2>1, NullAssumption DEF Linked
  <2>2. ASSUME NEW i \in 1 .. Len(dirtied), dirtied[i] = n
        PROVE  nextDirty[n] # n /\ prevDirty[n] # n
    <3>1. Len(dirtied) \in Nat
      BY <1>1, RangeDirtied DEF FieldsOK
    <3>2. /\ i < Len(dirtied) => i + 1 \in 1 .. Len(dirtied) /\ i + 1 # i
          /\ i > 1 => i - 1 \in 1 .. Len(dirtied) /\ i - 1 # i
      BY <3>1
    <3>3. QED
      BY <1>1, <2>2, <3>2, LinkedFacts, NullAssumption
  <2>3. QED
    BY <1>1, <2>1, <2>2, RangeDirtied DEF FieldsOK
<1>2. QED
  BY <1>1, LinkedAlways, PTL

(* The links that dirty() maintains spell out the order of its calls. *)
THEOREM LinksSpellOrder == Spec => []Linked
  BY LinkedAlways, PTL

-----------------------------------------------------------------------------
(* A dirtied node leaves the flush, and the iterator, should it stand on    *)
(* that node, steps to the next place.  The places of all other nodes keep  *)
(* their order.                                                             *)
LEMMA DirtySkipsNone ==
    ASSUME FieldsOK, Linked, NoneSkipped, NEW n \in Nodes, Dirty(n)
    PROVE  NoneSkipped'
<1> DEFINE len == Len(dirtied)
<1>0. /\ len \in Nat
      /\ \A p, q \in 1 .. len : dirtied[p] = dirtied[q] => p = q
  BY RangeDirtied, LinkedFacts DEF FieldsOK
<1>1. unflushed' = unflushed \ {n}
  BY DEF Dirty
<1> SUFFICES ASSUME NEW u \in unflushed, u # n
             PROVE  \E i, j \in 1 .. Len(dirtied') :
                        i <= j /\ dirtied'[i] = flushNext' /\ dirtied'[j] = u
  BY <1>1 DEF NoneSkipped
<1>2. PICK i \in 1 .. len, j \in 1 .. len :
          i <= j /\ dirtied[i] = flushNext /\ dirtied[j] = u
  BY DEF NoneSkipped
<1>3. CASE n \notin Range(dirtied)
  <2>1. /\ dirtied' = Append(dirtied, n)
        /\ flushNext' = flushNext \/ flushNext = n
    BY <1>3, AppendNewLinked
  <2>2. flushNext # n
    BY <1>2, <1>3, RangeDirtied DEF FieldsOK
  <2>3. /\ Len(dirtied') = len + 1
        /\ \A p \in 1 .. len : dirtied'[p] = dirtied[p]
    BY <2>1, AppendProperties DEF FieldsOK
  <2>4. QED
    BY <1>0, <1>2, <2>1, <2>2, <2>3
<1>4. ASSUME NEW k \in 1 .. len, n = dirtied[k], k = len
      PROVE  \E p, q \in 1 .. Len(dirtied') :
                 p <= q /\ dirtied'[p] = flushNext' /\ dirtied'[q] = u
  <2>1. dirtied' = dirtied /\ (flushNext' = flushNext \/ flushNext = n)
    BY <1>4, StayLinked
  <2>2. flushNext # n
    BY <1>0, <1>2, <1>4
  <2>3. QED
    BY <1>2, <2>1, <2>2
<1>5. ASSUME NEW k \in 1 .. len, n = dirtied[k], k < len
      PROVE  \E p, q \in 1 .. Len(dirtied') :
                 p <= q /\ dirtied'[p] = flushNext' /\ dirtied'[q] = u
  <2>1. /\ dirtied' = History!MovedToEnd(dirtied, k)
        /\ flushNext' = IF flushNext = n THEN dirtied[k + 1] ELSE flushNext
    BY <1>5, MoveToEndLinked
  <2>2. /\ Len(dirtied') = len
        /\ \A p \in 1 .. len - 1 : /\ p < k => dirtied'[p] = dirtied[p]
                                   /\ k <= p => dirtied'[p] = dirtied[p + 1]
    BY <2>1, MovedToEndProperties DEF FieldsOK
  <2>3. k \in Nat /\ i \in Nat /\ j \in Nat /\ j # k
    BY <1>0, <1>2, <1>5
  <2> DEFINE place(p) == IF p < k THEN p ELSE p - 1
  <2>4. ASSUME NEW p \in 1 .. len, p # k
        PROVE  place(p) \in 1 .. len /\ dirtied'[place(p)] = dirtied[p]
    <3>1. CASE p < k
      BY <1>0, <1>5, <2>2, <2>3, <3>1
    <3>2. CASE p > k
      <4>1. p - 1 \in 1 .. len - 1 /\ k <= p - 1 /\ (p - 1) + 1 = p
        BY <1>0, <2>3, <3>2
      <4>2. QED
        BY <2>2, <2>3, <3>2, <4>1
    <3>3. QED
      BY <2>3, <2>4, <3>1, <3>2
  <2>5. place(j) \in 1 .. len /\ dirtied'[place(j)] = u
    BY <1>2, <2>3, <2>4
  <2>6. CASE i = k
    <3>1. k + 1 \in 1 .. len /\ k + 1 # k /\ place(k + 1) <= place(j)
      BY <1>0, <1>2, <1>5, <2>3, <2>6
    <3>2. flushNext' = dirtied[k + 1]
      BY <1>2, <1>5, <2>1, <2>6
    <3>3. place(k + 1) \in 1 .. len /\ dirtied'[place(k + 1)] = flushNext'
      BY <2>4, <3>1, <3>2
    <3> HIDE DEF place
    <3>4. QED
      BY <2>2, <2>5, <3>1, <3>3
  <2>7. CASE i # k
    <3>1. flushNext' = dirtied[i]
      BY <1>0, <1>2, <1>5, <2>1, <2>7
    <3>2. place(i) \in 1 .. len /\ dirtied'[place(i)] = flushNext'
      BY <2>4, <2>7, <3>1
    <3>3. place(i) <= place(j)
      BY <1>2, <2>3, <2>7
    <3> HIDE DEF place
    <3>4. QED
      BY <2>2, <2>5, <3>2, <3>3
  <2>8. QED
    BY <2>6, <2>7
<1>6. QED
  BY <1>3, <1>4, <1>5, DirtyWays

LEMMA FlushSkipsNone ==
    ASSUME FieldsOK, Linked, NoneSkipped, BeginFlush \/ FlushNext
    PROVE  NoneSkipped'
<1> DEFINE len == Len(dirtied)
<1>0. len \in Nat
  BY RangeDirtied DEF FieldsOK
<1>1. CASE BeginFlush
  <2> SUFFICES ASSUME NEW u \in Range(dirtied)
               PROVE  \E i, j \in 1 .. len :
                          i <= j /\ dirtied[i] = firstDirty /\ dirtied[j] = u
    BY <1>1 DEF BeginFlush, NoneSkipped
  <2>1. PICK j \in 1 .. len : dirtied[j] = u
    BY RangeDirtied DEF FieldsOK
  <2>2. 1 \in 1 .. len /\ 1 <= j /\ dirtied[1] = firstDirty
    BY <1>0, LinkedFacts
  <2>3. QED
    BY <2>1, <2>2
<1>2. CASE FlushNext
  <2> SUFFICES ASSUME NEW u \in unflushed, u # flushNext
               PROVE  \E i, j \in 1 .. len :
                          i <= j /\ dirtied[i] = nextDirty[flushNext] /\ dirtied[j] = u
    BY <1>2 DEF FlushNext, NoneSkipped
  <2>1. PICK i \in 1 .. len, j \in 1 .. len :
            i <= j /\ dirtied[i] = flushNext /\ dirtied[j] = u
    BY DEF NoneSkipped
  <2>2. i + 1 \in 1 .. len /\ i + 1 <= j /\ i < len
    BY <1>0, <2>1
  <2>3. nextDirty[flushNext] = dirtied[i + 1]
    BY <2>1, <2>2, LinkedFacts
  <2>4. QED
    BY <2>1, <2>2, <2>3
<1>3. QED
  BY <1>1, <1>2

(* A flush in progress hands out every node that was dirty when it began,   *)
(* unless dirty() has moved the node behind since.                          *)
THEOREM FlushSkipsNothing == Spec => []NoneSkipped
<1>1. Init => NoneSkipped
  BY DEF Init, NoneSkipped
<1>2. FieldsOK /\ Linked /\ NoneSkipped /\ [Next]_vars => NoneSkipped'
  <2>1. ASSUME NoneSkipped, UNCHANGED vars
        PROVE  NoneSkipped'
    BY <2>1 DEF NoneSkipped, vars
  <2>2. QED
    BY <2>1, DirtySkipsNone, FlushSkipsNone DEF Next
<1>3. QED
  BY <1>1, <1>2, LinkedAlways, PTL DEF Spec

-----------------------------------------------------------------------------
(* The refinement.  Following the links from mFirstDirty gives back the     *)
(* history, so that every call of dirty() moves that chain as DirtyOrder    *)
(* moves the order.                                                         *)

LEMMA LeastNatural ==
    ASSUME NEW T, T \subseteq Nat, T # {}
    PROVE  \E n \in T : \A m \in T : n <= m
<1> DEFINE R == OpToRel(<, Nat)
<1>1. IsWellFoundedOn(R, Nat)
  BY NatLessThanWellFounded
<1>2. \A m, n \in Nat : m < n => <<m, n>> \in R
  BY DEF OpToRel
<1> HIDE DEF R
<1>3. PICK n \in T : \A m \in T : ~(<<m, n>> \in R)
  BY <1>1, WFMin
<1>4. ASSUME NEW m \in T
      PROVE  n <= m
  <2>1. m \in Nat /\ n \in Nat /\ ~(m < n)
    BY <1>2, <1>3
  <2>2. QED
    BY <2>1
<1>5. QED
  BY <1>4

IsHops(n, f) ==
    f = [i \in Nat |-> IF i = 0 THEN n
                       ELSE IF f[i - 1] = Null THEN Null ELSE nextDirty[f[i - 1]]]

(* At beyond either end, and in between.                                    *)
LEMMA AtProperties ==
    ASSUME FieldsOK
    PROVE  /\ Len(dirtied) \in Nat
           /\ \A i \in Nat : At(i + 1) = IF i < Len(dirtied) THEN dirtied[i + 1] ELSE Null
           /\ \A i \in Nat : At(i + 1) = Null <=> Len(dirtied) <= i
<1>1. Len(dirtied) \in Nat /\ \A i \in 1 .. Len(dirtied) : dirtied[i] \in Nodes
  BY RangeDirtied DEF FieldsOK
<1>2. ASSUME NEW i \in Nat
      PROVE  /\ At(i + 1) = IF i < Len(dirtied) THEN dirtied[i + 1] ELSE Null
             /\ At(i + 1) = Null <=> Len(dirtied) <= i
  <2>1. CASE i < Len(dirtied)
    <3>1. i + 1 \in 1 .. Len(dirtied)
      BY <1>1, <2>1
    <3>2. QED
      BY <1>1, <2>1, <3>1, NullAssumption DEF At
  <2>2. CASE Len(dirtied) <= i
    BY <1>1, <2>2 DEF At
  <2>3. QED
    BY <1>1, <2>1, <2>2
<1>3. QED
  BY <1>1, <1>2

(* The recursion has exactly one solution: the history, and null behind it. *)
LEMMA HopsExist ==
    ASSUME FieldsOK, Linked
    PROVE  IsHops(firstDirty, [i \in Nat |-> At(i + 1)])
<1> DEFINE g == [i \in Nat |-> At(i + 1)]
<1>1. ASSUME NEW i \in Nat
      PROVE  At(i + 1) = IF i = 0 THEN firstDirty
                         ELSE IF g[i - 1] = Null THEN Null ELSE nextDirty[g[i - 1]]
  <2>1. CASE i = 0
    BY <2>1 DEF Linked
  <2>2. CASE i # 0
    <3>1. i - 1 \in Nat /\ (i - 1) + 1 = i
      BY <2>2
    <3>2. g[i - 1] = At(i)
      BY <3>1
    <3>3. CASE i <= Len(dirtied)
      <4>1. i \in 1 .. Len(dirtied) /\ At(i) = dirtied[i] /\ dirtied[i] \in Nodes
        BY <2>2, <3>3, RangeDirtied DEF At, FieldsOK
      <4>2. nextDirty[dirtied[i]] = At(i + 1)
        BY <4>1 DEF Linked
      <4>3. QED
        BY <2>2, <3>2, <4>1, <4>2, NullAssumption
    <3>4. CASE Len(dirtied) < i
      <4>1. At(i) = Null /\ At(i + 1) = Null
        BY <3>4, RangeDirtied DEF At, FieldsOK
      <4>2. QED
        BY <2>2, <3>2, <4>1
    <3>5. QED
      BY <3>3, <3>4, RangeDirtied DEF FieldsOK
  <2>3. QED
    BY <2>1, <2>2
<1>2. QED
  BY <1>1, Zenon DEF IsHops

LEMMA HopsUnique ==
    ASSUME NEW n, NEW f, NEW g, IsHops(n, f), IsHops(n, g)
    PROVE  f = g
<1> DEFINE T == {i \in Nat : f[i] # g[i]}
<1>1. /\ \A i \in Nat : f[i] = IF i = 0 THEN n
                               ELSE IF f[i - 1] = Null THEN Null ELSE nextDirty[f[i - 1]]
      /\ \A i \in Nat : g[i] = IF i = 0 THEN n
                               ELSE IF g[i - 1] = Null THEN Null ELSE nextDirty[g[i - 1]]
  BY Zenon DEF IsHops
<1>2. T = {}
  <2>1. SUFFICES ASSUME T # {} PROVE FALSE
    OBVIOUS
  <2>2. PICK i \in T : \A j \in T : i <= j
    BY <2>1, LeastNatural
  <2>3. i \in Nat /\ f[i] # g[i]
    OBVIOUS
  <2>4. CASE i = 0
    BY <1>1, <2>3, <2>4
  <2>5. CASE i # 0
    <3>1. i - 1 \in Nat /\ ~(i <= i - 1)
      BY <2>3, <2>5
    <3>2. f[i - 1] = g[i - 1]
      BY <2>2, <3>1
    <3>3. QED
      BY <1>1, <2>3, <2>5, <3>2
  <2>6. QED
    BY <2>4, <2>5
<1>3. \A i \in Nat : f[i] = g[i]
  BY <1>2
<1>4. f = [i \in Nat |-> f[i]] /\ g = [i \in Nat |-> g[i]]
  BY DEF IsHops
<1>5. QED
  BY <1>3, <1>4

LEMMA HopsFollowHistory ==
    ASSUME FieldsOK, Linked
    PROVE  \A i \in Nat : Hops(firstDirty)[i] = At(i + 1)
<1>1. Hops(firstDirty) = CHOOSE f : IsHops(firstDirty, f)
  BY DEF Hops, IsHops
<1>2. IsHops(firstDirty, Hops(firstDirty))
  BY <1>1, HopsExist
<1>3. Hops(firstDirty) = [i \in Nat |-> At(i + 1)]
  BY <1>2, HopsExist, HopsUnique
<1>4. QED
  BY <1>3

(* No more nodes are listed than there are.                                 *)
LEMMA HistoryFits ==
    ASSUME FieldsOK, Linked
    PROVE  Cardinality(Nodes) \in Nat /\ Len(dirtied) <= Cardinality(Nodes)
<1>1. /\ Len(dirtied) \in Nat
      /\ dirtied \in [1 .. Len(dirtied) -> Nodes]
  BY RangeDirtied DEF FieldsOK
<1>2. \A i, j \in 1 .. Len(dirtied) : dirtied[i] = dirtied[j] => i = j
  BY DEF Linked
<1>3. dirtied \in Injection(1 .. Len(dirtied), Nodes)
  BY <1>1, <1>2 DEF Injection, IsInjective
<1>4. Cardinality(1 .. Len(dirtied)) <= Cardinality(Nodes)
  BY <1>3, NodesAssumption, FS_Injection
<1>5. Cardinality(1 .. Len(dirtied)) = Len(dirtied)
  BY <1>1, FS_Interval
<1>6. Cardinality(Nodes) \in Nat
  BY NodesAssumption, FS_CardinalityType
<1>7. QED
  BY <1>4, <1>5, <1>6

LEMMA ChainIsHistory == FieldsOK /\ Linked => Chain(firstDirty) = dirtied
<1> SUFFICES ASSUME FieldsOK, Linked
             PROVE  Chain(firstDirty) = dirtied
  OBVIOUS
<1> DEFINE bound == Cardinality(Nodes) + 1
           at    == Hops(firstDirty)
           End(i) == /\ at[i] = Null \/ i = bound
                     /\ \A j \in 0 .. i - 1 : at[j] # Null
           len   == CHOOSE i \in 0 .. bound : End(i)
<1>1. /\ Len(dirtied) \in 0 .. bound /\ Len(dirtied) # bound
      /\ Len(dirtied) \in Nat /\ bound \in Nat
  <2>1. PICK c \in Nat : c = Cardinality(Nodes) /\ Len(dirtied) <= c
    BY HistoryFits
  <2>2. PICK l \in Nat : l = Len(dirtied)
    BY AtProperties
  <2>3. QED
    BY <2>1, <2>2
<1>2. \A i \in Nat : at[i] = Null <=> Len(dirtied) <= i
  BY HopsFollowHistory, AtProperties
<1> HIDE DEF at, bound
<1>3. End(Len(dirtied))
  BY <1>1, <1>2
<1>4. ASSUME NEW i \in 0 .. bound, End(i)
      PROVE  i = Len(dirtied)
  <2>1. i \in Nat /\ (i < Len(dirtied) \/ i = Len(dirtied) \/ Len(dirtied) < i)
    BY <1>1
  <2>2. ~(i < Len(dirtied))
    BY <1>1, <1>2, <1>4, <2>1
  <2>3. ~(Len(dirtied) < i)
    <3>1. SUFFICES ASSUME Len(dirtied) < i PROVE FALSE
      OBVIOUS
    <3>2. Len(dirtied) \in 0 .. i - 1
      BY <1>1, <2>1, <3>1
    <3>3. QED
      BY <1>1, <1>2, <1>4, <3>2
  <2>4. QED
    BY <2>1, <2>2, <2>3
<1>5. len = Len(dirtied)
  <2> HIDE DEF End
  <2>1. len \in 0 .. bound /\ End(len)
    BY <1>1, <1>3
  <2>2. QED
    BY <1>4, <2>1
<1>6. Chain(firstDirty) = [i \in 1 .. len |-> at[i - 1]]
  BY DEF Chain, at, bound
<1> HIDE DEF len
<1>7. ASSUME NEW i \in 1 .. Len(dirtied)
      PROVE  at[i - 1] = dirtied[i]
  <2>1. i - 1 \in Nat /\ (i - 1) + 1 = i /\ i - 1 < Len(dirtied)
    BY <1>1
  <2>2. QED
    BY <2>1, HopsFollowHistory, AtProperties DEF at
<1>8. dirtied = [i \in 1 .. Len(dirtied) |-> dirtied[i]]
  BY RangeDirtied DEF FieldsOK
<1>9. QED
  BY <1>5, <1>6, <1>7, <1>8

(* Iterating over the links from mFirstDirty meets the nodes in the order   *)
(* of their last allocation: dirty() never drops one, repeats one or        *)
(* changes the order of two others.                                         *)
THEOREM LinksImplementOrder == Spec => IteratedInOrder
<1>1. Init => ByLinks!Init
  <2>1. Init => FieldsOK /\ Linked /\ dirtied = <<>>
    BY LinkedInit DEF Init
  <2>2. QED
    BY <2>1, ChainIsHistory DEF ByLinks!Init
<1>2. [Next]_vars => [History!Next]_dirtied
  BY DEF Next, Dirty, BeginFlush, FlushNext, History!Next, vars
<1>3. ASSUME Chain(firstDirty) = dirtied, Chain(firstDirty)' = dirtied',
             [History!Next]_dirtied
      PROVE  [ByLinks!Next]_(Chain(firstDirty))
  <2>1. ASSUME NEW n \in Nodes, History!Dirty(n)
        PROVE  ByLinks!Dirty(n)
    BY <1>3, <2>1, Zenon DEF History!Dirty, ByLinks!Dirty, History!Range, ByLinks!Range,
       History!MovedToEnd, ByLinks!MovedToEnd, History!RemoveAt, ByLinks!RemoveAt
  <2>2. QED
    BY <1>3, <2>1, Zenon DEF History!Next, ByLinks!Next
<1>4. (FieldsOK /\ Linked => Chain(firstDirty) = dirtied)'
  BY ChainIsHistory, PTL
<1>5. FieldsOK /\ Linked /\ FieldsOK' /\ Linked' /\ [Next]_vars
         => [ByLinks!Next]_(Chain(firstDirty))
  BY <1>2, <1>3, <1>4, ChainIsHistory, Zenon
<1>6. QED
  BY <1>1, <1>5, LinkedAlways, PTL DEF Spec, IteratedInOrder, ByLinks!Spec
=============================================================================
