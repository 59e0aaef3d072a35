------------------------- MODULE InternalNode_proofs -------------------------
(***************************************************************************)
(* For any capacity, pointer size, keys and number of nodes, and whatever  *)
(* order internal nodes are filled and split in: mBytes is off by exactly  *)
(* the constructor's pointer, a node that refuses a child can be split if  *)
(* the key is new to it, no pointer is lost or doubled by a split, and the *)
(* split key migrates.                                                     *)
(***************************************************************************)
EXTENDS InternalNode, NodeOps_proofs, FiniteSetTheorems

Child == {Entry(k, c) : k \in Keys \cup {Sentinel}, c \in Keys \cup Nodes}

SplitRecord == [sibling : Nodes, direction : {"LEFT", "RIGHT"}, key : Keys \cup {Sentinel}]

(* mBytes leaves the constructor's child out until a split has counted it.  *)
NeverSplit(n) ==
    split[n] = NoSplit /\ \A m \in nodes : split[m] # NoSplit => split[m].sibling # n

Typed ==
    /\ nodes \subseteq Nodes
    /\ children \in [Nodes -> Seq(Child)]
    /\ bytes \in [Nodes -> Nat]
    /\ split \in [Nodes -> SplitRecord \cup {NoSplit}]
    /\ aborted \in BOOLEAN

(* What has not been constructed yet is as the constructor leaves it, and   *)
(* nobody's sibling.                                                        *)
Untouched ==
    /\ \A n \in Nodes \ nodes : bytes[n] = 0 /\ split[n] = NoSplit
    /\ \A n \in nodes : split[n] # NoSplit => split[n].sibling \in nodes

(* An entry is at most a quarter of the node, or the pointer of a sentinel. *)
Fits(a) == a.size <= MaxEntry \/ a.size = PtrBytes

Modest == \A n \in Nodes : \A i \in 1 .. Len(children[n]) : Fits(children[n][i])

IInv == Typed /\ Untouched /\ Modest /\ BytesCounted

-----------------------------------------------------------------------------
(* Entries *)

LEMMA SizeNat ==
    /\ PtrBytes \in Nat
    /\ \A k \in Keys \cup {Sentinel} : EntrySize(k) \in Nat /\ EntrySize(k) >= PtrBytes
    /\ EntrySize(Sentinel) = PtrBytes
<1>1. PtrBytes \in Nat
  BY InternalAssumption
<1>2. Sentinel \notin Keys
  BY InternalAssumption DEF Sentinel
<1>3. \A k \in Keys : KeyBytes[k] \in Nat
  BY InternalAssumption
<1>4. QED
  BY <1>1, <1>2, <1>3 DEF EntrySize

LEMMA ChildFacts ==
    ASSUME NEW a \in Child
    PROVE  /\ a.key \in Keys \cup {Sentinel}
           /\ a.child \in Keys \cup Nodes
           /\ a.size = EntrySize(a.key) /\ a.size \in Nat
           /\ a.key \in Nat
<1>1. PICK k \in Keys \cup {Sentinel}, c \in Keys \cup Nodes : a = Entry(k, c)
  BY DEF Child
<1>2. a.key = k /\ a.child = c /\ a.size = EntrySize(k)
  BY <1>1 DEF Entry
<1>3. k \in Nat
  BY InternalAssumption DEF Sentinel
<1>4. QED
  BY <1>2, <1>3, SizeNat

LEMMA EntryIsChild ==
    ASSUME NEW k \in Keys \cup {Sentinel}, NEW c \in Keys \cup Nodes
    PROVE  /\ Entry(k, c) \in Child
           /\ Entry(k, c).key = k
           /\ Entry(k, c).child = c
           /\ Entry(k, c).size = EntrySize(k)
  BY DEF Child, Entry

LEMMA ChildrenFacts ==
    ASSUME NEW s \in Seq(Child)
    PROVE  /\ Len(s) \in Nat
           /\ DOMAIN s = 1 .. Len(s)
           /\ \A i \in 1 .. Len(s) : s[i] \in Child
           /\ Sized(s)
<1>1. Len(s) \in Nat /\ DOMAIN s = 1 .. Len(s) /\ \A i \in 1 .. Len(s) : s[i] \in Child
  BY LenProperties, ElementOfSeq
<1>2. \A i \in 1 .. Len(s) : s[i].size \in Nat
  BY <1>1, ChildFacts
<1>3. QED
  BY <1>1, <1>2 DEF Sized

(* A vector of children has a total. *)
LEMMA TotalNat ==
    ASSUME NEW s \in Seq(Child)
    PROVE  BytesUsed(s) \in Nat
<1>1. \A i \in 0 .. Len(s) : RunningTotal(s)[i] \in Nat
  BY ChildrenFacts, TotalsAreNatural
<1>2. QED
  BY <1>1, ChildrenFacts DEF BytesUsed

(* Two children that fit a quarter of the node each take at most half.      *)
LEMMA FewFit ==
    ASSUME NEW s \in Seq(Child), NEW most \in Nat,
           \A i \in 1 .. Len(s) : s[i].size <= most, Len(s) < 3
    PROVE  BytesUsed(s) <= most + most
  BY ChildrenFacts, TotalOfFew

(* The constructor's entry alone amounts to one pointer. *)
LEMMA ConstructedTotal ==
    ASSUME NEW n \in Nodes
    PROVE  /\ Constructed(n) \in Seq(Child)
           /\ Len(Constructed(n)) = 1
           /\ Constructed(n)[1] = Entry(Sentinel, n)
           /\ BytesUsed(Constructed(n)) = PtrBytes
<1>1. Entry(Sentinel, n) \in Child /\ Entry(Sentinel, n).size = PtrBytes
  BY EntryIsChild, SizeNat
<1>2. PICK s : s = Constructed(n)
  OBVIOUS
<1>3. s \in Seq(Child) /\ Len(s) = 1 /\ s[1] = Entry(Sentinel, n)
  BY <1>1, <1>2 DEF Constructed
<1>4. PICK t : t = RunningTotal(s)
  OBVIOUS
<1>5. t[0] = 0 /\ t[1] = t[0] + s[1].size
  <2>1. Sized(s) /\ 1 \in 1 .. Len(s) /\ 1 - 1 = 0
    BY <1>3, ChildrenFacts
  <2>2. RunningTotal(s)[1] = RunningTotal(s)[1 - 1] + s[1].size
    BY <2>1, TotalFacts
  <2>3. QED
    BY <1>4, <2>1, <2>2, TotalFacts
<1>6. t[1] = PtrBytes
  BY <1>1, <1>3, <1>5, SizeNat
<1>7. BytesUsed(s) = PtrBytes
  BY <1>3, <1>4, <1>6 DEF BytesUsed
<1>8. QED
  BY <1>2, <1>3, <1>7

(* u is s with e behind the first pos children. *)
Filed(s, pos, e, u) ==
    /\ u \in Seq(Child)
    /\ Len(u) = Len(s) + 1
    /\ u[pos + 1] = e
    /\ \A i \in 1 .. pos : u[i] = s[i]
    /\ \A i \in pos + 1 .. Len(s) : u[i + 1] = s[i]
    /\ BytesUsed(u) = BytesUsed(s) + e.size

LEMMA InsertedFacts ==
    ASSUME NEW s \in Seq(Child), NEW e \in Child, NEW pos \in 0 .. Len(s), NEW u,
           u = InsertAt(s, pos + 1, e)
    PROVE  Filed(s, pos, e, u)
<1>1. Len(s) \in Nat
  BY ChildrenFacts
<1>2. PICK p \in 1 .. Len(s) + 1 : p = pos + 1
  BY <1>1
<1>3. /\ InsertAt(s, p, e) \in Seq(Child)
      /\ Len(InsertAt(s, p, e)) = Len(s) + 1
      /\ InsertAt(s, p, e)[p] = e
      /\ \A j \in 1 .. Len(s) + 1 : /\ j < p => InsertAt(s, p, e)[j] = s[j]
                                    /\ p < j => InsertAt(s, p, e)[j] = s[j - 1]
  BY InsertAtProperties
<1>4. /\ u \in Seq(Child)
      /\ Len(u) = Len(s) + 1
      /\ u[p] = e
      /\ \A j \in 1 .. Len(s) + 1 : /\ j < p => u[j] = s[j]
                                    /\ p < j => u[j] = s[j - 1]
  BY <1>2, <1>3, Zenon
<1>5. BytesUsed(u) = BytesUsed(s) + e.size
  <2>1. Sized(s)
    BY ChildrenFacts
  <2>2. Sized(u)
    BY <1>4, ChildrenFacts
  <2>3. e.size \in Nat
    BY ChildFacts
  <2>4. PICK r : r = s
    OBVIOUS
  <2>5. PICK v : v = u
    OBVIOUS
  <2>6. PICK a : a = e
    OBVIOUS
  <2>7. /\ Sized(r) /\ Sized(v) /\ p \in 1 .. Len(r) + 1
        /\ a.size \in Nat /\ Len(v) = Len(r) + 1 /\ v[p] = a
        /\ \A j \in 1 .. Len(r) + 1 : (j < p => v[j] = r[j]) /\ (p < j => v[j] = r[j - 1])
    BY <1>4, <2>1, <2>2, <2>3, <2>4, <2>5, <2>6, Zenon
  <2>8. BytesUsed(v) = BytesUsed(r) + a.size
    BY <2>7, InsertAddsSize
  <2>9. QED
    BY <2>4, <2>5, <2>6, <2>8
<1>6. \A i \in 1 .. pos : u[i] = s[i]
  <2>1. \A i \in 1 .. pos : i \in 1 .. Len(s) + 1 /\ i < p
    BY <1>1, <1>2
  <2>2. QED
    BY <1>4, <2>1
<1>7. ASSUME NEW i \in pos + 1 .. Len(s)
      PROVE  u[i + 1] = s[i]
  <2>1. i + 1 \in 1 .. Len(s) + 1 /\ p < i + 1 /\ (i + 1) - 1 = i
    BY <1>1, <1>2
  <2>2. u[i + 1] = s[(i + 1) - 1]
    BY <1>4, <2>1
  <2>3. QED
    BY <2>1, <2>2
<1>8. QED
  BY <1>2, <1>4, <1>5, <1>6, <1>7 DEF Filed

-----------------------------------------------------------------------------
(* Steps *)

Storing(n, key, pos) == pos \in 0 .. Len(children[n]) /\ Inserted(n, pos, key)

Splitting(n, key, pos, sibling) ==
    /\ children[sibling] = Constructed(sibling)
    /\ IsBoundary(children[n], 0, key, pos)
    /\ SplitStores(n, key, sibling, pos)

(* Every call fails without effect, inserts, or splits. *)
LEMMA StepKinds ==
    ASSUME IInv, Next
    PROVE  \/ UNCHANGED vars
           \/ \E n \in Nodes : Construct(n)
           \/ \E n \in nodes, key \in Keys, pos \in Nat : Storing(n, key, pos)
           \/ \E n \in nodes, key \in Keys, pos \in Nat, sibling \in nodes :
                  sibling # n /\ Splitting(n, key, pos, sibling)
<1>1. CASE \E n \in Nodes : Construct(n)
  BY <1>1
<1>2. ASSUME NEW n \in nodes, NEW key \in Offered(n),
             Insert(n, key) \/ InsertBeside(n, key) \/ Split(n, key)
      PROVE  \/ UNCHANGED vars
             \/ \E pos \in Nat : Storing(n, key, pos)
             \/ \E pos \in Nat, sibling \in nodes :
                    sibling # n /\ Splitting(n, key, pos, sibling)
  <2>1. n \in Nodes /\ children[n] \in Seq(Child) /\ Len(children[n]) \in Nat
    BY ChildrenFacts DEF IInv, Typed
  <2>2. CASE Insert(n, key)
    <3>1. PICK pos \in 1 .. Len(children[n]) :
            UNCHANGED vars \/ InsertAtPosition(n, pos - 1, key)
      BY <2>2 DEF Insert
    <3>2. pos - 1 \in Nat /\ pos - 1 \in 0 .. Len(children[n])
      BY <2>1
    <3>3. UNCHANGED vars \/ Storing(n, key, pos - 1)
      BY <3>1, <3>2 DEF InsertAtPosition, NotInserted, Storing
    <3>4. QED
      BY <3>2, <3>3
  <2>3. CASE InsertBeside(n, key)
    <3>1. PICK i \in 1 .. Len(children[n]), direction \in {"LEFT", "RIGHT"} :
              InsertAtPosition(n, IF direction = "RIGHT" THEN i ELSE i - 1, key)
      BY <2>1, <2>3, ChildrenFacts DEF InsertBeside
    <3>2. PICK pos \in Nat : pos = IF direction = "RIGHT" THEN i ELSE i - 1
      BY <2>1
    <3>3. pos \in 0 .. Len(children[n])
      BY <2>1, <3>2
    <3>4. UNCHANGED vars \/ Storing(n, key, pos)
      BY <3>1, <3>2, <3>3 DEF InsertAtPosition, NotInserted, Storing
    <3>5. QED
      BY <3>4
  <2>4. CASE Split(n, key)
    <3>1. PICK sibling \in nodes \ {n} :
            children[sibling] = Constructed(sibling) /\ SplitAndInsert(n, key, sibling)
      BY <2>4 DEF Split
    <3>2. PICK pos \in 0 .. Len(children[n]) :
            /\ IsBoundary(children[n], 0, key, pos)
            /\ SplitThrows(n, key, pos) \/ SplitStores(n, key, sibling, pos)
      BY <3>1 DEF SplitAndInsert
    <3>3. pos \in Nat
      BY <2>1
    <3>4. UNCHANGED vars \/ Splitting(n, key, pos, sibling)
      BY <3>1, <3>2 DEF SplitThrows, Splitting
    <3>5. QED
      BY <3>1, <3>3, <3>4
  <2>5. QED
    BY <1>2, <2>2, <2>3, <2>4
<1>3. ASSUME NEW n \in nodes
      PROVE  Offered(n) \subseteq Keys
  <2>1. n \in Nodes /\ children[n] \in Seq(Child)
    BY DEF IInv, Typed
  <2>2. \A i \in DOMAIN children[n] : children[n][i].key \in Keys \cup {Sentinel}
    BY <2>1, ChildrenFacts, ChildFacts
  <2>3. QED
    BY <2>2 DEF Offered, KeysIn
<1>4. QED
  BY <1>1, <1>2, <1>3 DEF Next

LEMMA InitInv == Init => IInv
<1> SUFFICES ASSUME Init PROVE IInv
  OBVIOUS
<1>1. Root \in Nodes /\ PtrBytes \in Nat
  BY InternalAssumption
<1>2. \A n \in Nodes : /\ Constructed(n) \in Seq(Child)
                       /\ BytesUsed(Constructed(n)) = PtrBytes
                       /\ Len(Constructed(n)) = 1
                       /\ Fits(Constructed(n)[1])
  BY ConstructedTotal, EntryIsChild, SizeNat DEF Fits
<1>3. children \in [Nodes -> Seq(Child)]
  BY <1>2, EmptySeq DEF Init
<1>4. Typed /\ Untouched
  BY <1>1, <1>3 DEF Init, Typed, Untouched
<1>5. BytesCounted
  <2>1. children[Root] = Constructed(Root) /\ bytes[Root] = 0 /\ NeverSplit(Root) /\ nodes = {Root}
    BY <1>1 DEF Init, NeverSplit
  <2>2. bytes[Root] = BytesUsed(children[Root]) - PtrBytes
    BY <1>1, <1>2, <2>1
  <2>3. QED
    BY <2>1, <2>2 DEF BytesCounted, NeverSplit
<1>6. Modest
  <2>1. ASSUME NEW n \in Nodes, NEW i \in 1 .. Len(children[n])
        PROVE  Fits(children[n][i])
    <3>1. CASE n = Root
      <4>1. children[n] = Constructed(n)
        BY <3>1 DEF Init
      <4>2. PICK c : c = Constructed(n)
        OBVIOUS
      <4>3. Len(c) = 1 /\ Fits(c[1]) /\ c = children[n]
        BY <1>2, <4>1, <4>2
      <4>4. i = 1
        <5>1. PICK l : l = Len(c)
          OBVIOUS
        <5>2. i \in 1 .. l
          BY <4>3, <5>1
        <5>3. l = 1
          BY <4>3, <5>1
        <5>4. QED
          BY <5>2, <5>3
      <4>5. QED
        BY <4>3, <4>4
    <3>2. CASE n # Root
      BY <3>2, EmptySeq DEF Init
    <3>3. QED
      BY <3>1, <3>2
  <2>2. QED
    BY <2>1 DEF Modest
<1>7. QED
  BY <1>4, <1>5, <1>6 DEF IInv

LEMMA ConstructInv ==
    ASSUME IInv, ~aborted, NEW n \in Nodes, Construct(n)
    PROVE  IInv'
<1>1. /\ n \notin nodes /\ nodes' = nodes \cup {n}
      /\ children' = [children EXCEPT ![n] = Constructed(n)]
      /\ bytes' = bytes /\ split' = split /\ aborted' = aborted
  BY DEF Construct
<1>2. /\ Constructed(n) \in Seq(Child)
      /\ BytesUsed(Constructed(n)) = PtrBytes
      /\ Len(Constructed(n)) = 1
      /\ Fits(Constructed(n)[1])
  BY ConstructedTotal, EntryIsChild, SizeNat DEF Fits
<1>3. children[n] \in Seq(Child) /\ bytes[n] = 0 /\ split[n] = NoSplit
  BY <1>1 DEF IInv, Typed, Untouched
<1>4. /\ children'[n] = Constructed(n)
      /\ \A x \in Nodes \ {n} : children'[x] = children[x]
  BY <1>1 DEF IInv, Typed
<1>5. Typed'
  BY <1>1, <1>2 DEF IInv, Typed
<1>6. Untouched'
  BY <1>1 DEF IInv, Untouched
<1>7. Modest'
  <2>1. ASSUME NEW x \in Nodes, NEW i \in 1 .. Len(children'[x])
        PROVE  Fits(children'[x][i])
    <3>1. CASE x = n
      <4>1. PICK c : c = Constructed(n)
        OBVIOUS
      <4>2. Len(c) = 1 /\ Fits(c[1]) /\ c = children'[x]
        BY <1>2, <1>4, <3>1, <4>1
      <4>3. i = 1
        <5>1. PICK l : l = Len(c)
          OBVIOUS
        <5>2. i \in 1 .. l
          BY <4>2, <5>1
        <5>3. l = 1
          BY <4>2, <5>1
        <5>4. QED
          BY <5>2, <5>3
      <4>4. QED
        BY <4>2, <4>3
    <3>2. CASE x # n
      BY <1>4, <3>2 DEF IInv, Modest
    <3>3. QED
      BY <3>1, <3>2
  <2>2. QED
    BY <2>1 DEF Modest, Fits
<1>8. BytesCounted'
  <2>1. \A x \in nodes : children'[x] = children[x] /\ (NeverSplit(x)' <=> NeverSplit(x))
    BY <1>1, <1>3, <1>4 DEF NeverSplit, IInv, Typed
  <2>2. NeverSplit(n)'
    BY <1>1, <1>3 DEF NeverSplit, IInv, Untouched
  <2>3. bytes'[n] = BytesUsed(children'[n]) - PtrBytes
    BY <1>1, <1>2, <1>3, <1>4, SizeNat
  <2>4. \A x \in nodes : bytes[x] = BytesUsed(children[x]) - IF NeverSplit(x) THEN PtrBytes ELSE 0
    BY DEF IInv, BytesCounted, NeverSplit
  <2>5. \A x \in nodes' :
            bytes'[x] = BytesUsed(children'[x]) - IF NeverSplit(x)' THEN PtrBytes ELSE 0
    BY <1>1, <2>1, <2>2, <2>3, <2>4
  <2>6. QED
    BY <2>5 DEF BytesCounted, NeverSplit
<1>9. QED
  BY <1>5, <1>6, <1>7, <1>8 DEF IInv

LEMMA StoreInv ==
    ASSUME IInv, ~aborted, NEW n \in nodes, NEW key \in Keys, NEW pos \in Nat,
           Storing(n, key, pos)
    PROVE  IInv'
<1> DEFINE e == Entry(key, key)
<1>1. /\ pos \in 0 .. Len(children[n])
      /\ ~TooBig(EntrySize(key))
      /\ children' = [children EXCEPT ![n] = InsertAt(children[n], pos + 1, e)]
      /\ bytes' = [bytes EXCEPT ![n] = bytes[n] + EntrySize(key)]
      /\ nodes' = nodes /\ split' = split /\ aborted' = aborted
  BY DEF Storing, Inserted
<1>2. n \in Nodes /\ children[n] \in Seq(Child) /\ bytes[n] \in Nat
  BY DEF IInv, Typed
<1>3. e \in Child /\ e.size = EntrySize(key) /\ EntrySize(key) \in Nat
  BY EntryIsChild, SizeNat
<1> HIDE DEF e
<1>4. PICK u : u = InsertAt(children[n], pos + 1, e)
  OBVIOUS
<1>5. /\ u \in Seq(Child)
      /\ Len(u) = Len(children[n]) + 1
      /\ u[pos + 1] = e
      /\ \A i \in 1 .. pos : u[i] = children[n][i]
      /\ \A i \in pos + 1 .. Len(children[n]) : u[i + 1] = children[n][i]
      /\ BytesUsed(u) = BytesUsed(children[n]) + e.size
  <2>1. Filed(children[n], pos, e, u)
    BY <1>1, <1>2, <1>3, <1>4, InsertedFacts
  <2>2. QED
    BY <2>1 DEF Filed
<1>6. /\ children'[n] = u /\ bytes'[n] = bytes[n] + EntrySize(key)
      /\ \A x \in Nodes \ {n} : children'[x] = children[x] /\ bytes'[x] = bytes[x]
  BY <1>1, <1>2, <1>4 DEF IInv, Typed
<1>7. Typed'
  BY <1>1, <1>2, <1>3, <1>4, <1>5 DEF IInv, Typed
<1>8. Untouched'
  BY <1>1, <1>6 DEF IInv, Untouched, Typed
<1>9. Modest'
  <2>1. Fits(e)
    BY <1>1, <1>3, InternalAssumption, CapacityAssumption DEF Fits, TooBig, MaxEntry
  <2>2. ASSUME NEW i \in 1 .. Len(u)
        PROVE  Fits(u[i])
    <3>1. Len(children[n]) \in Nat /\ \A j \in 1 .. Len(children[n]) : Fits(children[n][j])
      BY <1>2, ChildrenFacts DEF IInv, Modest
    <3>2. CASE i <= pos
      <4>1. i \in 1 .. pos /\ i \in 1 .. Len(children[n])
        BY <1>1, <3>1, <3>2
      <4>2. QED
        BY <1>5, <3>1, <4>1
    <3>3. CASE i = pos + 1
      BY <1>5, <2>1, <3>3
    <3>4. CASE pos + 1 < i
      <4>1. /\ i - 1 \in pos + 1 .. Len(children[n]) /\ (i - 1) + 1 = i
            /\ i - 1 \in 1 .. Len(children[n])
        BY <1>1, <1>5, <3>1, <3>4
      <4>2. u[(i - 1) + 1] = children[n][i - 1]
        BY <1>5, <4>1
      <4>3. QED
        BY <3>1, <4>1, <4>2
    <3>5. QED
      BY <3>1, <3>2, <3>3, <3>4
  <2>3. \A x \in Nodes : \A i \in 1 .. Len(children'[x]) : Fits(children'[x][i])
    BY <1>6, <2>2 DEF IInv, Modest
  <2>4. QED
    BY <2>3 DEF Modest, Fits
<1>10. BytesCounted'
  <2>1. \A x \in nodes : NeverSplit(x)' <=> NeverSplit(x)
    BY <1>1 DEF NeverSplit
  <2>2. \A x \in nodes : bytes[x] = BytesUsed(children[x]) - IF NeverSplit(x) THEN PtrBytes ELSE 0
    BY DEF IInv, BytesCounted, NeverSplit
  <2>3. bytes'[n] = BytesUsed(children'[n]) - IF NeverSplit(n) THEN PtrBytes ELSE 0
    BY <1>2, <1>3, <1>5, <1>6, <2>2, TotalNat, SizeNat
  <2>4. nodes \subseteq Nodes
    BY DEF IInv, Typed
  <2>5. \A x \in nodes' :
            bytes'[x] = BytesUsed(children'[x]) - IF NeverSplit(x)' THEN PtrBytes ELSE 0
    BY <1>1, <1>6, <2>1, <2>2, <2>3, <2>4
  <2>6. QED
    BY <2>5 DEF BytesCounted, NeverSplit
<1>11. QED
  BY <1>7, <1>8, <1>9, <1>10 DEF IInv

(* The sibling's first entry is the one that its constructor made.          *)
Prefixed(n, moved, t) ==
    /\ t \in Seq(Child)
    /\ t = Constructed(n) \o moved
    /\ Len(t) = Len(moved) + 1
    /\ t[1] = Entry(Sentinel, n)
    /\ \A i \in 1 .. Len(moved) : t[i + 1] = moved[i]

LEMMA PrefixedFacts ==
    ASSUME NEW n \in Nodes, NEW moved \in Seq(Child)
    PROVE  Prefixed(n, moved, Constructed(n) \o moved)
<1>1. PICK c \in Seq(Child) : c = Constructed(n) /\ Len(c) = 1 /\ c[1] = Entry(Sentinel, n)
  BY ConstructedTotal
<1>2. PICK t : t = c \o moved
  OBVIOUS
<1>3. /\ t \in Seq(Child)
      /\ Len(t) = Len(c) + Len(moved)
      /\ \A i \in 1 .. Len(c) + Len(moved) :
             t[i] = IF i <= Len(c) THEN c[i] ELSE moved[i - Len(c)]
  BY <1>2, ConcatProperties
<1>4. Len(moved) \in Nat
  BY ChildrenFacts
<1>5. t[1] = c[1]
  BY <1>1, <1>3, <1>4
<1>6. ASSUME NEW i \in 1 .. Len(moved)
      PROVE  t[i + 1] = moved[i]
  <2>1. /\ i + 1 \in 1 .. Len(c) + Len(moved)
        /\ ~(i + 1 <= Len(c)) /\ (i + 1) - Len(c) = i
    BY <1>1, <1>4
  <2>2. t[i + 1] = moved[(i + 1) - Len(c)]
    BY <1>3, <2>1
  <2>3. QED
    BY <2>1, <2>2
<1>7. QED
  BY <1>1, <1>2, <1>3, <1>4, <1>5, <1>6 DEF Prefixed

(* s is old with an empty key behind the cut; moved and kept are its halves *)
(* with the new child.                                                      *)
Divided(old, key, pos, s, m, moved, kept) ==
    /\ Len(s) = Len(old) /\ m \in Nat /\ 2 <= m /\ m < Len(s)
    /\ s[m + 1] = Entry(Sentinel, old[m + 1].child)
    /\ \A i \in 1 .. Len(s) : i # m + 1 => s[i] = old[i]
    /\ pos \in 0 .. Len(s)
    /\ Halves(s, pos, Entry(key, key), m, moved, kept)

LEMMA SplitFacts ==
    ASSUME IInv, NEW n \in nodes, NEW key \in Keys, NEW pos \in Nat, NEW sibling \in nodes,
           sibling # n, Splitting(n, key, pos, sibling)
    PROVE  \E s, moved, kept, t \in Seq(Child), m \in Nat :
               /\ m = SplitPoint(children[n])
               /\ Divided(children[n], key, pos, s, m, moved, kept)
               /\ Prefixed(sibling, moved, t)
               /\ children' = [children EXCEPT ![sibling] = t, ![n] = kept]
<1>1. n \in Nodes /\ sibling \in Nodes /\ children[n] \in Seq(Child)
  BY DEF IInv, Typed
<1>2. PICK old \in Seq(Child) : old = children[n]
  BY <1>1
<1>3. /\ Len(old) \in Nat /\ Len(old) >= 3 /\ DOMAIN old = 1 .. Len(old)
      /\ pos \in 0 .. Len(old)
  <2>1. ~(Len(old) < 3) /\ pos \in 0 .. Len(old)
    BY <1>2 DEF Splitting, SplitStores, SplitRefused, SplitNotRequired, IsBoundary
  <2>2. QED
    BY <2>1, ChildrenFacts
<1>4. PICK m \in Nat : m = SplitPoint(old) /\ 2 <= m /\ m < Len(old)
  BY <1>3 DEF SplitPoint
<1>5. m + 1 \in 1 .. Len(old)
  BY <1>3, <1>4
<1>6. old[m + 1].child \in Keys \cup Nodes
  BY <1>5, ChildrenFacts, ChildFacts
<1>7. PICK a \in Child : a = Entry(Sentinel, old[m + 1].child)
  BY <1>6, EntryIsChild
<1>8. PICK s : s = KeySwappedOut(old)
  OBVIOUS
<1>9. s = [old EXCEPT ![m + 1] = a]
  BY <1>4, <1>7, <1>8 DEF KeySwappedOut
<1>10. s \in Seq(Child) /\ Len(s) = Len(old)
  BY <1>3, <1>5, <1>9, ExceptSeq
<1>11. s[m + 1] = a /\ \A i \in 1 .. Len(s) : i # m + 1 => s[i] = old[i]
  BY <1>3, <1>5, <1>9, <1>10
<1>12. SplitPoint(s) = m
  BY <1>4, <1>10 DEF SplitPoint
<1>13. Entry(key, key) \in Child
  BY EntryIsChild
<1>14. /\ SiblingChildren(s, pos, Entry(key, key)) \in Seq(Child)
       /\ RemainingChildren(s, pos) \in Seq(Child)
       /\ Halves(s, pos, Entry(key, key), m, SiblingChildren(s, pos, Entry(key, key)),
                 RemainingChildren(s, pos))
  BY <1>3, <1>10, <1>12, <1>13, HalvesPointwise
<1>15. PICK moved \in Seq(Child), kept \in Seq(Child) :
          /\ moved = SiblingChildren(s, pos, Entry(key, key))
          /\ kept = RemainingChildren(s, pos)
          /\ Halves(s, pos, Entry(key, key), m, moved, kept)
  BY <1>14
<1>16. Divided(old, key, pos, s, m, moved, kept)
  BY <1>3, <1>4, <1>7, <1>10, <1>11, <1>15 DEF Divided
<1>17. PICK t : t = Constructed(sibling) \o moved
  OBVIOUS
<1>18. Prefixed(sibling, moved, t) /\ t \in Seq(Child)
  BY <1>1, <1>15, <1>17, PrefixedFacts DEF Prefixed
<1>19. children' = [children EXCEPT ![sibling] = t, ![n] = kept]
  <2>1. /\ children[sibling] = Constructed(sibling)
        /\ children' = [children EXCEPT
               ![sibling] = children[sibling] \o SiblingChildren(s, pos, Entry(key, key)),
               ![n]       = RemainingChildren(s, pos)]
    BY <1>2, <1>8 DEF Splitting, SplitStores
  <2>2. QED
    BY <1>15, <1>17, <2>1
<1>20. QED
  BY <1>2, <1>4, <1>10, <1>15, <1>16, <1>18, <1>19

(* A half holds old children, the new one, and the one the constructor      *)
(* filed.                                                                   *)
LEMMA DividedFits ==
    ASSUME NEW old \in Seq(Child), NEW s \in Seq(Child), NEW moved \in Seq(Child),
           NEW kept \in Seq(Child), NEW t \in Seq(Child), NEW m \in Nat,
           NEW key \in Keys, NEW pos \in Nat, NEW sibling \in Nodes,
           ~TooBig(EntrySize(key)),
           \A i \in 1 .. Len(old) : Fits(old[i]),
           Divided(old, key, pos, s, m, moved, kept),
           Prefixed(sibling, moved, t)
    PROVE  /\ \A i \in 1 .. Len(kept) : Fits(kept[i])
           /\ \A i \in 1 .. Len(t) : Fits(t[i])
<1>1. PICK a \in Child : a = Entry(key, key)
  BY EntryIsChild
<1>2. Fits(a)
  <2>1. a.size = EntrySize(key) /\ EntrySize(key) \in Nat
    BY <1>1, EntryIsChild, SizeNat
  <2>2. QED
    BY <2>1, CapacityAssumption DEF Fits, TooBig, MaxEntry
<1>3. \A c \in Keys \cup Nodes : Fits(Entry(Sentinel, c))
  BY EntryIsChild, SizeNat DEF Fits
<1>4. Len(s) \in Nat /\ Len(s) = Len(old) /\ m < Len(s) /\ pos \in 0 .. Len(s)
  BY ChildrenFacts DEF Divided
<1>5. \A i \in 1 .. Len(s) : Fits(s[i])
  <2>1. m + 1 \in 1 .. Len(old)
    BY <1>4
  <2>2. old[m + 1].child \in Keys \cup Nodes
    BY <2>1, ChildrenFacts, ChildFacts
  <2>3. Fits(s[m + 1])
    BY <1>3, <2>2 DEF Divided
  <2>4. \A i \in 1 .. Len(s) : i # m + 1 => Fits(s[i])
    BY <1>4 DEF Divided
  <2>5. QED
    BY <2>3, <2>4
<1>6. /\ \A i \in 1 .. Len(kept) : \E j \in 1 .. Len(s) : kept[i] = s[j]
      /\ \A i \in 1 .. Len(moved) : moved[i] = a \/ \E j \in 1 .. Len(s) : moved[i] = s[j]
  <2>1. Halves(s, pos, a, m, moved, kept)
    BY <1>1 DEF Divided
  <2>2. Covered(s, a, moved, kept)
    BY <1>4, <2>1, HalvesCover
  <2>3. QED
    BY <2>2 DEF Covered
<1>7. \A i \in 1 .. Len(moved) : Fits(moved[i])
  BY <1>2, <1>5, <1>6
<1>8. ASSUME NEW i \in 1 .. Len(t)
      PROVE  Fits(t[i])
  <2>1. Len(t) = Len(moved) + 1 /\ Len(moved) \in Nat
    BY ChildrenFacts DEF Prefixed
  <2>2. CASE i = 1
    BY <1>3, <2>2 DEF Prefixed
  <2>3. CASE i # 1
    <3>1. i - 1 \in 1 .. Len(moved) /\ (i - 1) + 1 = i
      BY <2>1, <2>3
    <3>2. t[(i - 1) + 1] = moved[i - 1]
      BY <3>1 DEF Prefixed
    <3>3. QED
      BY <1>7, <3>1, <3>2
  <2>4. QED
    BY <2>2, <2>3
<1>9. QED
  BY <1>5, <1>6, <1>8

LEMMA SplitInv ==
    ASSUME IInv, ~aborted, NEW n \in nodes, NEW key \in Keys, NEW pos \in Nat,
           NEW sibling \in nodes, sibling # n, Splitting(n, key, pos, sibling)
    PROVE  IInv'
<1>1. PICK s, moved, kept, t \in Seq(Child), m \in Nat :
          /\ m = SplitPoint(children[n])
          /\ Divided(children[n], key, pos, s, m, moved, kept)
          /\ Prefixed(sibling, moved, t)
          /\ children' = [children EXCEPT ![sibling] = t, ![n] = kept]
  BY SplitFacts
<1>2. PICK k : k = children[n][m + 1].key
  OBVIOUS
<1>3. PICK direction \in {"LEFT", "RIGHT"} : direction = Direction(children[n], pos)
  BY DEF Direction
<1>4. /\ ~TooBig(EntrySize(key)) /\ nodes' = nodes
      /\ RecordSplit(n, sibling, direction, k)
      /\ RecalculateBytes(n, sibling)
  BY <1>1, <1>2, <1>3 DEF Splitting, SplitStores, SplitRefused
<1>5. n \in Nodes /\ sibling \in Nodes /\ children[n] \in Seq(Child)
  BY DEF IInv, Typed
<1>6. k \in Keys \cup {Sentinel}
  <2>1. PICK old \in Seq(Child) : old = children[n]
    BY <1>5
  <2>2. Len(old) \in Nat /\ m < Len(old)
    BY <1>1, <2>1, ChildrenFacts DEF Divided
  <2>3. m + 1 \in 1 .. Len(old)
    BY <2>2
  <2>4. QED
    BY <1>2, <2>1, <2>3, ChildrenFacts, ChildFacts
<1>7. /\ children' \in [Nodes -> Seq(Child)]
      /\ children'[n] = kept /\ children'[sibling] = t
      /\ \A x \in Nodes : x # n /\ x # sibling => children'[x] = children[x]
  BY <1>1, <1>5 DEF IInv, Typed
<1>8. BytesUsed(kept) \in Nat /\ BytesUsed(t) \in Nat
  BY <1>1, TotalNat
<1>9. [sibling |-> sibling, direction |-> direction, key |-> k] \in SplitRecord
  BY <1>5, <1>6 DEF SplitRecord
<1>10. Typed'
  <2>1. bytes' \in [Nodes -> Nat]
    BY <1>4, <1>7, <1>8 DEF RecalculateBytes, IInv, Typed
  <2>2. split' \in [Nodes -> SplitRecord \cup {NoSplit}] /\ aborted' \in BOOLEAN
    BY <1>4, <1>9 DEF RecordSplit, IInv, Typed
  <2>3. QED
    BY <1>4, <1>7, <2>1, <2>2 DEF IInv, Typed
<1>11. Untouched'
  <2>1. \A x \in Nodes \ nodes : bytes'[x] = bytes[x] /\ split'[x] = split[x]
    BY <1>4, <1>5 DEF RecalculateBytes, RecordSplit, IInv, Typed
  <2>2. \A x \in nodes : split'[x] # NoSplit => split'[x].sibling \in nodes
    <3>1. \A x \in nodes : x # n => split'[x] = split[x]
      BY <1>4, <1>5 DEF RecordSplit, IInv, Typed
    <3>2. split'[n] = split[n] \/ split'[n].sibling = sibling
      BY <1>4, <1>5 DEF RecordSplit, IInv, Typed
    <3>3. QED
      BY <3>1, <3>2 DEF IInv, Untouched
  <2>3. QED
    BY <1>4, <2>1, <2>2 DEF IInv, Untouched
<1>12. Modest'
  <2>1. /\ \A i \in 1 .. Len(kept) : Fits(kept[i])
        /\ \A i \in 1 .. Len(t) : Fits(t[i])
    <3>1. \A i \in 1 .. Len(children[n]) : Fits(children[n][i])
      BY <1>5 DEF IInv, Modest
    <3>2. QED
      BY <1>1, <1>4, <1>5, <3>1, DividedFits
  <2>2. \A x \in Nodes : \A i \in 1 .. Len(children'[x]) : Fits(children'[x][i])
    BY <1>7, <2>1 DEF IInv, Modest
  <2>3. QED
    BY <2>2 DEF Modest, Fits
<1>13. BytesCounted'
  <2>1. CASE split[n] = NoSplit
    <3>1. /\ split' = [split EXCEPT ![n] = [sibling   |-> sibling,
                                            direction |-> direction,
                                            key       |-> k]]
          /\ aborted' = aborted
      BY <1>4, <2>1 DEF RecordSplit
    <3>2. bytes' = [bytes EXCEPT ![n]       = BytesUsed(children'[n]),
                                 ![sibling] = BytesUsed(children'[sibling])]
      BY <1>4, <3>1 DEF RecalculateBytes
    <3>3. split'[n].sibling = sibling /\ split'[n] # NoSplit
      <4>1. [sibling |-> sibling, direction |-> direction, key |-> k] # NoSplit
        BY <1>9, InternalAssumption DEF SplitRecord, Sentinel
      <4>2. QED
        BY <1>5, <3>1, <4>1 DEF IInv, Typed
    <3>4. ~NeverSplit(n)' /\ ~NeverSplit(sibling)'
      BY <1>4, <3>3 DEF NeverSplit
    <3>5. \A x \in nodes \ {n, sibling} : NeverSplit(x)' <=> NeverSplit(x)
      <4>1. \A x \in nodes \ {n} : split'[x] = split[x]
        BY <3>1 DEF IInv, Typed
      <4>2. QED
        BY <1>4, <2>1, <3>3, <4>1 DEF NeverSplit
    <3>6. /\ bytes'[n] = BytesUsed(children'[n])
          /\ bytes'[sibling] = BytesUsed(children'[sibling])
          /\ \A x \in Nodes \ {n, sibling} : bytes'[x] = bytes[x]
      BY <1>5, <3>2 DEF IInv, Typed
    <3>7. \A x \in nodes : bytes[x] = BytesUsed(children[x]) - IF NeverSplit(x) THEN PtrBytes ELSE 0
      BY DEF IInv, BytesCounted, NeverSplit
    <3>8. \A x \in {n, sibling} :
              bytes'[x] = BytesUsed(children'[x]) - IF NeverSplit(x)' THEN PtrBytes ELSE 0
      BY <1>7, <1>8, <3>4, <3>6
    <3>9. \A x \in nodes \ {n, sibling} :
              bytes'[x] = BytesUsed(children'[x]) - IF NeverSplit(x)' THEN PtrBytes ELSE 0
      BY <1>7, <3>5, <3>6, <3>7 DEF IInv, Typed
    <3>10. QED
      BY <1>4, <3>8, <3>9 DEF BytesCounted, NeverSplit
  <2>2. CASE split[n] # NoSplit
    BY <1>4, <2>2 DEF RecordSplit, BytesCounted
  <2>3. QED
    BY <2>1, <2>2
<1>14. QED
  BY <1>10, <1>11, <1>12, <1>13 DEF IInv

-----------------------------------------------------------------------------
(* Over every behaviour the variables keep their types, what is not         *)
(* constructed is nobody's sibling, no entry but a bare pointer exceeds a   *)
(* quarter of the node, and mBytes is accounted for as BytesCounted says.   *)
THEOREM Invariance == Spec => []IInv
<1>1. ASSUME IInv, [Next]_vars
      PROVE  IInv'
  <2>1. CASE UNCHANGED vars
    BY <1>1, <2>1 DEF vars, IInv, Typed, Untouched, Modest, Fits, BytesCounted
  <2>2. CASE Next
    <3>0. ~aborted
      BY <2>2 DEF Next
    <3>1. CASE \E n \in Nodes : Construct(n)
      BY <1>1, <3>0, <3>1, ConstructInv
    <3>2. CASE \E n \in nodes, key \in Keys, pos \in Nat : Storing(n, key, pos)
      BY <1>1, <3>0, <3>2, StoreInv
    <3>3. CASE \E n \in nodes, key \in Keys, pos \in Nat, sibling \in nodes :
                   sibling # n /\ Splitting(n, key, pos, sibling)
      BY <1>1, <3>0, <3>3, SplitInv
    <3>4. QED
      BY <1>1, <2>1, <2>2, <3>1, <3>2, <3>3, StepKinds
  <2>3. QED
    BY <1>1, <2>1, <2>2
<1>2. QED
  BY <1>1, InitInv, PTL DEF Spec

(* mBytes is the total of the entries for nodes that have taken part in a   *)
(* split, and one pointer short of it for the others.                       *)
THEOREM BytesAccounted == Spec => []BytesCounted
<1>1. IInv => BytesCounted
  BY DEF IInv
<1>2. QED
  BY <1>1, Invariance, PTL

(* Of the three reasons splitAndInsert has to throw, a node that answers    *)
(* insert with FAILED_NO_SPACE leaves one: the key is in it already.  Two   *)
(* entries of at most a quarter of the node each leave room for a third.    *)
THEOREM RefusalAllowsSplit == Spec => []RefusedCanSplit
<1>1. ASSUME IInv, ~aborted, NEW n \in nodes, NEW key \in Keys,
             ~TooBig(EntrySize(key)), EntrySize(key) > Available(bytes[n])
      PROVE  ~SplitNotRequired(children[n], bytes[n], EntrySize(key))
  <2>1. n \in Nodes /\ children[n] \in Seq(Child) /\ bytes[n] \in Nat
    BY <1>1 DEF IInv, Typed
  <2>2. PICK s \in Seq(Child) : s = children[n]
    BY <2>1
  <2>3. /\ MaxEntry \in Nat /\ Capacity \in Nat /\ SizeMod \in Nat /\ SizeMod >= 2 * Capacity
        /\ Capacity > 0 /\ 4 * MaxEntry <= Capacity
    BY CapacityAssumption DEF MaxEntry
  <2>4. EntrySize(key) \in Nat /\ EntrySize(key) <= MaxEntry /\ PtrBytes <= EntrySize(key)
        /\ PtrBytes \in Nat
    BY <1>1, <2>3, SizeNat DEF TooBig
  <2>5. \A i \in 1 .. Len(s) : s[i].size <= MaxEntry
    BY <1>1, <2>1, <2>2, <2>3, <2>4 DEF IInv, Modest, Fits
  <2>6. bytes[n] <= BytesUsed(s)
    <3>1. bytes[n] = BytesUsed(s) - IF NeverSplit(n) THEN PtrBytes ELSE 0
      BY <1>1, <2>2 DEF IInv, BytesCounted, NeverSplit
    <3>2. BytesUsed(s) \in Nat
      BY TotalNat
    <3>3. QED
      BY <2>4, <3>1, <3>2
  <2>7. ~(Len(s) < 3)
    <3>1. SUFFICES ASSUME Len(s) < 3 PROVE FALSE
      OBVIOUS
    <3>2. BytesUsed(s) <= MaxEntry + MaxEntry /\ BytesUsed(s) \in Nat
      BY <2>3, <2>5, <3>1, FewFit, TotalNat
    <3>3. PICK b \in Nat : b = bytes[n] /\ b <= MaxEntry + MaxEntry
      BY <2>1, <2>3, <2>6, <3>2
    <3>4. Available(b) = Capacity - b
      <4>1. PICK d \in Nat : d = Capacity - b /\ d < SizeMod
        BY <2>3, <3>3
      <4>2. d % SizeMod = d
        BY <2>3, <4>1
      <4>3. QED
        BY <4>1, <4>2 DEF Available
    <3>5. QED
      BY <1>1, <2>3, <2>4, <3>3, <3>4
  <2>8. ~(EntrySize(key) < Available(bytes[n]))
    <3>1. Available(bytes[n]) \in Nat
      BY <2>1, <2>3 DEF Available
    <3>2. QED
      BY <1>1, <2>4, <3>1
  <2>9. QED
    BY <2>2, <2>7, <2>8 DEF SplitNotRequired
<1>2. IInv => RefusedCanSplit
  BY <1>1 DEF RefusedCanSplit, SplitRefused
<1>3. QED
  BY <1>2, Invariance, PTL

-----------------------------------------------------------------------------
(* How often the children are filed *)

Places(s, c) == {i \in 1 .. Len(s) : s[i].child = c}

LEMMA TimesArePlaces ==
    ASSUME NEW s \in Seq(Child), NEW c
    PROVE  /\ Times(s, c) = Cardinality(Places(s, c))
           /\ IsFiniteSet(Places(s, c))
           /\ Times(s, c) \in Nat
<1>1. Len(s) \in Nat /\ DOMAIN s = 1 .. Len(s)
  BY ChildrenFacts
<1>2. IsFiniteSet(1 .. Len(s)) /\ Places(s, c) \in SUBSET (1 .. Len(s))
  BY <1>1, FS_Interval DEF Places
<1>3. IsFiniteSet(Places(s, c))
  BY <1>2, FS_Subset
<1>4. QED
  BY <1>1, <1>3, FS_CardinalityType DEF Times, Places

LEMMA CountedTwice ==
    ASSUME NEW S, NEW T, NEW f \in Bijection(S, T), IsFiniteSet(S)
    PROVE  Cardinality(T) = Cardinality(S)
  BY FS_Bijection DEF ExistsBijection

LEMMA TimesAdd ==
    ASSUME NEW a \in Seq(Child), NEW b \in Seq(Child), NEW c
    PROVE  Times(a \o b, c) = Times(a, c) + Times(b, c)
<1>0. PICK t : t = a \o b
  OBVIOUS
<1>1. /\ t \in Seq(Child)
      /\ Len(t) = Len(a) + Len(b)
      /\ \A i \in 1 .. Len(a) + Len(b) : t[i] = IF i <= Len(a) THEN a[i] ELSE b[i - Len(a)]
  BY <1>0, ConcatProperties
<1>2. Len(a) \in Nat /\ Len(b) \in Nat
  BY ChildrenFacts
<1> DEFINE A == Places(a, c)
           B == Places(b, c)
           R == {i \in Len(a) + 1 .. Len(t) : t[i].child = c}
           f == [i \in B |-> i + Len(a)]
<1>3. \A i \in 1 .. Len(a) : i \in 1 .. Len(t) /\ t[i] = a[i]
  BY <1>1, <1>2
<1>4. \A i \in 1 .. Len(b) : i + Len(a) \in Len(a) + 1 .. Len(t) /\ t[i + Len(a)] = b[i]
  <2>1. ASSUME NEW i \in 1 .. Len(b)
        PROVE  i + Len(a) \in Len(a) + 1 .. Len(t) /\ t[i + Len(a)] = b[i]
    <3>1. /\ i + Len(a) \in 1 .. Len(a) + Len(b) /\ ~(i + Len(a) <= Len(a))
          /\ (i + Len(a)) - Len(a) = i /\ i + Len(a) \in Len(a) + 1 .. Len(t)
      BY <1>1, <1>2
    <3>2. t[i + Len(a)] = b[(i + Len(a)) - Len(a)]
      BY <1>1, <3>1
    <3>3. QED
      BY <3>1, <3>2
  <2>2. QED
    BY <2>1
<1>5. Places(t, c) = A \cup R
  <2>1. 1 .. Len(t) = (1 .. Len(a)) \cup (Len(a) + 1 .. Len(t))
    BY <1>1, <1>2
  <2>2. \A i \in 1 .. Len(a) : t[i].child = c <=> a[i].child = c
    BY <1>3
  <2>3. QED
    BY <2>1, <2>2 DEF Places
<1>6. A \cap R = {}
  BY <1>2 DEF Places
<1>7. f \in Bijection(B, R)
  <2>1. f \in [B -> R]
    BY <1>4 DEF Places
  <2>2. f \in Injection(B, R)
    BY <1>2, <2>1 DEF Injection, IsInjective, Places
  <2>3. ASSUME NEW j \in R
        PROVE  \E i \in B : f[i] = j
    <3>1. j - Len(a) \in 1 .. Len(b) /\ (j - Len(a)) + Len(a) = j
      BY <1>1, <1>2
    <3>2. t[j] = b[j - Len(a)]
      BY <1>4, <3>1
    <3>3. j - Len(a) \in B
      BY <3>1, <3>2 DEF Places
    <3>4. QED
      BY <3>1, <3>3
  <2>4. f \in Surjection(B, R)
    BY <2>1, <2>3 DEF Surjection
  <2>5. QED
    BY <2>2, <2>4 DEF Bijection
<1> HIDE DEF f, R, A, B
<1>8. /\ IsFiniteSet(A) /\ Cardinality(A) = Times(a, c)
      /\ IsFiniteSet(B) /\ Cardinality(B) = Times(b, c)
      /\ Times(a, c) \in Nat /\ Times(b, c) \in Nat
  BY TimesArePlaces DEF A, B
<1>9. IsFiniteSet(R) /\ Cardinality(R) = Times(b, c)
  BY <1>7, <1>8, CountedTwice, FS_Bijection DEF ExistsBijection
<1>10. Cardinality(A \cap R) = 0
  BY <1>6, FS_EmptySet
<1>11. Cardinality(A \cup R) = Cardinality(A) + Cardinality(R) - Cardinality(A \cap R)
  BY <1>8, <1>9, FS_Union
<1>12. Times(t, c) = Cardinality(A \cup R)
  BY <1>1, <1>5, TimesArePlaces
<1>13. QED
  BY <1>0, <1>8, <1>9, <1>10, <1>11, <1>12

(* u is s with e behind the first pos children, whatever their sizes.       *)
Spliced(s, pos, e, u) ==
    /\ Len(u) = Len(s) + 1
    /\ u[pos + 1] = e
    /\ \A i \in 1 .. pos : u[i] = s[i]
    /\ \A i \in pos + 1 .. Len(s) : u[i + 1] = s[i]

LEMMA TimesSpliced ==
    ASSUME NEW s \in Seq(Child), NEW e \in Child, NEW pos \in 0 .. Len(s), NEW u \in Seq(Child),
           Spliced(s, pos, e, u), NEW c
    PROVE  Times(u, c) = Times(s, c) + IF e.child = c THEN 1 ELSE 0
<1>1. /\ Len(s) \in Nat /\ Len(u) = Len(s) + 1 /\ pos \in Nat /\ pos <= Len(s)
      /\ u[pos + 1] = e
      /\ \A i \in 1 .. pos : u[i] = s[i]
      /\ \A i \in pos + 1 .. Len(s) : u[i + 1] = s[i]
  BY ChildrenFacts DEF Spliced
<1> DEFINE P == Places(s, c)
           Q == Places(u, c)
           f == [i \in P |-> IF i <= pos THEN i ELSE i + 1]
<1>2. /\ IsFiniteSet(P) /\ Cardinality(P) = Times(s, c) /\ Times(s, c) \in Nat
      /\ IsFiniteSet(Q) /\ Cardinality(Q) = Times(u, c) /\ Times(u, c) \in Nat
  BY TimesArePlaces
<1>3. f \in Bijection(P, Q \ {pos + 1})
  <2>1. ASSUME NEW i \in P
        PROVE  f[i] \in Q \ {pos + 1}
    <3>1. i \in 1 .. Len(s) /\ s[i].child = c
      BY DEF Places
    <3>2. CASE i <= pos
      <4>1. i \in 1 .. pos /\ i \in 1 .. Len(u) /\ i # pos + 1
        BY <1>1, <3>1, <3>2
      <4>2. u[i] = s[i] /\ f[i] = i
        BY <1>1, <3>2, <4>1
      <4>3. QED
        BY <3>1, <4>1, <4>2 DEF Places
    <3>3. CASE ~(i <= pos)
      <4>1. i \in pos + 1 .. Len(s) /\ i + 1 \in 1 .. Len(u) /\ i + 1 # pos + 1
        BY <1>1, <3>1, <3>3
      <4>2. u[i + 1] = s[i] /\ f[i] = i + 1
        BY <1>1, <3>3, <4>1
      <4>3. QED
        BY <3>1, <4>1, <4>2 DEF Places
    <3>4. QED
      BY <3>2, <3>3
  <2>2. f \in [P -> Q \ {pos + 1}]
    BY <2>1
  <2>3. f \in Injection(P, Q \ {pos + 1})
    <3>1. \A i, j \in P : f[i] = f[j] => i = j
      BY <1>1 DEF Places
    <3>2. QED
      BY <2>2, <3>1 DEF Injection, IsInjective
  <2>4. ASSUME NEW j \in Q \ {pos + 1}
        PROVE  \E i \in P : f[i] = j
    <3>1. j \in 1 .. Len(u) /\ u[j].child = c /\ j # pos + 1
      BY DEF Places
    <3>2. CASE j <= pos
      <4>1. j \in 1 .. pos /\ j \in 1 .. Len(s)
        BY <1>1, <3>1, <3>2
      <4>2. j \in P
        BY <1>1, <3>1, <4>1 DEF Places
      <4>3. QED
        BY <3>2, <4>2
    <3>3. CASE ~(j <= pos)
      <4>1. /\ j - 1 \in pos + 1 .. Len(s) /\ j - 1 \in 1 .. Len(s)
            /\ (j - 1) + 1 = j /\ ~(j - 1 <= pos)
        BY <1>1, <3>1, <3>3
      <4>2. u[(j - 1) + 1] = s[j - 1]
        BY <1>1, <4>1
      <4>3. j - 1 \in P
        BY <3>1, <4>1, <4>2 DEF Places
      <4>4. QED
        BY <4>1, <4>3
    <3>4. QED
      BY <3>2, <3>3
  <2>5. f \in Surjection(P, Q \ {pos + 1})
    BY <2>2, <2>4 DEF Surjection
  <2>6. QED
    BY <2>3, <2>5 DEF Bijection
<1>4. pos + 1 \in Q <=> e.child = c
  <2>1. pos + 1 \in 1 .. Len(u)
    BY <1>1
  <2>2. QED
    BY <1>1, <2>1 DEF Places
<1> HIDE DEF P, Q, f
<1>5. Cardinality(Q \ {pos + 1}) = Times(s, c)
  BY <1>2, <1>3, CountedTwice
<1>6. Cardinality(Q \ {pos + 1}) = IF pos + 1 \in Q THEN Cardinality(Q) - 1 ELSE Cardinality(Q)
  BY <1>2, FS_RemoveElement
<1>7. QED
  BY <1>2, <1>4, <1>5, <1>6

(* The two halves, one behind the other, are the old children and the new.  *)
LEMMA HalvesSpliced ==
    ASSUME NEW s \in Seq(Child), NEW e \in Child, NEW pos \in 0 .. Len(s), NEW m \in Nat,
           m < Len(s), NEW moved \in Seq(Child), NEW kept \in Seq(Child),
           Halves(s, pos, e, m, moved, kept)
    PROVE  /\ pos < m => Spliced(s, pos, e, moved \o kept)
           /\ ~(pos < m) => Spliced(s, pos, e, kept \o moved)
<1>1. Len(s) \in Nat /\ Len(moved) \in Nat /\ Len(kept) \in Nat /\ pos \in Nat /\ pos <= Len(s)
  BY ChildrenFacts
<1>2. ASSUME pos < m
      PROVE  Spliced(s, pos, e, moved \o kept)
  <2>0. PICK u : u = moved \o kept
    OBVIOUS
  <2>1. /\ u \in Seq(Child)
        /\ Len(u) = Len(moved) + Len(kept)
        /\ \A i \in 1 .. Len(moved) + Len(kept) :
               u[i] = IF i <= Len(moved) THEN moved[i] ELSE kept[i - Len(moved)]
    BY <2>0, ConcatProperties
  <2>2. /\ Len(moved) = m + 1 /\ Len(kept) = Len(s) - m
        /\ \A i \in 1 .. pos : moved[i] = s[i]
        /\ moved[pos + 1] = e
        /\ \A i \in pos + 1 .. m : moved[i + 1] = s[i]
        /\ \A i \in m + 1 .. Len(s) : kept[i - m] = s[i]
    BY <1>2 DEF Halves
  <2>3. Len(u) = Len(s) + 1
    BY <1>1, <2>1, <2>2
  <2>4. \A i \in 1 .. m + 1 : u[i] = moved[i]
    <3>1. \A i \in 1 .. m + 1 : i \in 1 .. Len(moved) + Len(kept) /\ i <= Len(moved)
      BY <1>1, <2>2
    <3>2. QED
      BY <2>1, <3>1
  <2>5. u[pos + 1] = e /\ \A i \in 1 .. pos : u[i] = s[i]
    <3>1. pos + 1 \in 1 .. m + 1 /\ \A i \in 1 .. pos : i \in 1 .. m + 1
      BY <1>1, <1>2
    <3>2. QED
      BY <2>2, <2>4, <3>1
  <2>6. ASSUME NEW i \in pos + 1 .. Len(s)
        PROVE  u[i + 1] = s[i]
    <3>1. CASE i <= m
      <4>1. i \in pos + 1 .. m /\ i + 1 \in 1 .. m + 1
        BY <1>1, <3>1
      <4>2. QED
        BY <2>2, <2>4, <4>1
    <3>2. CASE ~(i <= m)
      <4>1. /\ i \in m + 1 .. Len(s) /\ i + 1 \in 1 .. Len(moved) + Len(kept)
            /\ ~(i + 1 <= Len(moved)) /\ (i + 1) - Len(moved) = i - m
        BY <1>1, <2>2, <3>2
      <4>2. u[i + 1] = kept[(i + 1) - Len(moved)]
        BY <2>1, <4>1
      <4>3. QED
        BY <2>2, <4>1, <4>2
    <3>3. QED
      BY <3>1, <3>2
  <2>7. QED
    BY <2>0, <2>3, <2>5, <2>6 DEF Spliced
<1>3. ASSUME ~(pos < m)
      PROVE  Spliced(s, pos, e, kept \o moved)
  <2>0. PICK u : u = kept \o moved
    OBVIOUS
  <2>1. /\ u \in Seq(Child)
        /\ Len(u) = Len(kept) + Len(moved)
        /\ \A i \in 1 .. Len(kept) + Len(moved) :
               u[i] = IF i <= Len(kept) THEN kept[i] ELSE moved[i - Len(kept)]
    BY <2>0, ConcatProperties
  <2>2. /\ Len(moved) = Len(s) + 1 - m /\ Len(kept) = m
        /\ \A i \in 1 .. m : kept[i] = s[i]
        /\ \A i \in m + 1 .. pos : moved[i - m] = s[i]
        /\ moved[pos + 1 - m] = e
        /\ \A i \in pos + 1 .. Len(s) : moved[i + 1 - m] = s[i]
    BY <1>3 DEF Halves
  <2>3. Len(u) = Len(s) + 1
    BY <1>1, <2>1, <2>2
  <2>4. /\ \A i \in 1 .. m : u[i] = kept[i]
        /\ \A i \in m + 1 .. Len(s) + 1 : u[i] = moved[i - m]
    BY <1>1, <2>1, <2>2
  <2>5. u[pos + 1] = e
    <3>1. pos + 1 \in m + 1 .. Len(s) + 1
      BY <1>1, <1>3
    <3>2. u[pos + 1] = moved[(pos + 1) - m]
      BY <2>4, <3>1
    <3>3. QED
      BY <2>2, <3>2
  <2>6. ASSUME NEW i \in 1 .. pos
        PROVE  u[i] = s[i]
    <3>1. CASE i <= m
      <4>1. i \in 1 .. m
        BY <1>1, <3>1
      <4>2. QED
        BY <2>2, <2>4, <4>1
    <3>2. CASE ~(i <= m)
      <4>1. i \in m + 1 .. pos /\ i \in m + 1 .. Len(s) + 1
        BY <1>1, <3>2
      <4>2. QED
        BY <2>2, <2>4, <4>1
    <3>3. QED
      BY <3>1, <3>2
  <2>7. ASSUME NEW i \in pos + 1 .. Len(s)
        PROVE  u[i + 1] = s[i]
    <3>1. i + 1 \in m + 1 .. Len(s) + 1
      BY <1>1, <1>3
    <3>2. QED
      BY <2>2, <2>4, <3>1
  <2>8. QED
    BY <2>0, <2>3, <2>5, <2>6, <2>7 DEF Spliced
<1>4. QED
  BY <1>2, <1>3

(* The halves together hold a child as often as the node did, the new one   *)
(* once more.                                                               *)
LEMMA TimesDivided ==
    ASSUME NEW old \in Seq(Child), NEW s \in Seq(Child), NEW moved \in Seq(Child),
           NEW kept \in Seq(Child), NEW m \in Nat, NEW key \in Keys, NEW pos \in Nat,
           Divided(old, key, pos, s, m, moved, kept), NEW c
    PROVE  Times(kept, c) + Times(moved, c) = Times(old, c) + IF c = key THEN 1 ELSE 0
<1>1. PICK a \in Child : a = Entry(key, key) /\ a.child = key
  BY EntryIsChild
<1>2. /\ Len(s) \in Nat /\ Len(s) = Len(old) /\ m < Len(s) /\ pos \in 0 .. Len(s)
  BY ChildrenFacts DEF Divided
<1>3. Halves(s, pos, a, m, moved, kept)
  BY <1>1 DEF Divided
<1>4. Times(s, c) = Times(old, c)
  <2>1. m + 1 \in 1 .. Len(s)
    BY <1>2
  <2>2. s[m + 1].child = old[m + 1].child
    <3>1. PICK x \in Keys \cup Nodes : x = old[m + 1].child
      BY <1>2, <2>1, ChildrenFacts, ChildFacts
    <3>2. s[m + 1] = Entry(Sentinel, x)
      BY <3>1 DEF Divided
    <3>3. Entry(Sentinel, x).child = x
      BY EntryIsChild
    <3>4. QED
      BY <3>1, <3>2, <3>3
  <2>3. \A i \in 1 .. Len(s) : i # m + 1 => s[i] = old[i]
    BY DEF Divided
  <2>4. \A i \in 1 .. Len(s) : s[i].child = old[i].child
    BY <2>2, <2>3
  <2>5. Places(s, c) = Places(old, c)
    BY <1>2, <2>4 DEF Places
  <2>6. QED
    BY <2>5, TimesArePlaces
<1>5. /\ Times(kept, c) \in Nat /\ Times(moved, c) \in Nat /\ Times(s, c) \in Nat
      /\ kept \o moved \in Seq(Child) /\ moved \o kept \in Seq(Child)
  BY TimesArePlaces, ConcatProperties
<1>6. CASE pos < m
  <2>0. PICK u \in Seq(Child) : u = moved \o kept
    BY <1>5
  <2>1. Spliced(s, pos, a, u)
    BY <1>2, <1>3, <1>6, <2>0, HalvesSpliced
  <2>2. Times(u, c) = Times(s, c) + IF a.child = c THEN 1 ELSE 0
    BY <1>2, <2>1, TimesSpliced
  <2>3. Times(u, c) = Times(moved, c) + Times(kept, c)
    BY <2>0, TimesAdd
  <2>4. QED
    BY <1>1, <1>4, <1>5, <2>2, <2>3
<1>7. CASE ~(pos < m)
  <2>0. PICK u \in Seq(Child) : u = kept \o moved
    BY <1>5
  <2>1. Spliced(s, pos, a, u)
    BY <1>2, <1>3, <1>7, <2>0, HalvesSpliced
  <2>2. Times(u, c) = Times(s, c) + IF a.child = c THEN 1 ELSE 0
    BY <1>2, <2>1, TimesSpliced
  <2>3. Times(u, c) = Times(kept, c) + Times(moved, c)
    BY <2>0, TimesAdd
  <2>4. QED
    BY <1>1, <1>4, <1>5, <2>2, <2>3
<1>8. QED
  BY <1>6, <1>7

LEMMA StoreReceives ==
    ASSUME IInv, NEW n \in nodes, NEW key \in Keys, NEW pos \in Nat,
           Storing(n, key, pos)
    PROVE  /\ Received(n, key)
           /\ \A x \in nodes \ {n} : children'[x] = children[x]
<1>1. /\ pos \in 0 .. Len(children[n])
      /\ children' = [children EXCEPT ![n] = InsertAt(children[n], pos + 1, Entry(key, key))]
  BY DEF Storing, Inserted
<1>2. n \in Nodes /\ children[n] \in Seq(Child) /\ nodes \subseteq Nodes
  BY DEF IInv, Typed
<1>3. PICK e \in Child : e = Entry(key, key) /\ e.child = key
  BY EntryIsChild
<1>4. PICK u : u = InsertAt(children[n], pos + 1, e)
  OBVIOUS
<1>5. u \in Seq(Child) /\ Spliced(children[n], pos, e, u)
  <2>1. Filed(children[n], pos, e, u)
    BY <1>1, <1>2, <1>4, InsertedFacts
  <2>2. QED
    BY <2>1 DEF Filed, Spliced
<1>6. \A c \in Keys \cup Nodes :
          Times(u, c) = Times(children[n], c) + IF c = key THEN 1 ELSE 0
  BY <1>1, <1>2, <1>3, <1>5, TimesSpliced
<1>7. children'[n] = u /\ \A x \in nodes \ {n} : children'[x] = children[x]
  BY <1>1, <1>2, <1>3, <1>4 DEF IInv, Typed
<1>8. QED
  BY <1>6, <1>7 DEF Received, Gains

LEMMA SplitReceives ==
    ASSUME IInv, NEW n \in nodes, NEW key \in Keys, NEW pos \in Nat,
           NEW sibling \in nodes, sibling # n, Splitting(n, key, pos, sibling)
    PROVE  /\ Received(n, key)
           /\ Received(sibling, key)
           /\ \A x \in nodes \ {n, sibling} : children'[x] = children[x]
<1>1. PICK s, moved, kept, t \in Seq(Child), m \in Nat :
          /\ m = SplitPoint(children[n])
          /\ Divided(children[n], key, pos, s, m, moved, kept)
          /\ Prefixed(sibling, moved, t)
          /\ children' = [children EXCEPT ![sibling] = t, ![n] = kept]
  BY SplitFacts
<1>2. n \in Nodes /\ sibling \in Nodes /\ nodes \subseteq Nodes
  BY DEF IInv, Typed
<1>3. /\ children'[n] = kept /\ children'[sibling] = t
      /\ \A x \in nodes \ {n, sibling} : children'[x] = children[x]
  BY <1>1, <1>2 DEF IInv, Typed
<1>4. PICK old \in Seq(Child), first \in Seq(Child) :
          old = children[n] /\ first = children[sibling] /\ first = Constructed(sibling)
  BY <1>2 DEF Splitting, IInv, Typed
<1>5. ASSUME NEW c \in Keys \cup Nodes
      PROVE  /\ Times(kept \o t, c) = Times(old \o first, c) + IF c = key THEN 1 ELSE 0
             /\ Times(t \o kept, c) = Times(first \o old, c) + IF c = key THEN 1 ELSE 0
  <2>1. t = first \o moved
    BY <1>1, <1>4, Zenon DEF Prefixed
  <2>2. Times(t, c) = Times(first, c) + Times(moved, c)
    BY <2>1, TimesAdd
  <2>3. /\ Times(kept \o t, c) = Times(kept, c) + Times(t, c)
        /\ Times(t \o kept, c) = Times(t, c) + Times(kept, c)
        /\ Times(old \o first, c) = Times(old, c) + Times(first, c)
        /\ Times(first \o old, c) = Times(first, c) + Times(old, c)
    BY TimesAdd
  <2>4. Times(kept, c) + Times(moved, c) = Times(old, c) + IF c = key THEN 1 ELSE 0
    <3>1. Divided(old, key, pos, s, m, moved, kept)
      BY <1>1, <1>4
    <3>2. QED
      BY <3>1, TimesDivided, SMTT(30)
  <2>5. /\ Times(kept, c) \in Nat /\ Times(moved, c) \in Nat /\ Times(old, c) \in Nat
        /\ Times(first, c) \in Nat
    BY TimesArePlaces
  <2>6. QED
    BY <2>2, <2>3, <2>4, <2>5, SMTT(30)
<1>6. Received(n, key)
  <2>1. Gains(children[n] \o children[sibling], children'[n] \o children'[sibling], key)
    BY <1>3, <1>4, <1>5 DEF Gains
  <2>2. QED
    BY <2>1 DEF Received
<1>7. Received(sibling, key)
  <2>1. Gains(children[sibling] \o children[n], children'[sibling] \o children'[n], key)
    BY <1>3, <1>4, <1>5 DEF Gains
  <2>2. n \in nodes \ {sibling}
    OBVIOUS
  <2>3. QED
    BY <2>1, <2>2 DEF Received
<1>8. QED
  BY <1>3, <1>6, <1>7

(* Every call that changes a node files one child once more, in the node or *)
(* in one of its halves, and every other child as often as before.          *)
THEOREM FiledOnceMore == Spec => ChildrenConserved
<1> DEFINE Conserved == \A n \in nodes : children'[n] # children[n] =>
                            \E key \in Keys : Received(n, key)
<1>1. ASSUME IInv, [Next]_vars
      PROVE  Conserved
  <2>1. CASE UNCHANGED vars
    BY <2>1 DEF vars
  <2>2. CASE Next
    <3>1. CASE \E n \in Nodes : Construct(n)
      BY <1>1, <3>1 DEF Construct, IInv, Typed
    <3>2. ASSUME NEW n \in nodes, NEW key \in Keys, NEW pos \in Nat, Storing(n, key, pos)
          PROVE  Conserved
      BY <1>1, <3>2, StoreReceives
    <3>3. ASSUME NEW n \in nodes, NEW key \in Keys, NEW pos \in Nat, NEW sibling \in nodes,
                 sibling # n, Splitting(n, key, pos, sibling)
          PROVE  Conserved
      BY <1>1, <3>3, SplitReceives
    <3>4. QED
      BY <1>1, <2>1, <2>2, <3>1, <3>2, <3>3, StepKinds
  <2>3. QED
    BY <1>1, <2>1, <2>2
<1>2. QED
  BY <1>1, Invariance, PTL DEF Spec, ChildrenConserved

-----------------------------------------------------------------------------
(* Where the keys go *)

LEMMA KeysInAre ==
    ASSUME NEW s \in Seq(Child)
    PROVE  /\ \A i \in 1 .. Len(s) : s[i].key \in Nat
           /\ KeysIn(s) = {s[i].key : i \in 1 .. Len(s)} \ {Sentinel}
<1>1. DOMAIN s = 1 .. Len(s) /\ \A i \in 1 .. Len(s) : s[i].key \in Nat
  BY ChildrenFacts, ChildFacts
<1>2. QED
  BY <1>1 DEF KeysIn

(* The key at the cut divides the others.                                   *)
LEMMA CutDivides ==
    ASSUME NEW old \in Seq(Child), NEW m \in Nat, m < Len(old), Orderly(old)
    PROVE  /\ \A i \in 1 .. m : old[i].key # Sentinel => old[i].key < old[m + 1].key
           /\ \A i \in m + 2 .. Len(old) : old[i].key # Sentinel => old[m + 1].key < old[i].key
<1>1. Len(old) \in Nat /\ DOMAIN old = 1 .. Len(old) /\ m + 1 \in 1 .. Len(old)
  BY ChildrenFacts
<1>2. \A i, j \in 1 .. Len(old) :
          i < j => old[i].key < old[j].key \/ (old[i].key = Sentinel /\ old[j].key = Sentinel)
  BY <1>1 DEF Orderly
<1>3. ASSUME NEW i \in 1 .. m, old[i].key # Sentinel
      PROVE  old[i].key < old[m + 1].key
  <2>1. i \in 1 .. Len(old) /\ i < m + 1
    BY <1>1
  <2>2. QED
    BY <1>1, <1>2, <1>3, <2>1
<1>4. ASSUME NEW i \in m + 2 .. Len(old), old[i].key # Sentinel
      PROVE  old[m + 1].key < old[i].key
  <2>1. i \in 1 .. Len(old) /\ m + 1 < i
    BY <1>1
  <2>2. QED
    BY <1>1, <1>2, <1>4, <2>1
<1>5. QED
  BY <1>3, <1>4

(* The new key is none of the node's, is below the key at the cut if it     *)
(* goes with the left half, above it if it lands behind the cut, and above  *)
(* all that are below the split key if it lands at the cut.                 *)
LEMMA NewKeyPlaced ==
    ASSUME NEW old \in Seq(Child), NEW m \in Nat, m < Len(old), Orderly(old),
           NEW key \in Keys, NEW pos \in Nat, IsBoundary(old, 0, key, pos),
           ~IsDuplicate(old, key, pos)
    PROVE  /\ \A i \in 1 .. Len(old) : old[i].key # key
           /\ pos < m => key < old[m + 1].key
           /\ m < pos => old[m + 1].key < key
           /\ pos = m => \A i \in 1 .. Len(old) : old[i].key < old[m + 1].key => old[i].key < key
<1>1. /\ Len(old) \in Nat /\ DOMAIN old = 1 .. Len(old) /\ m + 1 \in 1 .. Len(old)
      /\ \A i \in 1 .. Len(old) : old[i].key \in Nat
  BY ChildrenFacts, KeysInAre
<1>2. \A i, j \in 1 .. Len(old) :
          i < j => old[i].key < old[j].key \/ (old[i].key = Sentinel /\ old[j].key = Sentinel)
  BY <1>1 DEF Orderly
<1>3. key \in Nat /\ key # Sentinel /\ Sentinel = 0
  BY InternalAssumption DEF Sentinel
<1>4. /\ pos <= Len(old)
      /\ pos > 0 => old[pos].key < key
      /\ pos < Len(old) => key <= old[pos + 1].key /\ old[pos + 1].key # key
  BY <1>1 DEF IsBoundary, IsDuplicate
<1>5. ASSUME NEW i \in 1 .. Len(old), i <= pos
      PROVE  old[i].key < key
  <2>1. pos \in 1 .. Len(old) /\ old[pos].key < key /\ i \in Nat
    BY <1>1, <1>4, <1>5
  <2>2. i < pos => old[i].key < old[pos].key \/ old[i].key = Sentinel
    BY <1>2, <2>1
  <2>3. CASE i = pos
    BY <2>1, <2>3
  <2>4. CASE i < pos
    <3>1. old[i].key \in Nat /\ old[pos].key \in Nat
      BY <1>1, <2>1
    <3>2. QED
      BY <1>3, <2>1, <2>2, <2>4, <3>1
  <2>5. QED
    BY <1>5, <2>1, <2>3, <2>4
<1>6. ASSUME NEW i \in 1 .. Len(old), pos < i
      PROVE  key < old[i].key
  <2>1. pos + 1 \in 1 .. Len(old) /\ i \in Nat /\ key < old[pos + 1].key /\ old[pos + 1].key \in Nat
    BY <1>1, <1>3, <1>4, <1>6
  <2>2. pos + 1 < i => old[pos + 1].key < old[i].key \/ old[pos + 1].key = Sentinel
    BY <1>2, <2>1
  <2>3. CASE i = pos + 1
    BY <2>1, <2>3
  <2>4. CASE pos + 1 < i
    <3>1. old[i].key \in Nat
      BY <1>1
    <3>2. QED
      BY <1>3, <2>1, <2>2, <2>4, <3>1
  <2>5. QED
    BY <1>6, <2>1, <2>3, <2>4
<1>7. ASSUME NEW i \in 1 .. Len(old)
      PROVE  old[i].key # key
  <2>1. i <= pos \/ pos < i
    BY <1>1
  <2>2. old[i].key \in Nat
    BY <1>1
  <2>3. QED
    BY <1>3, <1>5, <1>6, <2>1, <2>2
<1>8. pos < m => key < old[m + 1].key
  BY <1>1, <1>6
<1>9. m < pos => old[m + 1].key < key
  BY <1>1, <1>5
<1>10. ASSUME pos = m, NEW i \in 1 .. Len(old), old[i].key < old[m + 1].key
       PROVE  old[i].key < key
  <2>1. CASE i <= pos
    BY <1>5, <2>1
  <2>2. CASE pos < i
    <3>1. i \in Nat /\ old[i].key \in Nat /\ old[m + 1].key \in Nat
      BY <1>1
    <3>2. i = m + 1 \/ m + 1 < i
      BY <1>10, <2>2, <3>1
    <3>3. m + 1 < i => old[m + 1].key < old[i].key \/ old[m + 1].key = Sentinel
      BY <1>1, <1>2
    <3>4. QED
      BY <1>3, <1>10, <3>1, <3>2, <3>3
  <2>3. QED
    BY <2>1, <2>2
<1>11. QED
  BY <1>7, <1>8, <1>9, <1>10

(* SplitKeyMigrates, of the keys before and after a split                   *)
Migrates(old, kept, moved, k, left) ==
    LET lower == IF left THEN moved ELSE kept
        upper == IF left THEN kept ELSE moved
    IN  /\ k \in old \cup {Sentinel}
        /\ old \ {k} \subseteq kept \cup moved
        /\ k \notin kept \cup moved
        /\ \A a \in lower : a < k
        /\ \A b \in upper :
               \/ k < b
               \/ ~left /\ b \notin old /\ \A a \in old : a < k => a < b

LEMMA DividedKeys ==
    ASSUME NEW old \in Seq(Child), NEW s \in Seq(Child), NEW moved \in Seq(Child),
           NEW kept \in Seq(Child), NEW t \in Seq(Child), NEW m \in Nat,
           NEW key \in Keys, NEW pos \in Nat, NEW sibling \in Nodes,
           Divided(old, key, pos, s, m, moved, kept),
           Prefixed(sibling, moved, t),
           Orderly(old), IsBoundary(old, 0, key, pos), ~IsDuplicate(old, key, pos)
    PROVE  Migrates(KeysIn(old), KeysIn(kept), KeysIn(t), old[m + 1].key, pos < m)
<1>1. PICK k : k = old[m + 1].key
  OBVIOUS
<1>2. PICK a \in Child : a = Entry(key, key) /\ a.key = key
  BY EntryIsChild
<1>3. /\ Len(s) \in Nat /\ Len(s) = Len(old) /\ m < Len(s) /\ pos \in 0 .. Len(s)
      /\ Len(kept) \in Nat /\ Len(moved) \in Nat /\ m + 1 \in 1 .. Len(old)
      /\ k \in Nat
  <2>1. /\ Len(s) \in Nat /\ Len(s) = Len(old) /\ m < Len(s) /\ pos \in 0 .. Len(s)
        /\ Len(kept) \in Nat /\ Len(moved) \in Nat
    BY ChildrenFacts DEF Divided
  <2>2. m + 1 \in 1 .. Len(old)
    BY <2>1
  <2>3. QED
    BY <1>1, <2>1, <2>2, KeysInAre
<1>4. /\ \A i \in 1 .. m : old[i].key # Sentinel => old[i].key < k
      /\ \A i \in m + 2 .. Len(old) : old[i].key # Sentinel => k < old[i].key
  BY <1>1, <1>3, CutDivides
<1>5. /\ \A i \in 1 .. Len(old) : old[i].key # key
      /\ pos < m => key < k
      /\ m < pos => k < key
      /\ pos = m => \A i \in 1 .. Len(old) : old[i].key < k => old[i].key < key
  BY <1>1, <1>3, NewKeyPlaced
<1>6. Halves(s, pos, a, m, moved, kept)
  BY <1>2 DEF Divided
<1>7. Covered(s, a, moved, kept)
  BY <1>3, <1>6, HalvesCover
<1>8. /\ s[m + 1].key = Sentinel
      /\ \A i \in 1 .. Len(s) : i # m + 1 => s[i] = old[i]
  <2>1. PICK c \in Keys \cup Nodes : c = old[m + 1].child
    BY <1>3, ChildrenFacts, ChildFacts
  <2>2. s[m + 1] = Entry(Sentinel, c)
    BY <2>1 DEF Divided
  <2>3. Entry(Sentinel, c).key = Sentinel
    BY EntryIsChild
  <2>4. \A i \in 1 .. Len(s) : i # m + 1 => s[i] = old[i]
    BY DEF Divided
  <2>5. QED
    BY <2>2, <2>3, <2>4
(* Entries of the sibling other than its first *)
<1>9. KeysIn(t) = KeysIn(moved)
  <2>1. PICK first \in Child : first = Entry(Sentinel, sibling) /\ first.key = Sentinel
    BY EntryIsChild
  <2>2. /\ Len(t) = Len(moved) + 1 /\ t[1] = first
        /\ \A i \in 1 .. Len(moved) : t[i + 1] = moved[i]
    BY <2>1 DEF Prefixed
  <2>3. ASSUME NEW i \in 1 .. Len(t)
        PROVE  t[i].key = Sentinel \/ \E j \in 1 .. Len(moved) : t[i].key = moved[j].key
    <3>1. CASE i = 1
      BY <2>1, <2>2, <3>1
    <3>2. CASE i # 1
      <4>1. i - 1 \in 1 .. Len(moved) /\ (i - 1) + 1 = i
        BY <1>3, <2>2, <3>2
      <4>2. t[(i - 1) + 1] = moved[i - 1]
        BY <2>2, <4>1
      <4>3. QED
        BY <4>1, <4>2
    <3>3. QED
      BY <3>1, <3>2
  <2>4. ASSUME NEW j \in 1 .. Len(moved)
        PROVE  \E i \in 1 .. Len(t) : t[i].key = moved[j].key
    <3>1. j + 1 \in 1 .. Len(t)
      BY <1>3, <2>2
    <3>2. QED
      BY <2>2, <3>1
  <2>5. /\ KeysIn(t) = {t[i].key : i \in 1 .. Len(t)} \ {Sentinel}
        /\ KeysIn(moved) = {moved[i].key : i \in 1 .. Len(moved)} \ {Sentinel}
    BY KeysInAre
  <2>6. \A x \in KeysIn(t) : x \in KeysIn(moved)
    <3>1. ASSUME NEW i \in 1 .. Len(t), t[i].key # Sentinel
          PROVE  t[i].key \in KeysIn(moved)
      BY <2>3, <2>5, <3>1
    <3>2. QED
      BY <2>5, <3>1
  <2>7. \A x \in KeysIn(moved) : x \in KeysIn(t)
    <3>1. ASSUME NEW i \in 1 .. Len(moved), moved[i].key # Sentinel
          PROVE  moved[i].key \in KeysIn(t)
      BY <2>4, <2>5, <3>1
    <3>2. QED
      BY <2>5, <3>1
  <2>8. QED
    BY <2>6, <2>7
<1>10. /\ KeysIn(old) = {old[i].key : i \in 1 .. Len(old)} \ {Sentinel}
       /\ KeysIn(kept) = {kept[i].key : i \in 1 .. Len(kept)} \ {Sentinel}
       /\ KeysIn(moved) = {moved[i].key : i \in 1 .. Len(moved)} \ {Sentinel}
  BY KeysInAre
<1>11. k \in KeysIn(old) \cup {Sentinel}
  BY <1>1, <1>3, <1>10
<1>12. KeysIn(old) \ {k} \subseteq KeysIn(kept) \cup KeysIn(moved)
  <2>1. ASSUME NEW j \in 1 .. Len(old), old[j].key # Sentinel, old[j].key # k
        PROVE  old[j].key \in KeysIn(kept) \cup KeysIn(moved)
    <3>1. j # m + 1 /\ j \in 1 .. Len(s)
      BY <1>1, <1>3, <2>1
    <3>2. s[j] = old[j]
      BY <1>8, <3>1
    <3>3. \/ \E i \in 1 .. Len(kept) : kept[i] = s[j]
          \/ \E i \in 1 .. Len(moved) : moved[i] = s[j]
      BY <1>7, <3>1 DEF Covered
    <3>4. QED
      BY <1>10, <2>1, <3>2, <3>3
  <2>2. QED
    BY <1>10, <2>1
<1>13. CASE pos < m
  <2>1. /\ Len(moved) = m + 1 /\ Len(kept) = Len(s) - m
        /\ \A i \in 1 .. pos : moved[i] = s[i]
        /\ moved[pos + 1] = a
        /\ \A i \in pos + 1 .. m : moved[i + 1] = s[i]
        /\ \A i \in m + 1 .. Len(s) : kept[i - m] = s[i]
    BY <1>6, <1>13 DEF Halves
  <2>2. ASSUME NEW i \in 1 .. Len(moved), moved[i].key # Sentinel
        PROVE  moved[i].key < k
    <3>1. \A j \in 1 .. m : s[j] = old[j]
      BY <1>3, <1>8
    <3>2. CASE i <= pos
      <4>1. i \in 1 .. pos /\ i \in 1 .. m
        BY <1>3, <1>13, <3>2
      <4>2. moved[i] = old[i]
        BY <2>1, <3>1, <4>1
      <4>3. QED
        BY <1>4, <2>2, <4>1, <4>2
    <3>3. CASE i = pos + 1
      BY <1>2, <1>5, <1>13, <2>1, <3>3
    <3>4. CASE pos + 1 < i
      <4>1. i - 1 \in pos + 1 .. m /\ (i - 1) + 1 = i /\ i - 1 \in 1 .. m
        BY <1>3, <2>1, <3>4
      <4>2. moved[(i - 1) + 1] = old[i - 1]
        BY <2>1, <3>1, <4>1
      <4>3. QED
        BY <1>4, <2>2, <4>1, <4>2
    <3>5. QED
      BY <1>3, <3>2, <3>3, <3>4
  <2>3. ASSUME NEW i \in 1 .. Len(kept), kept[i].key # Sentinel
        PROVE  k < kept[i].key
    <3>1. i + m \in m + 1 .. Len(s) /\ (i + m) - m = i /\ i + m \in 1 .. Len(s)
      BY <1>3, <2>1
    <3>2. kept[(i + m) - m] = s[i + m]
      BY <2>1, <3>1
    <3>3. i + m # m + 1
      BY <1>8, <2>3, <3>1, <3>2
    <3>4. s[i + m] = old[i + m] /\ i + m \in m + 2 .. Len(old)
      BY <1>3, <1>8, <3>1, <3>3
    <3>5. QED
      BY <1>4, <2>3, <3>1, <3>2, <3>4
  <2>4. \A x \in KeysIn(moved) : x < k
    BY <1>10, <2>2
  <2>5. \A x \in KeysIn(kept) : k < x
    BY <1>10, <2>3
  <2>6. k \notin KeysIn(kept) \cup KeysIn(moved)
    BY <1>3, <2>4, <2>5
  <2>7. QED
    BY <1>1, <1>9, <1>11, <1>12, <1>13, <2>4, <2>5, <2>6 DEF Migrates
<1>14. CASE m <= pos
  <2>0. ~(pos < m)
    BY <1>14
  <2>1. /\ Len(moved) = Len(s) + 1 - m /\ Len(kept) = m
        /\ \A i \in 1 .. m : kept[i] = s[i]
        /\ \A i \in m + 1 .. pos : moved[i - m] = s[i]
        /\ moved[pos + 1 - m] = a
        /\ \A i \in pos + 1 .. Len(s) : moved[i + 1 - m] = s[i]
    BY <1>6, <2>0 DEF Halves
  <2>2. ASSUME NEW i \in 1 .. Len(kept), kept[i].key # Sentinel
        PROVE  kept[i].key < k
    <3>1. i \in 1 .. m /\ i \in 1 .. Len(s) /\ i # m + 1
      BY <1>3, <2>1
    <3>2. kept[i] = old[i]
      BY <1>8, <2>1, <3>1
    <3>3. QED
      BY <1>4, <2>2, <3>1, <3>2
  <2>3. ASSUME NEW j \in m + 1 .. Len(s), s[j].key # Sentinel
        PROVE  k < s[j].key
    <3>1. j # m + 1 /\ j \in 1 .. Len(s) /\ j \in m + 2 .. Len(old)
      BY <1>3, <1>8, <2>3
    <3>2. QED
      BY <1>4, <1>8, <2>3, <3>1
  <2>4. ASSUME NEW i \in 1 .. Len(moved), moved[i].key # Sentinel, moved[i].key # key
        PROVE  k < moved[i].key
    <3>1. CASE i + m <= pos
      <4>1. i + m \in m + 1 .. pos /\ (i + m) - m = i /\ i + m \in m + 1 .. Len(s)
        BY <1>3, <3>1
      <4>2. moved[(i + m) - m] = s[i + m]
        BY <2>1, <4>1
      <4>3. QED
        BY <2>3, <2>4, <4>1, <4>2
    <3>2. CASE i + m = pos + 1
      <4>1. i = pos + 1 - m
        BY <1>3, <3>2
      <4>2. QED
        BY <1>2, <2>1, <2>4, <4>1
    <3>3. CASE pos + 1 < i + m
      <4>1. /\ i + m - 1 \in pos + 1 .. Len(s) /\ (i + m - 1) + 1 - m = i
            /\ i + m - 1 \in m + 1 .. Len(s)
        BY <1>3, <1>14, <2>1, <3>3
      <4>2. moved[(i + m - 1) + 1 - m] = s[i + m - 1]
        BY <2>1, <4>1
      <4>3. QED
        BY <2>3, <2>4, <4>1, <4>2
    <3>4. QED
      BY <1>3, <3>1, <3>2, <3>3
  <2>5. \A x \in KeysIn(kept) : x < k
    BY <1>10, <2>2
  <2>6. key \notin KeysIn(old) /\ key # k
    <3>1. key \notin KeysIn(old)
      BY <1>5, <1>10
    <3>2. key # k
      BY <1>1, <1>3, <1>5
    <3>3. QED
      BY <3>1, <3>2
  <2>7. \A x \in KeysIn(moved) : x # key => k < x
    BY <1>10, <2>4
  <2>8. k < key \/ \A x \in KeysIn(old) : x < k => x < key
    <3>1. pos \in Nat /\ (m < pos \/ pos = m)
      BY <2>0
    <3>2. QED
      BY <1>5, <1>10, <3>1
  <2>9. \A x \in KeysIn(moved) :
            k < x \/ (x \notin KeysIn(old) /\ \A y \in KeysIn(old) : y < k => y < x)
    BY <2>6, <2>7, <2>8
  <2>10. k \notin KeysIn(kept) \cup KeysIn(moved)
    BY <1>3, <2>5, <2>6, <2>7
  <2>11. QED
    BY <1>1, <1>9, <1>11, <1>12, <2>0, <2>5, <2>9, <2>10 DEF Migrates
<1>15. QED
  BY <1>3, <1>13, <1>14

LEMMA SplitMigrates ==
    ASSUME IInv, NEW n \in nodes, NEW key \in Keys, NEW pos \in Nat, NEW sibling \in nodes,
           sibling # n, Splitting(n, key, pos, sibling),
           split'[n] # split[n], Orderly(children[n])
    PROVE  Migrates(KeysIn(children[n]), KeysIn(children'[n]),
                    KeysIn(children'[split'[n].sibling]),
                    split'[n].key, split'[n].direction = "LEFT")
<1>1. PICK s, moved, kept, t \in Seq(Child), m \in Nat :
          /\ m = SplitPoint(children[n])
          /\ Divided(children[n], key, pos, s, m, moved, kept)
          /\ Prefixed(sibling, moved, t)
          /\ children' = [children EXCEPT ![sibling] = t, ![n] = kept]
  BY SplitFacts
<1>2. n \in Nodes /\ sibling \in Nodes /\ children[n] \in Seq(Child)
  BY DEF IInv, Typed
<1>3. children'[n] = kept /\ children'[sibling] = t
  BY <1>1, <1>2 DEF IInv, Typed
<1>4. PICK old \in Seq(Child) : old = children[n]
  BY <1>2
<1>5. /\ IsBoundary(old, 0, key, pos) /\ ~IsDuplicate(old, key, pos)
      /\ RecordSplit(n, sibling, Direction(old, pos), old[m + 1].key)
  BY <1>1, <1>4 DEF Splitting, SplitStores, SplitRefused
<1>6. /\ split'[n].sibling = sibling
      /\ split'[n].key = old[m + 1].key
      /\ split'[n].direction = Direction(old, pos)
  BY <1>2, <1>5 DEF RecordSplit, IInv, Typed
<1>7. split'[n].direction = "LEFT" <=> pos < m
  BY <1>1, <1>4, <1>6 DEF Direction
<1>8. Migrates(KeysIn(old), KeysIn(kept), KeysIn(t), old[m + 1].key, pos < m)
  <2>1. /\ Divided(old, key, pos, s, m, moved, kept)
        /\ Prefixed(sibling, moved, t)
        /\ Orderly(old)
    BY <1>1, <1>4
  <2>2. QED
    BY <1>2, <1>5, <2>1, DividedKeys
<1>9. QED
  BY <1>3, <1>4, <1>6, <1>7, <1>8

(* When an ordered node splits, the key at the cut is in neither half and   *)
(* divides all keys, the new one included, on the sides that the direction  *)
(* names; but a new key that lands exactly at the cut, hence below the      *)
(* split key, goes to the RIGHT sibling.                                    *)
THEOREM SplitKeyMoves == Spec => SplitKeyMigrates
<1> DEFINE Moves == \A n \in nodes :
                        split'[n] # split[n] /\ Orderly(children[n]) =>
                            Migrates(KeysIn(children[n]), KeysIn(children'[n]),
                                     KeysIn(children'[split'[n].sibling]),
                                     split'[n].key, split'[n].direction = "LEFT")
<1>1. ASSUME IInv, [Next]_vars
      PROVE  Moves
  <2>1. CASE split' = split
    BY <2>1
  <2>2. CASE \E n \in nodes, key \in Keys, pos \in Nat, sibling \in nodes :
                 sibling # n /\ Splitting(n, key, pos, sibling)
    <3>1. PICK n \in nodes, key \in Keys, pos \in Nat, sibling \in nodes :
              sibling # n /\ Splitting(n, key, pos, sibling)
      BY <2>2
    <3>2. \A x \in nodes : split'[x] # split[x] => x = n
      BY <1>1, <3>1 DEF Splitting, SplitStores, RecordSplit, IInv, Typed
    <3>3. QED
      BY <1>1, <3>1, <3>2, SplitMigrates
  <2>3. \/ split' = split
        \/ \E n \in nodes, key \in Keys, pos \in Nat, sibling \in nodes :
               sibling # n /\ Splitting(n, key, pos, sibling)
    <3>1. CASE UNCHANGED vars
      BY <3>1 DEF vars
    <3>2. CASE Next
      BY <1>1, <3>1, <3>2, StepKinds DEF Construct, Storing, Inserted, vars
    <3>3. QED
      BY <1>1, <3>1, <3>2
  <2>4. QED
    BY <2>1, <2>2, <2>3
<1>2. IInv /\ [Next]_vars =>
          \A n \in nodes :
              split'[n] # split[n] /\ Orderly(children[n]) =>
                  LET k     == split'[n].key
                      old   == KeysIn(children[n])
                      kept  == KeysIn(children'[n])
                      moved == KeysIn(children'[split'[n].sibling])
                      left  == split'[n].direction = "LEFT"
                      lower == IF left THEN moved ELSE kept
                      upper == IF left THEN kept ELSE moved
                  IN  /\ k \in old \cup {Sentinel}
                      /\ old \ {k} \subseteq kept \cup moved
                      /\ k \notin kept \cup moved
                      /\ \A a \in lower : a < k
                      /\ \A b \in upper :
                             \/ k < b
                             \/ ~left /\ b \notin old /\ \A a \in old : a < k => a < b
  BY <1>1 DEF Migrates
<1>3. QED
  BY <1>2, Invariance, PTL DEF Spec, SplitKeyMigrates
=============================================================================
