------------------------- MODULE PrefixSearch_proofs -------------------------
(***************************************************************************)
(* For keys over any bytes, of any length, in search vectors of any size:  *)
(* the comparator that skips a shared prefix answers as a comparison of    *)
(* whole keys would, so lowerBound is a plain bisection; and its assert    *)
(* fails at an empty stored key only.                                      *)
(***************************************************************************)
EXTENDS PrefixSearch, SequenceTheorems, WellFoundedInduction, TLAPS

-----------------------------------------------------------------------------
(* Facts about the lexicographic order.                                     *)

LEMMA AgreeFacts ==
    ASSUME NEW a \in Seq(Nat), NEW b \in Seq(Nat), NEW n \in Int, Agree(a, b, n)
    PROVE  /\ n <= Len(a) /\ n <= Len(b)
           /\ \A k \in 1 .. n : k \in 1 .. Len(a) /\ k \in 1 .. Len(b) /\ a[k] = b[k]
  BY DEF Agree

LEMMA AgreeShorter ==
    ASSUME NEW a \in Seq(Nat), NEW b \in Seq(Nat), NEW n \in Int, NEW m \in Int,
           Agree(a, b, n), m <= n
    PROVE  Agree(a, b, m)
<1>1. n <= Len(a) /\ n <= Len(b) /\ \A k \in 1 .. n : a[k] = b[k]
  BY AgreeFacts
<1>2. m <= Len(a) /\ m <= Len(b) /\ \A k \in 1 .. m : k \in 1 .. n
  BY <1>1
<1>3. QED
  BY <1>1, <1>2 DEF Agree

LEMMA AgreeTransitive ==
    ASSUME NEW a \in Seq(Nat), NEW b \in Seq(Nat), NEW c \in Seq(Nat), NEW n \in Int,
           Agree(a, b, n), Agree(b, c, n)
    PROVE  Agree(a, c, n)
<1>1. n <= Len(a) /\ n <= Len(c)
  BY DEF Agree
<1>2. ASSUME NEW i \in 1 .. n PROVE a[i] = c[i]
  <2>1. a[i] = b[i] /\ b[i] = c[i]
    BY DEF Agree
  <2>2. QED
    BY <2>1
<1>3. QED
  BY <1>1, <1>2 DEF Agree

LEMMA Elements ==
    ASSUME NEW a \in Seq(Nat)
    PROVE  Len(a) \in Nat /\ \A k \in 1 .. Len(a) : a[k] \in Nat
  OBVIOUS

LEMMA LessTransitive ==
    ASSUME NEW a \in Seq(Nat), NEW b \in Seq(Nat), NEW c \in Seq(Nat),
           Less(a, b), Less(b, c)
    PROVE  Less(a, c)
<1>1. PICK i \in 1 .. Len(b) : Agree(a, b, i - 1) /\ (i > Len(a) \/ a[i] < b[i])
  BY DEF Less
<1>2. PICK j \in 1 .. Len(c) : Agree(b, c, j - 1) /\ (j > Len(b) \/ b[j] < c[j])
  BY DEF Less
<1>3. /\ Len(a) \in Nat /\ Len(b) \in Nat /\ Len(c) \in Nat
      /\ \A k \in 1 .. Len(a) : a[k] \in Nat
      /\ \A k \in 1 .. Len(b) : b[k] \in Nat
      /\ \A k \in 1 .. Len(c) : c[k] \in Nat
  BY Elements
<1>4. CASE i <= j
  <2>1. i \in 1 .. Len(c) /\ i - 1 \in Int /\ j - 1 \in Int /\ i - 1 <= j - 1
    BY <1>3, <1>4
  <2>2. Agree(a, c, i - 1)
    BY <1>1, <1>2, <2>1, AgreeShorter, AgreeTransitive
  <2>3. i > Len(a) \/ a[i] < c[i]
    <3>1. CASE i < j
      <4>1. i \in 1 .. j - 1
        BY <3>1
      <4>2. b[i] = c[i]
        BY <1>2, <2>1, <4>1, AgreeFacts
      <4>3. QED
        BY <1>1, <4>2
    <3>2. CASE i = j
      BY <1>1, <1>2, <1>3, <3>2, SMTT(30)
    <3>3. QED
      BY <1>4, <3>1, <3>2
  <2>4. QED
    BY <2>1, <2>2, <2>3 DEF Less
<1>5. CASE j < i
  <2>1. i - 1 \in Int /\ j - 1 \in Int /\ j - 1 <= i - 1 /\ j \in 1 .. i - 1
    BY <1>5
  <2>2. Agree(a, c, j - 1)
    BY <1>1, <1>2, <2>1, AgreeShorter, AgreeTransitive
  <2>3. j <= Len(b) /\ a[j] = b[j]
    BY <1>1, <2>1, AgreeFacts
  <2>4. a[j] < c[j]
    BY <1>2, <1>3, <2>3
  <2>5. QED
    BY <2>2, <2>4 DEF Less
<1>6. QED
  BY <1>4, <1>5

(* What lies between two strings that share a prefix has that prefix.       *)
LEMMA Squeeze ==
    ASSUME NEW a \in Seq(Nat), NEW b \in Seq(Nat), NEW c \in Seq(Nat), NEW p \in Nat,
           Less(a, b), Less(b, c), Agree(a, c, p)
    PROVE  Agree(a, b, p)
<1>1. PICK i \in 1 .. Len(b) : Agree(a, b, i - 1) /\ (i > Len(a) \/ a[i] < b[i])
  BY DEF Less
<1>2. PICK j \in 1 .. Len(c) : Agree(b, c, j - 1) /\ (j > Len(b) \/ b[j] < c[j])
  BY DEF Less
<1>3. /\ Len(a) \in Nat /\ Len(b) \in Nat /\ Len(c) \in Nat
      /\ \A k \in 1 .. Len(a) : a[k] \in Nat
      /\ \A k \in 1 .. Len(b) : b[k] \in Nat
      /\ \A k \in 1 .. Len(c) : c[k] \in Nat
      /\ p <= Len(a) /\ p <= Len(c) /\ \A k \in 1 .. p : a[k] = c[k]
  BY Elements DEF Agree
<1>4. CASE i > p
  <2>1. p <= i - 1 /\ i - 1 \in Int
    BY <1>1, <1>4
  <2>2. QED
    BY <1>1, <2>1, AgreeShorter
<1>5. CASE i <= p
  <2>1. a[i] < b[i] /\ i \in 1 .. p /\ a[i] = c[i]
    BY <1>1, <1>3, <1>5
  <2>2. ~(j > i)
    <3>1. SUFFICES ASSUME j > i PROVE FALSE
      OBVIOUS
    <3>2. j - 1 \in Int /\ i \in 1 .. j - 1 /\ i \in 1 .. Len(b)
      BY <1>3, <3>1
    <3>3. b[i] = c[i]
      BY <1>2, <3>2, AgreeFacts
    <3>4. b[i] \in Nat
      BY <1>3, <3>2
    <3>5. QED
      BY <2>1, <3>3, <3>4
  <2>3. ~(j = i)
    <3>1. SUFFICES ASSUME j = i PROVE FALSE
      OBVIOUS
    <3>2. i <= Len(b) /\ ~(i > Len(b))
      BY <1>3
    <3>3. b[i] < c[i]
      BY <1>2, <3>1, <3>2
    <3>4. a[i] \in Nat /\ b[i] \in Nat
      BY <1>3, <2>1
    <3>5. QED
      BY <2>1, <3>3, <3>4
  <2>4. CASE j < i
    <3>1. j \in 1 .. p /\ j \in 1 .. i - 1 /\ j <= Len(b)
      BY <1>1, <1>3, <1>5, <2>4
    <3>2. a[j] = b[j]
      BY <1>1, <3>1 DEF Agree
    <3>3. a[j] = c[j]
      BY <1>3, <3>1
    <3>4. ~(j > Len(b)) /\ j \in 1 .. Len(c)
      BY <1>3, <3>1
    <3>5. b[j] < c[j] /\ c[j] \in Nat
      BY <1>2, <1>3, <3>4
    <3>6. QED
      BY <3>2, <3>3, <3>5
  <2>5. QED
    BY <2>2, <2>3, <2>4
<1>6. QED
  BY <1>1, <1>3, <1>4, <1>5

(* ... and is longer than it, if the smaller of the two is.                 *)
LEMMA SqueezeLonger ==
    ASSUME NEW a \in Seq(Nat), NEW b \in Seq(Nat), NEW p \in Nat,
           Less(a, b), Agree(a, b, p), p < Len(a)
    PROVE  p < Len(b)
<1>1. PICK i \in 1 .. Len(b) : Agree(a, b, i - 1) /\ (i > Len(a) \/ a[i] < b[i])
  BY DEF Less
<1>2. SUFFICES ASSUME Len(b) <= p PROVE FALSE
  OBVIOUS
<1>3. i \in 1 .. p /\ i <= Len(a) /\ a[i] \in Nat
  BY <1>1, <1>2
<1>4. a[i] = b[i]
  BY <1>3 DEF Agree
<1>5. QED
  BY <1>1, <1>3, <1>4

(* A comparison that starts behind a common prefix sees what a comparison   *)
(* of the whole strings sees.                                               *)
LEMMA Comparison ==
    ASSUME NEW l \in Seq(Nat), NEW r \in Seq(Nat), NEW n \in Nat, NEW at,
           Agree(l, r, n), MismatchAt(l, r, n, at)
    PROVE  /\ at \in Nat /\ at - 1 \in Nat
           /\ Agree(l, r, at - 1)
           /\ at > Shorter(Len(l), Len(r)) => (Less(l, r) <=> Len(l) < Len(r))
           /\ at <= Shorter(Len(l), Len(r)) => (Less(l, r) <=> l[at] < r[at])
<1>1. /\ Len(l) \in Nat /\ Len(r) \in Nat
      /\ \A k \in 1 .. Len(l) : l[k] \in Nat
      /\ \A k \in 1 .. Len(r) : r[k] \in Nat
  OBVIOUS
<1> DEFINE size == Shorter(Len(l), Len(r))
<1>2. size \in Nat /\ size <= Len(l) /\ size <= Len(r) /\ (size = Len(l) \/ size = Len(r))
  BY <1>1 DEF Shorter
<1>3. /\ at \in n + 1 .. size + 1
      /\ \A i \in n + 1 .. at - 1 : l[i] = r[i]
      /\ at <= size => l[at] # r[at]
      /\ n <= size /\ \A i \in 1 .. n : l[i] = r[i]
  BY <1>1, <1>2 DEF MismatchAt, Agree
<1> HIDE DEF size
<1>4. at \in Nat /\ at - 1 \in Nat /\ at >= 1
  BY <1>2, <1>3
<1>5. Agree(l, r, at - 1)
  BY <1>1, <1>2, <1>3, <1>4 DEF Agree
<1>6. ASSUME at > size
      PROVE  Less(l, r) <=> Len(l) < Len(r)
  <2>1. at = size + 1 /\ \A i \in 1 .. size : l[i] = r[i]
    BY <1>2, <1>3, <1>4, <1>6, <1>5 DEF Agree
  <2>2. ASSUME Len(l) < Len(r)
        PROVE  Less(l, r)
    <3>1. size = Len(l) /\ at \in 1 .. Len(r) /\ at > Len(l)
      BY <1>2, <1>4, <2>1, <2>2
    <3>2. QED
      BY <1>5, <3>1 DEF Less
  <2>3. ASSUME Less(l, r)
        PROVE  Len(l) < Len(r)
    <3>1. PICK i \in 1 .. Len(r) : i > Len(l) \/ l[i] < r[i]
      BY <2>3 DEF Less
    <3>2. CASE i > Len(l)
      BY <1>1, <3>2
    <3>3. CASE i <= Len(l) /\ l[i] < r[i]
      <4>1. i \in 1 .. size /\ l[i] \in Nat
        BY <1>1, <1>2, <3>3
      <4>2. QED
        BY <2>1, <3>3, <4>1
    <3>4. QED
      BY <1>1, <3>1, <3>2, <3>3
  <2>4. QED
    BY <2>2, <2>3
<1>7. ASSUME at <= size
      PROVE  Less(l, r) <=> l[at] < r[at]
  <2>1. at \in 1 .. Len(l) /\ at \in 1 .. Len(r)
    BY <1>1, <1>2, <1>4, <1>7
  <2>2. ASSUME l[at] < r[at]
        PROVE  Less(l, r)
    BY <1>5, <2>1, <2>2 DEF Less
  <2>3. ASSUME Less(l, r)
        PROVE  l[at] < r[at]
    <3>1. PICK i \in 1 .. Len(r) : Agree(l, r, i - 1) /\ (i > Len(l) \/ l[i] < r[i])
      BY <2>3 DEF Less
    <3>2. ~(i > at)
      <4>1. SUFFICES ASSUME i > at PROVE FALSE
        OBVIOUS
      <4>2. at \in 1 .. i - 1
        BY <1>4, <3>1, <4>1
      <4>3. QED
        BY <1>3, <1>7, <3>1, <4>2 DEF Agree
    <3>3. ~(i < at)
      <4>1. SUFFICES ASSUME i < at PROVE FALSE
        OBVIOUS
      <4>2. i \in 1 .. at - 1 /\ i <= Len(l) /\ l[i] \in Nat
        BY <1>1, <1>4, <2>1, <3>1, <4>1
      <4>3. QED
        BY <1>5, <3>1, <4>2 DEF Agree
    <3>4. i = at
      BY <1>4, <3>1, <3>2, <3>3
    <3>5. QED
      BY <1>1, <2>1, <3>1, <3>4
  <2>4. QED
    BY <2>2, <2>3
<1>8. QED
  BY <1>4, <1>5, <1>6, <1>7 DEF size

-----------------------------------------------------------------------------
(* Each prefix length is the length of a common prefix of the key and an    *)
(* entry outside the range: of one below it, that is longer than the        *)
(* prefix, and of one above it.                                             *)
LowWitness ==
    loPrefix > 0 => \E w \in 1 .. lo :
        Agree(entries[w], key, loPrefix) /\ loPrefix < Len(entries[w])

HighWitness ==
    hiPrefix > 0 => \E w \in hi + 1 .. Len(entries) : Agree(entries[w], key, hiPrefix)

Typed ==
    /\ entries \in Seq(Keys) /\ Ascending(entries)
    /\ key \in Keys \ {<<>>}
    /\ lo \in Nat /\ hi \in Nat /\ lo <= hi /\ hi <= Len(entries)
    /\ loPrefix \in Nat /\ loPrefix < Len(key)
    /\ hiPrefix \in Nat /\ hiPrefix < Len(key)
    /\ equal \in BOOLEAN
    /\ exact \in BOOLEAN \cup {NotRead}
    /\ aborted \in BOOLEAN

IInv == Typed /\ LowWitness /\ HighWitness

LEMMA Strings ==
    ASSUME Typed
    PROVE  /\ key \in Seq(Nat) /\ Len(key) \in Nat /\ Len(key) > 0
           /\ Len(entries) \in Nat
           /\ \A i \in 1 .. Len(entries) : entries[i] \in Seq(Nat) /\ entries[i] \in Keys
<1>1. Keys \subseteq Seq(Nat)
  BY PrefixAssumption DEF Bytes
<1>2. key \in Seq(Nat) /\ key # <<>>
  BY <1>1 DEF Typed
<1>3. Len(key) > 0 /\ Len(key) \in Nat
  BY <1>2, EmptySeq, LenProperties
<1>4. Len(entries) \in Nat /\ \A i \in 1 .. Len(entries) : entries[i] \in Keys
  BY DEF Typed
<1>5. QED
  BY <1>1, <1>2, <1>3, <1>4

(* The invariant that justifies the comparator.                             *)
LEMMA RangeShares ==
    ASSUME IInv, NEW i \in lo + 1 .. hi
    PROVE  /\ i \in 1 .. Len(entries)
           /\ PrefixSize \in Nat /\ PrefixSize < Len(key)
           /\ Agree(entries[i], key, PrefixSize)
           /\ PrefixSize > 0 => PrefixSize < Len(entries[i])
<1> DEFINE p == PrefixSize
<1>1. i \in 1 .. Len(entries) /\ i \in Int
  BY DEF IInv, Typed
<1>2. p \in Nat /\ p < Len(key) /\ p <= loPrefix /\ p <= hiPrefix
  BY Strings DEF IInv, Typed, PrefixSize, Shorter
<1>3. entries[i] \in Seq(Nat) /\ key \in Seq(Nat)
  BY <1>1, Strings DEF IInv
<1> HIDE DEF p
<1>4. CASE p = 0
  <2>1. Agree(entries[i], key, 0)
    BY <1>3 DEF Agree
  <2>2. QED
    BY <1>1, <1>2, <1>4, <2>1 DEF p
<1>5. CASE p > 0
  <2>1. loPrefix > 0 /\ hiPrefix > 0 /\ loPrefix \in Int /\ hiPrefix \in Int
    BY <1>2, <1>5 DEF IInv, Typed
  <2>2. PICK v \in 1 .. lo : Agree(entries[v], key, loPrefix) /\ loPrefix < Len(entries[v])
    BY <2>1 DEF IInv, LowWitness
  <2>3. PICK w \in hi + 1 .. Len(entries) : Agree(entries[w], key, hiPrefix)
    BY <2>1 DEF IInv, HighWitness
  <2>4. v \in 1 .. Len(entries) /\ w \in 1 .. Len(entries) /\ v < i /\ i < w
    BY <1>1, <2>2, <2>3, Strings DEF IInv, Typed
  <2>5. entries[v] \in Seq(Nat) /\ entries[w] \in Seq(Nat)
    BY <2>4, Strings DEF IInv
  <2>6. Less(entries[v], entries[i]) /\ Less(entries[i], entries[w])
    BY <1>1, <2>4 DEF IInv, Typed, Ascending
  <2>7. Agree(entries[v], key, p) /\ Agree(entries[w], key, p)
    <3>1. Agree(entries[v], key, p)
      BY <1>2, <1>3, <2>1, <2>2, <2>5, AgreeShorter
    <3>2. Agree(entries[w], key, p)
      BY <1>2, <1>3, <2>1, <2>3, <2>5, AgreeShorter
    <3>3. QED
      BY <3>1, <3>2
  <2>8. Agree(entries[v], entries[w], p)
    BY <1>3, <2>5, <2>7 DEF Agree
  <2>9. Agree(entries[v], entries[i], p)
    BY <1>2, <1>3, <2>5, <2>6, <2>8, Squeeze
  <2>10. Agree(entries[i], key, p)
    BY <1>3, <2>5, <2>7, <2>9 DEF Agree
  <2>11. p < Len(entries[v])
    BY <1>2, <2>2, <2>5 DEF IInv, Typed
  <2>12. p < Len(entries[i])
    BY <1>2, <1>3, <2>5, <2>6, <2>9, <2>11, SqueezeLonger
  <2>13. QED
    BY <1>1, <1>2, <2>10, <2>12 DEF p
<1>6. QED
  BY <1>2, <1>4, <1>5

(* What one call of the comparator does, in terms of whole keys.            *)
LEMMA CompareStep ==
    ASSUME IInv, NEW mid \in lo + 1 .. hi, CompareLower(mid)
    PROVE  /\ UNCHANGED <<entries, key, exact, aborted>>
           /\ \/ Less(entries[mid], key) /\ lo' = mid /\ hi' = hi
              \/ ~Less(entries[mid], key) /\ hi' = mid - 1 /\ lo' = lo
           /\ equal' \in BOOLEAN
           /\ \/ loPrefix' = loPrefix /\ lo' \in {lo, mid}
              \/ /\ lo' = mid /\ loPrefix' \in Nat
                 /\ loPrefix' < Len(key) /\ loPrefix' < Len(entries[mid])
                 /\ Agree(entries[mid], key, loPrefix')
           /\ \/ hiPrefix' = hiPrefix /\ hi' \in {hi, mid - 1}
              \/ /\ hi' = mid - 1 /\ hiPrefix' \in Nat
                 /\ hiPrefix' < Len(key)
                 /\ Agree(entries[mid], key, hiPrefix')
<1> DEFINE l == entries[mid]
           size == Shorter(Len(l), Len(key))
<1>1. /\ mid \in 1 .. Len(entries)
      /\ PrefixSize \in Nat
      /\ Agree(l, key, PrefixSize)
  BY RangeShares
<1>2. l \in Seq(Nat) /\ key \in Seq(Nat) /\ Len(l) \in Nat /\ Len(key) \in Nat
  BY <1>1, Strings DEF IInv
<1>3. PICK at \in 1 .. size + 1 :
        /\ MismatchAt(l, key, PrefixSize, at)
        /\ \/ at > size /\ NoMismatch(mid)
           \/ at <= size /\ EntryLower(mid, at)
           \/ at <= size /\ EntryHigher(mid, at)
  BY DEF CompareLower
<1>4. UNCHANGED <<entries, key, exact, aborted>>
  BY DEF CompareLower
<1>5. /\ at \in Nat /\ at - 1 \in Nat
      /\ Agree(l, key, at - 1)
      /\ at > size => (Less(l, key) <=> Len(l) < Len(key))
      /\ at <= size => (Less(l, key) <=> l[at] < key[at])
  BY <1>1, <1>2, <1>3, Comparison
<1>6. at <= size => at - 1 < Len(l) /\ at - 1 < Len(key)
  <2>1. size <= Len(l) /\ size <= Len(key) /\ size \in Nat
    BY <1>2 DEF Shorter
  <2> HIDE DEF size
  <2>2. SUFFICES ASSUME at <= size PROVE at <= Len(l) /\ at <= Len(key)
    BY <1>2, <1>5
  <2>3. at \in Nat
    BY <1>5
  <2>4. QED
    BY <1>2, <2>1, <2>2, <2>3
<1>7. CASE at > size /\ NoMismatch(mid)
  BY <1>2, <1>4, <1>5, <1>7 DEF NoMismatch, TakeUpper, TakeLower
<1>8. CASE at <= size /\ EntryLower(mid, at)
  <2>1. at - 1 < Len(l) /\ at - 1 < Len(key)
    BY <1>6, <1>8
  <2>2. /\ Less(l, key) /\ lo' = mid /\ hi' = hi /\ loPrefix' = at - 1
        /\ hiPrefix' = hiPrefix /\ equal' = equal
    BY <1>5, <1>8 DEF EntryLower, TakeUpper
  <2>3. QED
    BY <1>4, <1>5, <2>1, <2>2 DEF IInv, Typed
<1>9. CASE at <= size /\ EntryHigher(mid, at)
  <2>1. at - 1 < Len(l) /\ at - 1 < Len(key)
    BY <1>6, <1>9
  <2>2. /\ ~Less(l, key) /\ hi' = mid - 1 /\ lo' = lo /\ hiPrefix' = at - 1
        /\ loPrefix' = loPrefix /\ equal' = equal
    BY <1>5, <1>9 DEF EntryHigher, TakeLower
  <2>3. QED
    BY <1>4, <1>5, <2>1, <2>2 DEF IInv, Typed
<1>10. QED
  BY <1>3, <1>7, <1>8, <1>9

LEMMA Wider ==
    ASSUME NEW m \in Nat, NEW n \in Nat, NEW last \in Nat, n <= m, NEW w \in m + 1 .. last
    PROVE  w \in n + 1 .. last
  OBVIOUS

LEMMA InitInv == Init => IInv
<1> SUFFICES ASSUME Init PROVE IInv
  OBVIOUS
<1>1. entries \in Seq(Keys) /\ Len(entries) > 0 /\ Ascending(entries)
  BY PrefixAssumption DEF Init, Bytes
<1>2. key \in Seq(Nat) /\ key # <<>>
  BY PrefixAssumption DEF Init, Bytes
<1>3. Len(key) \in Nat /\ Len(key) > 0
  BY <1>2, EmptySeq
<1>4. Len(entries) \in Nat
  BY <1>1
<1>5. lo = 0 /\ hi = Len(entries) /\ loPrefix = 0 /\ hiPrefix = 0
  BY DEF Init
<1>6. Typed
  <2>1. /\ lo \in Nat /\ hi \in Nat /\ lo <= hi /\ hi <= Len(entries)
        /\ loPrefix \in Nat /\ loPrefix < Len(key)
        /\ hiPrefix \in Nat /\ hiPrefix < Len(key)
    BY <1>3, <1>4, <1>5
  <2>2. /\ key \in Keys \ {<<>>}
        /\ equal \in BOOLEAN
        /\ exact \in BOOLEAN \cup {NotRead}
        /\ aborted \in BOOLEAN
    BY Zenon DEF Init
  <2>3. QED
    BY <1>1, <2>1, <2>2 DEF Typed
<1>7. LowWitness /\ HighWitness
  BY <1>5 DEF LowWitness, HighWitness
<1>8. QED
  BY <1>6, <1>7 DEF IInv

LEMMA StepInv == IInv /\ [Next]_vars => IInv'
<1> SUFFICES ASSUME IInv, [Next]_vars PROVE IInv'
  OBVIOUS
<1>1. ASSUME NEW mid \in lo + 1 .. hi, CompareLower(mid)
      PROVE  IInv'
  <2>1. /\ UNCHANGED <<entries, key, exact, aborted>>
        /\ \/ Less(entries[mid], key) /\ lo' = mid /\ hi' = hi
           \/ ~Less(entries[mid], key) /\ hi' = mid - 1 /\ lo' = lo
        /\ equal' \in BOOLEAN
        /\ \/ loPrefix' = loPrefix /\ lo' \in {lo, mid}
           \/ /\ lo' = mid /\ loPrefix' \in Nat
              /\ loPrefix' < Len(key) /\ loPrefix' < Len(entries[mid])
              /\ Agree(entries[mid], key, loPrefix')
        /\ \/ hiPrefix' = hiPrefix /\ hi' \in {hi, mid - 1}
           \/ /\ hi' = mid - 1 /\ hiPrefix' \in Nat
              /\ hiPrefix' < Len(key)
              /\ Agree(entries[mid], key, hiPrefix')
    BY <1>1, CompareStep
  <2>2. /\ lo \in Nat /\ hi \in Nat /\ Len(entries) \in Nat
        /\ mid \in Nat /\ lo < mid /\ mid <= hi /\ hi <= Len(entries)
    BY Strings DEF IInv, Typed
  <2>3. Typed'
    BY <2>1, <2>2 DEF IInv, Typed
  <2>4. LowWitness'
    <3>1. lo' \in Nat /\ lo <= lo'
      BY <2>1, <2>2
    <3>2. CASE loPrefix' = loPrefix
      BY <2>1, <2>2, <3>1, <3>2 DEF IInv, LowWitness
    <3>3. CASE /\ lo' = mid
               /\ loPrefix' < Len(entries[mid])
               /\ Agree(entries[mid], key, loPrefix')
      <4>1. mid \in 1 .. lo'
        BY <2>2, <3>3
      <4>2. QED
        BY <2>1, <3>3, <4>1 DEF LowWitness
    <3>4. QED
      BY <2>1, <3>2, <3>3
  <2>5. HighWitness'
    <3>1. hi' \in Nat /\ hi' <= hi
      BY <2>1, <2>2
    <3>2. CASE hiPrefix' = hiPrefix
      <4>1. SUFFICES ASSUME hiPrefix' > 0
                     PROVE  \E w \in hi' + 1 .. Len(entries) :
                                Agree(entries[w], key, hiPrefix')
        BY <2>1 DEF HighWitness
      <4>2. PICK w \in hi + 1 .. Len(entries) : Agree(entries[w], key, hiPrefix)
        BY <3>2, <4>1 DEF IInv, HighWitness
      <4>3. w \in hi' + 1 .. Len(entries)
        BY <2>2, <3>1, <4>2, Wider
      <4>4. QED
        BY <3>2, <4>2, <4>3
    <3>3. CASE hi' = mid - 1 /\ Agree(entries[mid], key, hiPrefix')
      <4>1. mid \in hi' + 1 .. Len(entries)
        BY <2>2, <3>3
      <4>2. QED
        BY <2>1, <3>3, <4>1 DEF HighWitness
    <3>4. QED
      BY <2>1, <3>2, <3>3
  <2>6. QED
    BY <2>3, <2>4, <2>5 DEF IInv
<1>2. ASSUME NEW mid \in lo + 1 .. hi, AssertFails(mid)
      PROVE  IInv'
  BY <1>2 DEF AssertFails, IInv, Typed, LowWitness, HighWitness
<1>3. CASE ReadEqual
  BY <1>3 DEF ReadEqual, IInv, Typed, LowWitness, HighWitness
<1>4. CASE UNCHANGED vars
  BY <1>4 DEF vars, IInv, Typed, LowWitness, HighWitness
<1>5. QED
  BY <1>1, <1>2, <1>3, <1>4 DEF Next

LEMMA Invariance == Spec => []IInv
  BY InitInv, StepInv, PTL DEF Spec

-----------------------------------------------------------------------------
(* The variables keep their types, and no prefix ever covers the whole key. *)
THEOREM TypeCorrect == Spec => []TypeOK
<1>1. IInv => TypeOK
  <2> SUFFICES ASSUME IInv PROVE TypeOK
    OBVIOUS
  <2>1. Len(entries) \in Nat /\ Len(key) \in Nat
    BY Strings DEF IInv
  <2>2. /\ lo \in 0 .. Len(entries) /\ hi \in lo .. Len(entries)
        /\ loPrefix \in 0 .. Len(key) - 1 /\ hiPrefix \in 0 .. Len(key) - 1
    BY <2>1 DEF IInv, Typed
  <2>3. QED
    BY <2>2 DEF IInv, Typed, TypeOK
<1>2. QED
  BY <1>1, Invariance, PTL

(* compareLower skips only bytes that every remaining entry shares with the *)
(* key.                                                                     *)
THEOREM SkippedBytesShared == Spec => []PrefixShared
<1>1. IInv => PrefixShared
  BY RangeShares DEF PrefixShared
<1>2. QED
  BY <1>1, Invariance, PTL

(* The order Bisection compares by is the one used here.                    *)
LEMMA SameOrder == \A a, b : Plain!Less(a, b) <=> Less(a, b)
<1>1. \A a, b, n : Plain!Agree(a, b, n) <=> Agree(a, b, n)
  BY DEF Plain!Agree, Agree
<1>2. QED
  BY <1>1 DEF Plain!Less, Less

(* lowerBound's search implements the plain bisection.                      *)
THEOREM SearchIsBisection == Spec => ComparesInFull
<1>1. Init => Plain!Init
  <2>1. \A s : Ascending(s) => Plain!Ascending(s)
    BY SameOrder DEF Ascending, Plain!Ascending
  <2>2. QED
    BY <2>1, PrefixAssumption DEF Init, Plain!Init, Bytes
<1>2. IInv /\ [Next]_vars => [Plain!Next]_<<entries, key, lo, hi>>
  <2> SUFFICES ASSUME IInv, [Next]_vars
               PROVE  [Plain!Next]_<<entries, key, lo, hi>>
    OBVIOUS
  <2>1. ASSUME NEW mid \in lo + 1 .. hi, CompareLower(mid)
        PROVE  Plain!Next
    BY <2>1, CompareStep, SameOrder DEF Plain!Next, Plain!Probe
  <2>2. ASSUME NEW mid \in lo + 1 .. hi, AssertFails(mid)
        PROVE  UNCHANGED <<entries, key, lo, hi>>
    BY <2>2 DEF AssertFails
  <2>3. CASE ReadEqual
    BY <2>3 DEF ReadEqual
  <2>4. CASE UNCHANGED vars
    BY <2>4 DEF vars
  <2>5. QED
    BY <2>1, <2>2, <2>3, <2>4 DEF Next
<1>3. QED
  BY <1>1, <1>2, Invariance, PTL DEF Spec, ComparesInFull, Plain!Spec

(* The range closes in on the lower bound of the key.                       *)
THEOREM ClosesInOnLowerBound == Spec => []Partitioned
<1>1. Init => Partitioned
  <2> SUFFICES ASSUME Init PROVE Partitioned
    OBVIOUS
  <2>1. lo = 0 /\ hi = Len(entries) /\ Len(entries) \in Nat
    BY PrefixAssumption DEF Init, Bytes
  <2>2. QED
    BY <2>1 DEF Partitioned
<1>2. IInv /\ Partitioned /\ [Next]_vars => Partitioned'
  <2> SUFFICES ASSUME IInv, Partitioned, [Next]_vars PROVE Partitioned'
    OBVIOUS
  <2>1. ASSUME NEW mid \in lo + 1 .. hi, CompareLower(mid)
        PROVE  Partitioned'
    <3>1. /\ UNCHANGED <<entries, key>>
          /\ \/ Less(entries[mid], key) /\ lo' = mid /\ hi' = hi
             \/ ~Less(entries[mid], key) /\ hi' = mid - 1 /\ lo' = lo
      BY <2>1, CompareStep
    <3>2. /\ lo \in Nat /\ hi \in Nat /\ Len(entries) \in Nat
          /\ mid \in 1 .. Len(entries) /\ hi <= Len(entries)
          /\ key \in Seq(Nat)
          /\ \A i \in 1 .. Len(entries) : entries[i] \in Seq(Nat)
      BY Strings DEF IInv, Typed
    <3>3. CASE Less(entries[mid], key) /\ lo' = mid /\ hi' = hi
      <4>1. ASSUME NEW i \in 1 .. mid
            PROVE  Less(entries[i], key)
        <5>1. CASE i = mid
          BY <3>3, <5>1
        <5>2. CASE i < mid
          <6>1. i \in 1 .. Len(entries) /\ Less(entries[i], entries[mid])
            BY <3>2, <5>2 DEF IInv, Typed, Ascending
          <6>2. QED
            BY <3>2, <3>3, <6>1, LessTransitive
        <5>3. QED
          BY <3>2, <5>1, <5>2
      <4>2. QED
        BY <3>1, <3>3, <4>1 DEF Partitioned
    <3>4. CASE ~Less(entries[mid], key) /\ hi' = mid - 1 /\ lo' = lo
      <4>1. ASSUME NEW i \in mid .. Len(entries)
            PROVE  ~Less(entries[i], key)
        <5>1. CASE i = mid
          BY <3>4, <5>1
        <5>2. CASE mid < i
          <6>1. i \in 1 .. Len(entries) /\ Less(entries[mid], entries[i])
            BY <3>2, <5>2 DEF IInv, Typed, Ascending
          <6>2. QED
            BY <3>2, <3>4, <6>1, LessTransitive
        <5>3. QED
          BY <3>2, <5>1, <5>2
      <4>2. hi' + 1 = mid
        BY <3>2, <3>4
      <4>3. QED
        BY <3>1, <3>4, <4>1, <4>2 DEF Partitioned
    <3>5. QED
      BY <3>1, <3>3, <3>4
  <2>2. ASSUME NEW mid \in lo + 1 .. hi, AssertFails(mid)
        PROVE  Partitioned'
    BY <2>2 DEF AssertFails, Partitioned
  <2>3. CASE ReadEqual
    BY <2>3 DEF ReadEqual, Partitioned
  <2>4. CASE UNCHANGED vars
    BY <2>4 DEF vars, Partitioned
  <2>5. QED
    BY <2>1, <2>2, <2>3, <2>4 DEF Next
<1>3. QED
  BY <1>1, <1>2, Invariance, PTL DEF Spec

(* assert(prefixSize < cmpSize) fails at the empty entry and at no other.   *)
THEOREM AssertHolds == Spec => []AssertFailsAtEmpty
<1>1. ASSUME IInv, NEW mid \in lo + 1 .. hi
      PROVE  OutOfBytes(mid) <=> entries[mid] = <<>>
  <2>1. /\ mid \in 1 .. Len(entries)
        /\ PrefixSize \in Nat /\ PrefixSize < Len(key)
        /\ PrefixSize > 0 => PrefixSize < Len(entries[mid])
    BY <1>1, RangeShares
  <2>2. entries[mid] \in Seq(Nat) /\ Len(key) \in Nat
    BY <1>1, <2>1, Strings DEF IInv
  <2>3. Len(entries[mid]) \in Nat /\ (entries[mid] = <<>> <=> Len(entries[mid]) = 0)
    BY <2>2, EmptySeq
  <2>4. PICK n \in Nat, p \in Nat, l \in Nat :
            n = Len(entries[mid]) /\ p = PrefixSize /\ l = Len(key)
    BY <2>1, <2>2, <2>3
  <2>5. p >= Shorter(n, l) <=> n = 0
    BY <2>1, <2>4 DEF Shorter
  <2>6. QED
    BY <2>3, <2>4, <2>5 DEF OutOfBytes
<1>2. IInv => AssertFailsAtEmpty
  BY <1>1 DEF AssertFailsAtEmpty
<1>3. QED
  BY <1>2, Invariance, PTL

-----------------------------------------------------------------------------
(* The order of byte strings, for strings of any length.                    *)

(* Induction over positions takes the form of a least position.             *)
LEMMA Least ==
    ASSUME NEW T, T \subseteq Nat, T # {}
    PROVE  \E n \in T : \A m \in T : n <= m
<1> DEFINE R == OpToRel(<, Nat)
<1>1. IsWellFoundedOn(R, Nat)
  BY NatLessThanWellFounded
<1>2. \A m, n \in Nat : m < n => <<m, n>> \in R
  BY DEF OpToRel
<1> HIDE DEF R
<1>3. PICK n \in T : \A m \in T : ~(<<m, n>> \in R)
  BY <1>1, WFMin
<1>4. ASSUME NEW m \in T
      PROVE  n <= m
  <2>1. m \in Nat /\ n \in Nat /\ ~(m < n)
    BY <1>2, <1>3
  <2>2. QED
    BY <2>1
<1>5. QED
  BY <1>4

(* Two different strings are ordered by the first byte at which they differ *)
(* or at which one of them ends.                                            *)
LEMMA Comparable ==
    ASSUME NEW a \in Seq(Nat), NEW b \in Seq(Nat)
    PROVE  Less(a, b) \/ Less(b, a) \/ KeyEquals(a, b)
<1> DEFINE Same(n) == n <= Len(a) /\ n <= Len(b) /\ a[n] = b[n]
           T == {n \in Nat : n >= 1 /\ ~Same(n)}
<1>1. /\ Len(a) \in Nat /\ Len(b) \in Nat
      /\ \A k \in 1 .. Len(a) : a[k] \in Nat
      /\ \A k \in 1 .. Len(b) : b[k] \in Nat
  BY Elements
<1>2. Len(a) + 1 \in T
  BY <1>1
<1>3. PICK n \in T : \A m \in T : n <= m
  BY <1>2, Least
<1>4. n \in Nat /\ n >= 1 /\ ~Same(n)
  BY <1>3
<1>5. ASSUME NEW k \in 1 .. n - 1
      PROVE  Same(k)
  BY <1>3, <1>4
<1>6. n - 1 <= Len(a) /\ n - 1 <= Len(b) /\ \A k \in 1 .. n - 1 : a[k] = b[k]
  <2>1. CASE n = 1
    BY <1>1, <2>1
  <2>2. CASE n > 1
    <3>1. Same(n - 1)
      BY <1>4, <1>5, <2>2
    <3>2. QED
      BY <1>5, <3>1
  <2>3. QED
    BY <1>4, <2>1, <2>2
<1>7. Agree(a, b, n - 1) /\ Agree(b, a, n - 1)
  BY <1>6 DEF Agree
<1>8. CASE n > Len(a) /\ n > Len(b)
  <2>1. Len(a) = n - 1 /\ Len(b) = n - 1
    BY <1>1, <1>4, <1>6, <1>8
  <2>2. QED
    BY <1>7, <2>1 DEF KeyEquals
<1>9. CASE n > Len(a) /\ n <= Len(b)
  BY <1>1, <1>4, <1>7, <1>9 DEF Less
<1>10. CASE n <= Len(a) /\ n > Len(b)
  BY <1>1, <1>4, <1>7, <1>10 DEF Less
<1>11. CASE n <= Len(a) /\ n <= Len(b)
  <2>1. a[n] < b[n] \/ b[n] < a[n]
    BY <1>1, <1>4, <1>11
  <2>2. n \in 1 .. Len(a) /\ n \in 1 .. Len(b)
    BY <1>1, <1>4, <1>11
  <2>3. QED
    BY <1>7, <2>1, <2>2 DEF Less
<1>12. QED
  BY <1>1, <1>4, <1>8, <1>9, <1>10, <1>11

LEMMA LessIrreflexive ==
    ASSUME NEW a \in Seq(Nat)
    PROVE  ~Less(a, a)
<1>1. SUFFICES ASSUME Less(a, a) PROVE FALSE
  OBVIOUS
<1>2. PICK i \in 1 .. Len(a) : i > Len(a) \/ a[i] < a[i]
  BY <1>1 DEF Less
<1>3. i \in Nat /\ i <= Len(a) /\ Len(a) \in Nat /\ a[i] \in Nat
  BY Elements
<1>4. QED
  BY <1>2, <1>3

LEMMA EqualStrings ==
    ASSUME NEW a \in Seq(Nat), NEW b \in Seq(Nat), KeyEquals(a, b)
    PROVE  a = b
<1>1. Len(a) = Len(b) /\ \A k \in 1 .. Len(a) : a[k] = b[k]
  BY DEF KeyEquals, Agree
<1>2. QED
  BY <1>1, SMTT(30)

(* KeyLesser and KeyEquals together are a total order of the byte strings.  *)
LEMMA Trichotomy ==
    ASSUME NEW a \in Seq(Nat), NEW b \in Seq(Nat)
    PROVE  \/ KeyLesser(a, b) /\ ~KeyLesser(b, a) /\ ~KeyEquals(b, a)
           \/ KeyLesser(b, a) /\ ~KeyLesser(a, b) /\ ~KeyEquals(b, a)
           \/ KeyEquals(b, a) /\ ~KeyLesser(b, a) /\ ~KeyLesser(a, b)
<1>1. Less(b, a) \/ Less(a, b) \/ KeyEquals(b, a)
  BY Comparable
<1>2. ~(Less(a, b) /\ Less(b, a))
  BY LessTransitive, LessIrreflexive
<1>3. KeyEquals(b, a) => ~Less(a, b) /\ ~Less(b, a)
  BY EqualStrings, LessIrreflexive
<1>4. QED
  BY <1>1, <1>2, <1>3 DEF KeyLesser

(* For every stored key and the key searched for exactly one of smaller,    *)
(* equal and larger holds.                                                  *)
THEOREM KeysTotallyOrdered == Spec => []TotalOrder
<1>1. IInv => TotalOrder
  BY Strings, Trichotomy DEF IInv, TotalOrder
<1>2. QED
  BY <1>1, Invariance, PTL

-----------------------------------------------------------------------------
(* mEqual.                                                                  *)

(* A probe sets mEqual exactly if it meets the key.                         *)
LEMMA EqualStep ==
    ASSUME IInv, NEW mid \in lo + 1 .. hi, CompareLower(mid)
    PROVE  equal' <=> equal \/ entries[mid] = key
<1> DEFINE l == entries[mid]
           size == Shorter(Len(l), Len(key))
<1>1. PICK at \in 1 .. size + 1 :
        /\ MismatchAt(l, key, PrefixSize, at)
        /\ \/ at > size /\ NoMismatch(mid)
           \/ at <= size /\ EntryLower(mid, at)
           \/ at <= size /\ EntryHigher(mid, at)
  BY DEF CompareLower
<1>2. /\ mid \in 1 .. Len(entries)
      /\ PrefixSize \in Nat
      /\ Agree(l, key, PrefixSize)
  BY RangeShares
<1>3. l \in Seq(Nat) /\ key \in Seq(Nat) /\ Len(l) \in Nat /\ Len(key) \in Nat
  BY <1>2, Strings DEF IInv
<1>4. at - 1 \in Nat /\ at \in Nat /\ Agree(l, key, at - 1)
  BY <1>1, <1>2, <1>3, Comparison
<1>5. CASE at > size /\ NoMismatch(mid)
  <2>1. equal' = (equal \/ Len(l) = Len(key))
    BY <1>5 DEF NoMismatch
  <2>2. ASSUME Len(l) = Len(key)
        PROVE  l = key
    <3>1. Len(l) <= at - 1
      BY <1>3, <1>4, <1>5, <2>2 DEF Shorter
    <3>2. Agree(l, key, Len(l))
      BY <1>3, <1>4, <3>1, AgreeShorter
    <3>3. QED
      BY <1>3, <2>2, <3>2, EqualStrings DEF KeyEquals
  <2>3. QED
    BY <2>1, <2>2
<1>6. CASE at <= size /\ (EntryLower(mid, at) \/ EntryHigher(mid, at))
  <2>1. equal' = equal
    BY <1>6 DEF EntryLower, EntryHigher
  <2>2. l[at] # key[at]
    BY <1>1, <1>6 DEF MismatchAt
  <2>3. QED
    BY <2>1, <2>2
<1>7. QED
  BY <1>1, <1>5, <1>6

(* mEqual speaks of the entries that the search has left behind.            *)
EqualOutside ==
    /\ equal <=> \E i \in 1 .. Len(entries) : (i <= lo \/ hi < i) /\ entries[i] = key
    /\ exact = TRUE => equal

LEMMA EqualOutsideStep ==
    ASSUME IInv, EqualOutside, NEW mid \in lo + 1 .. hi, CompareLower(mid)
    PROVE  EqualOutside'
<1>1. equal' <=> equal \/ entries[mid] = key
  BY EqualStep
<1>2. /\ UNCHANGED <<entries, key, exact>>
      /\ \/ Less(entries[mid], key) /\ lo' = mid /\ hi' = hi
         \/ ~Less(entries[mid], key) /\ hi' = mid - 1 /\ lo' = lo
  BY CompareStep
<1>3. /\ lo \in Nat /\ hi \in Nat /\ Len(entries) \in Nat
      /\ mid \in 1 .. Len(entries) /\ mid \in Nat /\ lo < mid /\ mid <= hi
      /\ key \in Seq(Nat)
      /\ \A i \in 1 .. Len(entries) : entries[i] \in Seq(Nat)
  BY Strings DEF IInv, Typed
<1>4. ASSUME NEW i \in 1 .. Len(entries), entries[i] = key
      PROVE  /\ Less(entries[mid], key) => mid < i
             /\ ~Less(entries[mid], key) => i <= mid
  <2>1. i < mid => Less(entries[i], entries[mid])
    BY <1>3 DEF IInv, Typed, Ascending
  <2>2. mid < i => Less(entries[mid], entries[i])
    BY <1>3 DEF IInv, Typed, Ascending
  <2>3. ~(Less(key, entries[mid]) /\ Less(entries[mid], key)) /\ ~Less(key, key)
    BY <1>3, LessTransitive, LessIrreflexive
  <2>4. i \in Int /\ mid \in Int
    BY <1>3
  <2>5. QED
    BY <1>4, <2>1, <2>2, <2>3, <2>4
<1>5. ASSUME NEW i \in 1 .. Len(entries), entries[i] = key
      PROVE  (i <= lo' \/ hi' < i) <=> (i <= lo \/ hi < i \/ i = mid)
  <2>1. CASE Less(entries[mid], key) /\ lo' = mid /\ hi' = hi
    <3>1. mid < i
      BY <1>4, <1>5, <2>1
    <3>2. QED
      BY <1>3, <2>1, <3>1
  <2>2. CASE ~Less(entries[mid], key) /\ hi' = mid - 1 /\ lo' = lo
    <3>1. i <= mid
      BY <1>4, <1>5, <2>2
    <3>2. QED
      BY <1>3, <2>2, <3>1
  <2>3. QED
    BY <1>2, <2>1, <2>2
<1>6. equal' <=> \E i \in 1 .. Len(entries) : (i <= lo' \/ hi' < i) /\ entries[i] = key
  BY <1>1, <1>3, <1>5 DEF EqualOutside
<1>7. exact' = TRUE => equal'
  BY <1>1, <1>2 DEF EqualOutside
<1>8. QED
  BY <1>2, <1>6, <1>7 DEF EqualOutside

LEMMA EqualOutsideInvariance == Spec => []EqualOutside
<1>1. Init => EqualOutside
  <2> SUFFICES ASSUME Init PROVE EqualOutside
    OBVIOUS
  <2>1. lo = 0 /\ hi = Len(entries) /\ Len(entries) \in Nat /\ equal = FALSE /\ exact = NotRead
    BY PrefixAssumption DEF Init, Bytes
  <2>2. exact # TRUE
    BY <2>1, PrefixAssumption DEF Bytes
  <2>3. ~\E i \in 1 .. Len(entries) : i <= lo \/ hi < i
    BY <2>1
  <2>4. QED
    BY <2>1, <2>2, <2>3 DEF EqualOutside
<1>2. IInv /\ EqualOutside /\ [Next]_vars => EqualOutside'
  <2> SUFFICES ASSUME IInv, EqualOutside, [Next]_vars PROVE EqualOutside'
    OBVIOUS
  <2>1. ASSUME NEW mid \in lo + 1 .. hi, AssertFails(mid)
        PROVE  EqualOutside'
    BY <2>1 DEF AssertFails, EqualOutside
  <2>2. CASE ReadEqual
    BY <2>2 DEF ReadEqual, EqualOutside
  <2>3. CASE UNCHANGED vars
    BY <2>3 DEF vars, EqualOutside
  <2>4. QED
    BY <2>1, <2>2, <2>3, EqualOutsideStep DEF Next
<1>3. QED
  BY <1>1, <1>2, Invariance, PTL DEF Spec

(* When the search is over, mEqual tells whether the key is stored.         *)
THEOREM EqualIsExact == Spec => []EqualTells
<1>1. IInv /\ EqualOutside => EqualTells
  <2> SUFFICES ASSUME IInv, EqualOutside, lo = hi
               PROVE  equal <=> \E i \in 1 .. Len(entries) : entries[i] = key
    BY DEF EqualTells
  <2>1. \A i \in 1 .. Len(entries) : i <= lo \/ hi < i
    BY DEF IInv, Typed
  <2>2. QED
    BY <2>1 DEF EqualOutside
<1>2. QED
  BY <1>1, Invariance, EqualOutsideInvariance, PTL

(* lowerBound reports no match that is not there, whenever equal() is read. *)
THEOREM NoFalseMatch == Spec => []ExactSound
<1>1. IInv /\ EqualOutside => ExactSound
  <2> SUFFICES ASSUME IInv, EqualOutside, exact = TRUE
               PROVE  \E i \in 1 .. Len(entries) : KeyEquals(key, entries[i])
    BY DEF ExactSound
  <2>1. PICK i \in 1 .. Len(entries) : entries[i] = key
    BY DEF EqualOutside
  <2>2. key \in Seq(Nat) /\ Len(key) \in Nat
    BY Strings DEF IInv
  <2>3. KeyEquals(key, key)
    BY <2>2 DEF KeyEquals, Agree
  <2>4. QED
    BY <2>1, <2>3
<1>2. QED
  BY <1>1, Invariance, EqualOutsideInvariance, PTL
=============================================================================
