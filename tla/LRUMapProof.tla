---------------------------- MODULE LRUMapProof ----------------------------
(***************************************************************************)
(* What the operations of LRUMap make of any such Map, for every set of    *)
(* keys and writes.                                                        *)
(***************************************************************************)
EXTENDS LRUMap, FiniteSetTheorems, SequenceTheorems, TLAPS

\* The entries of r are entries of m, in the order of m.
InOrder(r, m) ==
    \A i, j \in DOMAIN r : i < j =>
        \E a, b \in DOMAIN m : a < b /\ r[i] = m[a] /\ r[j] = m[b]

\* The fields of an entry.
LEMMA EntriesTyped ==
    ASSUME NEW K, NEW W, NEW m \in Seq(Entries(K, W)), NEW i \in DOMAIN m
    PROVE  /\ m[i] \in Entries(K, W) /\ m[i].key \in K /\ m[i].from \in W
           /\ m[i].pending \in BOOLEAN
<1>1. i \in 1 .. Len(m)
  BY LenProperties
<1>2. m[i] \in Entries(K, W)
  BY <1>1, ElementOfSeq
<1>3. QED
  BY <1>2 DEF Entries

\* Taking out one place of a sequence keeps all others, in their order.
LEMMA RemovedIsShorter ==
    ASSUME NEW S, NEW s \in Seq(S), NEW p \in DOMAIN s
    PROVE  /\ Removed(s, p) \in Seq(S)
           /\ Len(Removed(s, p)) = Len(s) - 1
           /\ \A i \in DOMAIN Removed(s, p) :
                Removed(s, p)[i] = IF i < p THEN s[i] ELSE s[i + 1]
<1> DEFINE a == SubSeq(s, 1, p - 1)
           b == SubSeq(s, p + 1, Len(s))
<1>1. p \in 1 .. Len(s) /\ Len(s) \in Nat
  BY LenProperties
<1>2. /\ a \in Seq(S) /\ Len(a) = p - 1
      /\ \A i \in 1 .. p - 1 : a[i] = s[i]
  BY <1>1, SubSeqProperties
<1>3. /\ b \in Seq(S) /\ Len(b) = Len(s) - p
      /\ \A i \in 1 .. Len(s) - p : b[i] = s[i + p]
  BY <1>1, SubSeqProperties
<1>4. /\ a \o b \in Seq(S) /\ Len(a \o b) = Len(a) + Len(b)
      /\ \A i \in 1 .. Len(a) + Len(b) :
            (a \o b)[i] = IF i <= Len(a) THEN a[i] ELSE b[i - Len(a)]
  BY <1>2, <1>3, ConcatProperties
<1>5. Removed(s, p) = a \o b
  BY DEF Removed
<1> HIDE DEF a, b
<1>6. Len(a) + Len(b) = Len(s) - 1
  BY <1>1, <1>2, <1>3
<1>7. DOMAIN (a \o b) = 1 .. Len(s) - 1
  BY <1>4, <1>6, LenProperties
<1>8. ASSUME NEW i \in 1 .. Len(s) - 1
      PROVE  (a \o b)[i] = IF i < p THEN s[i] ELSE s[i + 1]
  <2>1. CASE i < p
    BY <2>1, <1>1, <1>2, <1>4, <1>6
  <2>2. CASE ~(i < p)
    <3>1. i - Len(a) \in 1 .. Len(s) - p /\ ~(i <= Len(a))
      BY <2>2, <1>1, <1>2
    <3>2. (a \o b)[i] = b[i - Len(a)]
      BY <3>1, <1>4, <1>6
    <3>3. b[i - Len(a)] = s[i - Len(a) + p]
      BY <3>1, <1>3
    <3>a. i - Len(a) + p = i + 1
      BY <1>1, <1>2
    <3>4. QED
      BY <3>2, <3>3, <3>a, <2>2
  <2>3. QED
    BY <2>1, <2>2
<1>9. QED
  BY <1>4, <1>5, <1>6, <1>7, <1>8

\* Map.delete(k) leaves the other entries, and none of k.
LEMMA WithoutKey ==
    ASSUME NEW K, NEW W, NEW m \in Seq(Entries(K, W)), KeysDiffer(m), NEW k \in K
    PROVE  /\ Without(m, k) \in Seq(Entries(K, W))
           /\ KeysDiffer(Without(m, k))
           /\ Len(Without(m, k)) <= Len(m)
           /\ \A i \in DOMAIN Without(m, k) : Without(m, k)[i].key # k
           /\ \A i \in DOMAIN Without(m, k) : \E j \in DOMAIN m : Without(m, k)[i] = m[j]
           /\ \A j \in DOMAIN m : m[j].key # k =>
                \E i \in DOMAIN Without(m, k) : Without(m, k)[i] = m[j]
           /\ InOrder(Without(m, k), m)
<1>1. CASE k \notin KeysOf(m)
  BY <1>1, LenProperties DEF Without, KeysOf, InOrder
<1>2. CASE k \in KeysOf(m)
  <2> DEFINE p == CHOOSE i \in DOMAIN m : m[i].key = k
             r == Removed(m, p)
  <2>1. p \in DOMAIN m /\ m[p].key = k
    BY <1>2 DEF KeysOf
  <2>2. Without(m, k) = r
    BY <1>2 DEF Without
  <2>3. DOMAIN m = 1 .. Len(m) /\ Len(m) \in Nat
    BY LenProperties
  <2> HIDE DEF p
  <2>4. /\ r \in Seq(Entries(K, W)) /\ Len(r) = Len(m) - 1
        /\ \A i \in DOMAIN r : r[i] = IF i < p THEN m[i] ELSE m[i + 1]
    BY <2>1, RemovedIsShorter
  <2>5. DOMAIN r = 1 .. Len(m) - 1
    BY <2>4, LenProperties
  <2> HIDE DEF r
  <2> DEFINE from(i) == IF i < p THEN i ELSE i + 1
  <2>6. \A i \in DOMAIN r : from(i) \in DOMAIN m /\ from(i) # p /\ r[i] = m[from(i)]
    BY <2>1, <2>3, <2>4, <2>5
  <2>7. \A i, j \in DOMAIN r : from(i) = from(j) => i = j
    BY <2>1, <2>3, <2>5
  <2> HIDE DEF from
  <2>8. KeysDiffer(r)
    BY <2>6, <2>7 DEF KeysDiffer
  <2>9. \A i \in DOMAIN r : r[i].key # k
    BY <2>1, <2>6 DEF KeysDiffer
  <2>10. \A i \in DOMAIN r : \E j \in DOMAIN m : r[i] = m[j]
    BY <2>6
  <2>11. ASSUME NEW j \in DOMAIN m, m[j].key # k
         PROVE  \E i \in DOMAIN r : r[i] = m[j]
    <3> DEFINE i == IF j < p THEN j ELSE j - 1
    <3>1. i \in DOMAIN r /\ from(i) = j
      BY <2>1, <2>3, <2>5, <2>11 DEF from
    <3> HIDE DEF i
    <3>2. QED
      BY <2>6, <3>1
  <2>12. InOrder(r, m)
    <3> SUFFICES ASSUME NEW i \in DOMAIN r, NEW j \in DOMAIN r, i < j
                 PROVE  \E a, b \in DOMAIN m : a < b /\ r[i] = m[a] /\ r[j] = m[b]
      BY DEF InOrder
    <3>1. from(i) < from(j)
      BY <2>1, <2>3, <2>5 DEF from
    <3>2. QED
      BY <2>6, <3>1
  <2>13. QED
    BY <2>2, <2>3, <2>4, <2>8, <2>9, <2>10, <2>11, <2>12
<1>3. QED
  BY <1>1, <1>2

\* deleteOldest(n) leaves some of the entries.
LEMMA DropOldestKeeps ==
    ASSUME NEW K, NEW W, NEW m \in Seq(Entries(K, W)), KeysDiffer(m), NEW n \in Int
    PROVE  /\ DropOldest(m, n) \in Seq(Entries(K, W))
           /\ KeysDiffer(DropOldest(m, n))
           /\ Len(DropOldest(m, n)) = IF n < 1 THEN Len(m) ELSE IF n < Len(m) THEN Len(m) - n ELSE 0
           /\ \A i \in DOMAIN DropOldest(m, n) : \E j \in DOMAIN m : DropOldest(m, n)[i] = m[j]
           /\ InOrder(DropOldest(m, n), m)
<1>1. DOMAIN m = 1 .. Len(m) /\ Len(m) \in Nat
  BY LenProperties
<1>2. CASE n < 1
  BY <1>1, <1>2 DEF DropOldest, InOrder
<1>3. CASE ~(n < 1)
  <2> DEFINE r == SubSeq(m, n + 1, Len(m))
  <2>1. DropOldest(m, n) = r
    BY <1>3 DEF DropOldest
  <2>2. CASE n < Len(m)
    <3>a. n + 1 \in 1 .. Len(m) + 1 /\ n + 1 <= Len(m) /\ Len(m) - (n + 1) + 1 = Len(m) - n
      BY <1>1, <1>3, <2>2
    <3>b. /\ r \in Seq(Entries(K, W)) /\ Len(r) = Len(m) - n
          /\ \A i \in 1 .. Len(m) - n : r[i] = m[(n + 1) + i - 1]
      BY <1>1, <3>a, SubSeqProperties
    <3> HIDE DEF r
    <3>1. /\ r \in Seq(Entries(K, W)) /\ Len(r) = Len(m) - n
          /\ \A i \in 1 .. Len(m) - n : r[i] = m[i + n]
      <4>1. \A i \in 1 .. Len(m) - n : (n + 1) + i - 1 = i + n
        BY <1>1
      <4>2. QED
        BY <3>b, <4>1
    <3>2. DOMAIN r = 1 .. Len(m) - n
      BY <3>1, LenProperties
    <3>3. \A i \in DOMAIN r : i + n \in DOMAIN m /\ r[i] = m[i + n]
      BY <3>1, <3>2, <1>1, <1>3
    <3>4. KeysDiffer(r)
      <4> SUFFICES ASSUME NEW i \in DOMAIN r, NEW j \in DOMAIN r, r[i].key = r[j].key
                   PROVE  i = j
        BY DEF KeysDiffer
      <4>1. i + n = j + n
        BY <3>3 DEF KeysDiffer
      <4>2. QED
        BY <4>1, <3>2
    <3>5. InOrder(r, m)
      <4> SUFFICES ASSUME NEW i \in DOMAIN r, NEW j \in DOMAIN r, i < j
                   PROVE  \E a, b \in DOMAIN m : a < b /\ r[i] = m[a] /\ r[j] = m[b]
        BY DEF InOrder
      <4>1. i + n < j + n
        BY <3>2
      <4>2. QED
        BY <3>3, <4>1
    <3>6. QED
      BY <2>1, <2>2, <1>3, <3>1, <3>3, <3>4, <3>5
  <2>3. CASE ~(n < Len(m))
    <3>1. r = << >>
      BY <1>1, <1>3, <2>3, SubSeqEmpty
    <3> HIDE DEF r
    <3>2. r \in Seq(Entries(K, W)) /\ Len(r) = 0 /\ DOMAIN r = {}
      BY <3>1, EmptySeq
    <3>3. QED
      BY <2>1, <2>3, <1>3, <3>2 DEF KeysDiffer, InOrder
  <2>4. QED
    BY <2>2, <2>3
<1>4. QED
  BY <1>2, <1>3

\* #set(k, ...): at most max entries, all but the new one, which is the last, are
\* of other keys and were there before, in the same order.
LEMMA PutKeeps ==
    ASSUME NEW K, NEW W, NEW m \in Seq(Entries(K, W)), KeysDiffer(m), NEW max \in Nat, Len(m) <= max,
           NEW k \in K, NEW w \in W, NEW b \in BOOLEAN
    PROVE  /\ Put(m, max, k, w, b) \in Seq(Entries(K, W))
           /\ KeysDiffer(Put(m, max, k, w, b))
           /\ Len(Put(m, max, k, w, b)) <= max
           /\ \A i \in DOMAIN Put(m, max, k, w, b) :
                \/ Put(m, max, k, w, b)[i] = [key |-> k, from |-> w, pending |-> b]
                \/ \E j \in DOMAIN m : Put(m, max, k, w, b)[i] = m[j] /\ m[j].key # k
           /\ \A i, j \in DOMAIN Put(m, max, k, w, b) : i < j =>
                \E x \in DOMAIN m :
                    /\ Put(m, max, k, w, b)[i] = m[x] /\ m[x].key # k
                    /\ \/ Put(m, max, k, w, b)[j] = [key |-> k, from |-> w, pending |-> b]
                       \/ \E y \in DOMAIN m :
                            x < y /\ Put(m, max, k, w, b)[j] = m[y] /\ m[y].key # k
<1>1. Len(m) \in Nat /\ DOMAIN m = 1 .. Len(m)
  BY LenProperties
<1>2. CASE max = 0
  <2>1. Put(m, max, k, w, b) = m /\ DOMAIN m = {}
    BY <1>1, <1>2 DEF Put
  <2>2. QED
    BY <2>1, <1>2
<1>3. CASE max # 0
  <2> DEFINE rest == Without(m, k)
             room == IF Len(rest) = max THEN DropOldest(rest, 1) ELSE rest
             e    == [key |-> k, from |-> w, pending |-> b]
             r    == Append(room, e)
  <2>1. Put(m, max, k, w, b) = r
    BY <1>3 DEF Put
  <2>2. /\ rest \in Seq(Entries(K, W)) /\ KeysDiffer(rest) /\ Len(rest) <= Len(m)
        /\ \A i \in DOMAIN rest : rest[i].key # k
        /\ \A i \in DOMAIN rest : \E j \in DOMAIN m : rest[i] = m[j]
        /\ InOrder(rest, m)
    BY WithoutKey
  <2>3. Len(rest) \in Nat
    BY <2>2, LenProperties
  <2> HIDE DEF rest
  <2>4. /\ DropOldest(rest, 1) \in Seq(Entries(K, W)) /\ KeysDiffer(DropOldest(rest, 1))
        /\ Len(DropOldest(rest, 1)) = IF 1 < Len(rest) THEN Len(rest) - 1 ELSE 0
        /\ \A i \in DOMAIN DropOldest(rest, 1) :
                \E j \in DOMAIN rest : DropOldest(rest, 1)[i] = rest[j]
        /\ InOrder(DropOldest(rest, 1), rest)
    BY <2>2, DropOldestKeeps
  <2>5. /\ room \in Seq(Entries(K, W)) /\ KeysDiffer(room) /\ Len(room) < max
        /\ \A i \in DOMAIN room : \E j \in DOMAIN rest : room[i] = rest[j]
    BY <2>2, <2>3, <2>4, <1>1, <1>3
  <2>a. InOrder(room, rest)
    <3>1. InOrder(rest, rest)
      BY DEF InOrder
    <3>2. QED
      BY <2>4, <3>1
  <2>b. InOrder(room, m)
    BY <2>2, <2>a DEF InOrder
  <2>6. /\ Len(room) \in Nat /\ DOMAIN room = 1 .. Len(room)
    BY <2>5, LenProperties
  <2>7. \A i \in DOMAIN room : /\ room[i].key # k
                               /\ \E j \in DOMAIN m : room[i] = m[j] /\ m[j].key # k
    <3> SUFFICES ASSUME NEW i \in DOMAIN room PROVE \E j \in DOMAIN m : room[i] = m[j] /\ m[j].key # k
      OBVIOUS
    <3>1. PICK x \in DOMAIN rest : room[i] = rest[x]
      BY <2>5
    <3>2. PICK j \in DOMAIN m : rest[x] = m[j]
      BY <2>2
    <3>3. QED
      BY <2>2, <3>1, <3>2
  <2> HIDE DEF room
  <2>8. e \in Entries(K, W) /\ e.key = k
    BY DEF Entries
  <2> HIDE DEF e
  <2>9. /\ r \in Seq(Entries(K, W)) /\ Len(r) = Len(room) + 1
        /\ \A i \in 1 .. Len(room) : r[i] = room[i]
        /\ r[Len(room) + 1] = e
    BY <2>5, <2>8, AppendProperties
  <2>10. DOMAIN r = 1 .. Len(room) + 1
    BY <2>9, LenProperties
  <2> HIDE DEF r
  <2>11. KeysDiffer(r)
    <3> SUFFICES ASSUME NEW i \in DOMAIN r, NEW j \in DOMAIN r, r[i].key = r[j].key
                 PROVE  i = j
      BY DEF KeysDiffer
    <3>1. CASE i \in DOMAIN room /\ j \in DOMAIN room
      BY <3>1, <2>5, <2>6, <2>9 DEF KeysDiffer
    <3>2. CASE i = Len(room) + 1 \/ j = Len(room) + 1
      BY <3>2, <2>6, <2>7, <2>8, <2>9, <2>10
    <3>3. QED
      BY <3>1, <3>2, <2>6, <2>10
  <2>12. \A i \in DOMAIN r : r[i] = e \/ \E j \in DOMAIN m : r[i] = m[j] /\ m[j].key # k
    BY <2>6, <2>7, <2>9, <2>10
  <2>13. ASSUME NEW i \in DOMAIN r, NEW j \in DOMAIN r, i < j
         PROVE  \E x \in DOMAIN m :
                    /\ r[i] = m[x] /\ m[x].key # k
                    /\ \/ r[j] = e
                       \/ \E y \in DOMAIN m : x < y /\ r[j] = m[y] /\ m[y].key # k
    <3>1. i \in DOMAIN room /\ r[i] = room[i] /\ room[i].key # k
      BY <2>6, <2>7, <2>9, <2>10, <2>13
    <3>2. CASE j \in DOMAIN room
      <4>1. r[j] = room[j] /\ room[j].key # k
        BY <2>6, <2>7, <2>9, <3>2
      <4>2. PICK x, y \in DOMAIN m : x < y /\ room[i] = m[x] /\ room[j] = m[y]
        BY <2>b, <2>13, <3>1, <3>2 DEF InOrder
      <4>3. QED
        BY <3>1, <4>1, <4>2
    <3>3. CASE j \notin DOMAIN room
      <4>1. r[j] = e
        BY <2>6, <2>9, <2>10, <3>3
      <4>2. QED
        BY <2>7, <3>1, <4>1
    <3>4. QED
      BY <3>2, <3>3
  <2>14. QED
    BY <2>1, <2>5, <2>6, <2>9, <2>11, <2>12, <2>13 DEF e
<1>4. QED
  BY <1>2, <1>3

\* #set(k, ...) with room for one more: no other key is lost.
LEMMA PutWithRoom ==
    ASSUME NEW K, NEW W, NEW m \in Seq(Entries(K, W)), KeysDiffer(m),
           NEW max \in Nat, max # 0, NEW k \in K, NEW w \in W, NEW b \in BOOLEAN,
           Len(Without(m, k)) # max
    PROVE  LET r == Put(m, max, k, w, b) IN
           /\ \E i \in DOMAIN r : r[i] = [key |-> k, from |-> w, pending |-> b]
           /\ \A j \in DOMAIN m : m[j].key # k => \E i \in DOMAIN r : r[i] = m[j]
<1> DEFINE rest == Without(m, k)
           e    == [key |-> k, from |-> w, pending |-> b]
           r    == Append(rest, e)
<1>1. Put(m, max, k, w, b) = r
  BY DEF Put
<1>2. /\ rest \in Seq(Entries(K, W))
      /\ \A j \in DOMAIN m : m[j].key # k => \E i \in DOMAIN rest : rest[i] = m[j]
  BY WithoutKey
<1>3. /\ Len(rest) \in Nat /\ DOMAIN rest = 1 .. Len(rest)
  BY <1>2, LenProperties
<1> HIDE DEF rest
<1>4. e \in Entries(K, W)
  BY DEF Entries
<1> HIDE DEF e
<1>5. /\ r \in Seq(Entries(K, W)) /\ Len(r) = Len(rest) + 1
      /\ \A i \in 1 .. Len(rest) : r[i] = rest[i]
      /\ r[Len(rest) + 1] = e
  BY <1>2, <1>4, AppendProperties
<1>6. DOMAIN r = 1 .. Len(rest) + 1
  BY <1>3, <1>5, LenProperties
<1> HIDE DEF r
<1>7. \E i \in DOMAIN r : r[i] = e
  <2>1. Len(rest) + 1 \in DOMAIN r
    BY <1>3, <1>6
  <2>2. QED
    BY <2>1, <1>5
<1>8. ASSUME NEW j \in DOMAIN m, m[j].key # k
      PROVE  \E i \in DOMAIN r : r[i] = m[j]
  <2>1. PICK i \in DOMAIN rest : rest[i] = m[j]
    BY <1>2, <1>8
  <2>2. i \in DOMAIN r /\ r[i] = m[j]
    BY <2>1, <1>3, <1>5, <1>6
  <2>3. QED
    BY <2>2
<1>9. QED
  BY <1>1, <1>7, <1>8 DEF e

\* A Map with room for every key never has to drop one.
LEMMA RoomForAll ==
    ASSUME NEW K, IsFiniteSet(K), NEW W, NEW m \in Seq(Entries(K, W)), KeysDiffer(m),
           NEW k \in K, NEW max \in Nat, Cardinality(K) <= max
    PROVE  Len(Without(m, k)) # max /\ max # 0
<1> DEFINE rest == Without(m, k)
           others == K \ {k}
           keyAt == [i \in 1 .. Len(rest) |-> rest[i].key]
<1>1. /\ rest \in Seq(Entries(K, W)) /\ KeysDiffer(rest)
      /\ \A i \in DOMAIN rest : rest[i].key # k
  BY WithoutKey
<1> HIDE DEF rest
<1>2. Len(rest) \in Nat /\ DOMAIN rest = 1 .. Len(rest)
  BY <1>1, LenProperties
<1>3. \A i \in DOMAIN rest : rest[i].key \in others
  BY <1>1, EntriesTyped
<1>4. /\ IsFiniteSet(others) /\ Cardinality(others) = Cardinality(K) - 1
      /\ Cardinality(K) \in Nat /\ Cardinality(others) \in Nat
  BY FS_RemoveElement, FS_CardinalityType
<1>5. keyAt \in Injection(1 .. Len(rest), others)
  BY <1>1, <1>2, <1>3 DEF Injection, IsInjective, KeysDiffer
<1>6. /\ IsFiniteSet(1 .. Len(rest)) /\ Cardinality(1 .. Len(rest)) = Len(rest)
  <2>1. PICK n \in Nat : n = Len(rest)
    BY <1>2
  <2>2. 1 \in Int /\ n \in Int
    OBVIOUS
  <2>3. /\ IsFiniteSet(1 .. n)
        /\ Cardinality(1 .. n) = IF 1 > n THEN 0 ELSE n - 1 + 1
    BY ONLY <2>2, FS_Interval
  <2>4. Cardinality(1 .. n) = n
    BY <2>3
  <2>5. QED
    BY <2>1, <2>3, <2>4
<1> HIDE DEF keyAt, others
<1>7. Len(rest) <= Cardinality(others)
  BY <1>4, <1>5, <1>6, FS_Injection
<1>8. Len(rest) < max
  BY <1>2, <1>4, <1>7
<1>9. Len(rest) # max /\ max # 0
  <2>1. \A n \in Nat : n < max => n # max /\ max # 0
    OBVIOUS
  <2>2. QED
    BY <1>2, <1>8, <2>1
<1>10. QED
  BY <1>9 DEF rest

=============================================================================
