------------------------------ MODULE LRUProof ------------------------------
(***************************************************************************)
(* Proofs about LRU for every set of keys and writes and every size.       *)
(***************************************************************************)
EXTENDS LRU, LRUMapProof, FunctionTheorems, FiniteSetTheorems, SequenceTheorems, TLAPS

USE LRUAssumption

\* What a history of keys is like.
Once(s)  == \A a, b \in DOMAIN s : s[a] = s[b] => a = b
Has(s, k) == \E a \in DOMAIN s : s[a] = k

\* Refreshing a key puts it after all others, which stay in their order.
LEMMA Refreshing ==
    ASSUME recency \in Seq(Key), Once(recency), NEW k \in Key
    PROVE  /\ Refreshed(k) \in Seq(Key) /\ Once(Refreshed(k)) /\ Has(Refreshed(k), k)
           /\ \A l : Has(recency, l) /\ l # k => Has(Refreshed(k), l) /\ Before(Refreshed(k), l, k)
           /\ \A l, n : Before(recency, l, n) /\ l # k /\ n # k => Before(Refreshed(k), l, n)
<1> DEFINE at   == {i \in DOMAIN recency : recency[i] = k}
           p    == CHOOSE i \in at : TRUE
           rest == IF at = {} THEN recency ELSE Removed(recency, p)
           r    == Append(rest, k)
<1>1. r = Refreshed(k)
  BY DEF Refreshed
<1>2. DOMAIN recency = 1 .. Len(recency) /\ Len(recency) \in Nat
  BY LenProperties
<1>3. /\ rest \in Seq(Key) /\ Once(rest) /\ ~Has(rest, k)
      /\ \A l, n : Before(recency, l, n) /\ l # k /\ n # k => Before(rest, l, n)
      /\ \A l : Has(recency, l) /\ l # k => Has(rest, l)
  <2>1. CASE at = {}
    BY <2>1 DEF Has
  <2>2. CASE at # {}
    <3>1. p \in DOMAIN recency /\ recency[p] = k
      BY <2>2
    <3>2. rest = Removed(recency, p)
      BY <2>2
    <3> HIDE DEF p, rest
    <3>3. /\ rest \in Seq(Key) /\ Len(rest) = Len(recency) - 1
          /\ \A i \in DOMAIN rest : rest[i] = IF i < p THEN recency[i] ELSE recency[i + 1]
      BY <3>1, <3>2, RemovedIsShorter
    <3>4. DOMAIN rest = 1 .. Len(recency) - 1
      BY <3>3, LenProperties
    <3> DEFINE from(i) == IF i < p THEN i ELSE i + 1
               to(i)   == IF i < p THEN i ELSE i - 1
    <3>5. \A i \in DOMAIN rest : from(i) \in DOMAIN recency /\ from(i) # p /\ rest[i] = recency[from(i)]
      BY <1>2, <3>1, <3>3, <3>4
    <3>6. \A i, j \in DOMAIN rest : from(i) = from(j) => i = j
      BY <1>2, <3>1, <3>4
    <3>7. \A i \in DOMAIN recency : recency[i] # k => to(i) \in DOMAIN rest /\ from(to(i)) = i
      BY <1>2, <3>1, <3>4
    <3>8. \A i, j \in DOMAIN recency : recency[i] # k /\ recency[j] # k /\ i < j => to(i) < to(j)
      BY <1>2, <3>1, <3>4
    <3> HIDE DEF from, to
    <3>9. Once(rest) /\ ~Has(rest, k)
      BY <3>1, <3>5, <3>6 DEF Once, Has
    <3>10. \A i \in DOMAIN recency : recency[i] # k => to(i) \in DOMAIN rest /\ rest[to(i)] = recency[i]
      BY <3>5, <3>7
    <3>11. ASSUME NEW l, NEW n, Before(recency, l, n), l # k, n # k
           PROVE  Before(rest, l, n)
      <4>1. PICK a, b \in DOMAIN recency : a < b /\ recency[a] = l /\ recency[b] = n
        BY <3>11 DEF Before
      <4>2. to(a) < to(b) /\ rest[to(a)] = l /\ rest[to(b)] = n
        BY <3>8, <3>10, <3>11, <4>1
      <4>3. QED
        BY <3>10, <3>11, <4>1, <4>2 DEF Before
    <3>12. \A l : Has(recency, l) /\ l # k => Has(rest, l)
      BY <3>10 DEF Has
    <3>13. QED
      BY <3>3, <3>9, <3>11, <3>12
  <2>3. QED
    BY <2>1, <2>2
<1> HIDE DEF rest
<1>4. /\ r \in Seq(Key) /\ Len(r) = Len(rest) + 1
      /\ \A i \in 1 .. Len(rest) : r[i] = rest[i]
      /\ r[Len(rest) + 1] = k
  BY <1>3, AppendProperties
<1>5. /\ DOMAIN rest = 1 .. Len(rest) /\ Len(rest) \in Nat
      /\ DOMAIN r = 1 .. Len(rest) + 1
  BY <1>3, <1>4, LenProperties
<1> HIDE DEF r
<1>6. Has(r, k) /\ Once(r)
  <2>1. Has(r, k)
    BY <1>4, <1>5 DEF Has
  <2>2. \A a \in DOMAIN rest : rest[a] # k
    BY <1>3 DEF Has
  <2>3. ASSUME NEW a \in DOMAIN r, NEW b \in DOMAIN r, r[a] = r[b] PROVE a = b
    <3>1. CASE a \in DOMAIN rest /\ b \in DOMAIN rest
      BY <1>3, <1>4, <1>5, <2>3, <3>1 DEF Once
    <3>2. CASE a \notin DOMAIN rest \/ b \notin DOMAIN rest
      BY <1>4, <1>5, <2>2, <2>3, <3>2
    <3>3. QED
      BY <3>1, <3>2
  <2>4. QED
    BY <2>1, <2>3 DEF Once
<1>7. \A l : Has(rest, l) => Has(r, l) /\ Before(r, l, k)
  BY <1>4, <1>5 DEF Has, Before
<1>8. \A l, n : Before(rest, l, n) => Before(r, l, n)
  BY <1>4, <1>5 DEF Before
<1>9. QED
  BY <1>1, <1>3, <1>4, <1>6, <1>7, <1>8

Inv == TypeOK /\ Inductive

\* A step that only takes entries away keeps the invariant, if it settles no
\* promise that is still held.
LEMMA TakingAway ==
    ASSUME Inv, map' \in Seq(Entry), KeysDiffer(map'), max' \in Maxes, Len(map') <= max',
           InOrder(map', map),
           recency' = recency, keyOf' = keyOf, lastWrite' = lastWrite, inFlight' \subseteq inFlight,
           \A i \in DOMAIN map' : \E j \in DOMAIN map :
                map'[i] = map[j] /\ (map[j].from \in inFlight' <=> map[j].from \in inFlight)
    PROVE  Inv'
<1>1. TypeOK'
  BY DEF Inv, TypeOK
<1>2. \A i \in DOMAIN map' : keyOf'[map'[i].from] = map'[i].key
  BY DEF Inv, Inductive
<1>3. \A w \in inFlight' : keyOf'[w] # NoKey
  BY DEF Inv, Inductive
<1>4. NoStaleValue'
  BY DEF Inv, Inductive, NoStaleValue
<1>5. PendingIsLive'
  BY DEF Inv, Inductive, PendingIsLive
<1>6. \A i, j \in DOMAIN map' : i < j => Before(recency', map'[i].key, map'[j].key)
  BY DEF Inv, Inductive, InOrder
<1>7. /\ \A i \in DOMAIN map' : \E a \in DOMAIN recency' : recency'[a] = map'[i].key
      /\ \A a, b \in DOMAIN recency' : recency'[a] = recency'[b] => a = b
  BY DEF Inv, Inductive
<1>8. QED
  BY <1>1, <1>2, <1>3, <1>4, <1>5, <1>6, <1>7 DEF Inv, Inductive

\* A step that puts an entry of the write w of k keeps the invariant, if it
\* changes nothing of the entries of other keys.
LEMMA Putting ==
    ASSUME Inv, NEW k \in Key, NEW w \in Write, NEW b \in BOOLEAN,
           map' = Put(map, max, k, w, b), max' = max, recency' = Refreshed(k),
           keyOf' \in [Write -> Key \cup {NoKey}], keyOf'[w] = k,
           lastWrite' = [lastWrite EXCEPT ![k] = w],
           inFlight' \subseteq Write, \A x \in inFlight' : keyOf'[x] # NoKey,
           w \in inFlight' <=> b,
           \A j \in DOMAIN map : map[j].key # k =>
                /\ keyOf'[map[j].from] = keyOf[map[j].from]
                /\ map[j].from \in inFlight' <=> map[j].from \in inFlight
    PROVE  Inv'
<1> DEFINE e == [key |-> k, from |-> w, pending |-> b]
<1>1. /\ map \in Seq(Entry) /\ KeysDiffer(map) /\ max \in Nat /\ Len(map) <= max
      /\ lastWrite \in [Key -> Write \cup {NoWrite}]
  BY DEF Inv, TypeOK, Inductive
<1>2. /\ map' \in Seq(Entry) /\ KeysDiffer(map') /\ Len(map') <= max
      /\ \A i \in DOMAIN map' :
            map'[i] = e \/ \E j \in DOMAIN map : map'[i] = map[j] /\ map[j].key # k
      /\ \A i, j \in DOMAIN map' : i < j =>
            \E x \in DOMAIN map :
                /\ map'[i] = map[x] /\ map[x].key # k
                /\ \/ map'[j] = e
                   \/ \E y \in DOMAIN map : x < y /\ map'[j] = map[y] /\ map[y].key # k
  <2>1. map \in Seq(Entries(Key, Write))
    BY <1>1 DEF Entry
  <2>2. PICK new : new = Put(map, max, k, w, b)
    OBVIOUS
  <2>3. /\ new \in Seq(Entries(Key, Write)) /\ KeysDiffer(new) /\ Len(new) <= max
        /\ \A i \in DOMAIN new : new[i] = e \/ \E j \in DOMAIN map : new[i] = map[j] /\ map[j].key # k
    BY <1>1, <2>1, <2>2, PutKeeps
  <2>4. \A i, j \in DOMAIN new : i < j =>
            \E x \in DOMAIN map :
                /\ new[i] = map[x] /\ map[x].key # k
                /\ \/ new[j] = e
                   \/ \E y \in DOMAIN map : x < y /\ new[j] = map[y] /\ map[y].key # k
    BY <1>1, <2>1, <2>2, PutKeeps
  <2> HIDE DEF e
  <2>5. map' = new
    BY <2>2
  <2>6. QED
    BY <2>3, <2>4, <2>5 DEF Entry
<1>a. /\ recency' \in Seq(Key) /\ Once(recency') /\ Has(recency', k)
      /\ \A l : Has(recency, l) /\ l # k => Has(recency', l) /\ Before(recency', l, k)
      /\ \A l, n : Before(recency, l, n) /\ l # k /\ n # k => Before(recency', l, n)
  <2>1. recency \in Seq(Key) /\ Once(recency)
    BY DEF Inv, TypeOK, Inductive, Once
  <2>2. QED
    BY <2>1, Refreshing
<1>3. TypeOK'
  BY <1>1, <1>2, <1>a DEF Inv, TypeOK
<1>4. e.key = k /\ e.from = w /\ e.pending = b
  OBVIOUS
<1>5. \A j \in DOMAIN map : map[j].key \in Key
  BY <1>1, EntriesTyped DEF Entry
<1> HIDE DEF e
<1>6. \A i \in DOMAIN map' : keyOf'[map'[i].from] = map'[i].key
  BY <1>2, <1>4 DEF Inv, Inductive
<1>7. NoStaleValue'
  BY <1>1, <1>2, <1>4, <1>5 DEF Inv, Inductive, NoStaleValue
<1>8. PendingIsLive'
  <2> SUFFICES ASSUME NEW i \in DOMAIN map' PROVE map'[i].pending <=> map'[i].from \in inFlight'
    BY DEF PendingIsLive
  <2>1. CASE map'[i] = e
    BY <2>1, <1>4
  <2>2. ASSUME NEW j \in DOMAIN map, map'[i] = map[j], map[j].key # k
        PROVE  map'[i].pending <=> map'[i].from \in inFlight'
    BY <2>2 DEF Inv, Inductive, PendingIsLive
  <2>3. QED
    BY <2>1, <2>2, <1>2
<1>9. \A i \in DOMAIN map' : Has(recency', map'[i].key)
  <2> SUFFICES ASSUME NEW i \in DOMAIN map' PROVE Has(recency', map'[i].key)
    OBVIOUS
  <2>1. CASE map'[i] = e
    BY <1>4, <1>a, <2>1
  <2>2. ASSUME NEW j \in DOMAIN map, map'[i] = map[j], map[j].key # k
        PROVE  Has(recency', map'[i].key)
    <3>1. Has(recency, map[j].key)
      BY DEF Inv, Inductive, Has
    <3>2. QED
      BY <1>a, <2>2, <3>1
  <2>3. QED
    BY <1>2, <2>1, <2>2
<1>10. ASSUME NEW i \in DOMAIN map', NEW j \in DOMAIN map', i < j
       PROVE  Before(recency', map'[i].key, map'[j].key)
  <2>1. PICK x \in DOMAIN map :
            /\ map'[i] = map[x] /\ map[x].key # k
            /\ \/ map'[j] = e
               \/ \E y \in DOMAIN map : x < y /\ map'[j] = map[y] /\ map[y].key # k
    BY <1>2, <1>10
  <2>2. CASE map'[j] = e
    <3>1. Has(recency, map[x].key)
      BY DEF Inv, Inductive, Has
    <3>2. QED
      BY <1>4, <1>a, <2>1, <2>2, <3>1
  <2>3. ASSUME NEW y \in DOMAIN map, x < y, map'[j] = map[y], map[y].key # k
        PROVE  Before(recency', map'[i].key, map'[j].key)
    <3>1. Before(recency, map[x].key, map[y].key)
      BY <2>3 DEF Inv, Inductive
    <3>2. QED
      BY <1>a, <2>1, <2>3, <3>1
  <2>4. QED
    BY <2>1, <2>2, <2>3
<1>11. Inductive'
  BY <1>2, <1>6, <1>7, <1>8, <1>9, <1>10, <1>a DEF Inv, Inductive, Has, Once
<1>12. QED
  BY <1>3, <1>11 DEF Inv

\* The invariant holds at first, and every operation keeps it.
LEMMA InvHolds == Spec => []Inv
<1>1. Init => Inv
  <2> SUFFICES ASSUME Init PROVE Inv
    OBVIOUS
  <2>1. map \in Seq(Entry) /\ Len(map) = 0 /\ DOMAIN map = {} /\ recency \in Seq(Key)
    BY EmptySeq DEF Init
  <2>2. max \in Nat /\ max \in Maxes
    BY DEF Init
  <2>3. QED
    BY <2>1, <2>2 DEF Init, Inv, TypeOK, Inductive, KeysDiffer, NoStaleValue, PendingIsLive
<1>2. Inv /\ [Next]_vars => Inv'
  <2> SUFFICES ASSUME Inv, [Next]_vars PROVE Inv'
    OBVIOUS
  <2>1. /\ map \in Seq(Entry) /\ KeysDiffer(map) /\ Len(map) <= max
        /\ max \in Maxes /\ max \in Nat /\ Len(map) \in Nat
        /\ keyOf \in [Write -> Key \cup {NoKey}] /\ inFlight \subseteq Write
        /\ lastWrite \in [Key -> Write \cup {NoWrite}] /\ recency \in Seq(Key)
    BY LenProperties DEF Inv, TypeOK, Inductive
  <2>2. \A i \in DOMAIN map :
            /\ map[i] \in Entry /\ map[i].key \in Key /\ map[i].from \in Write
            /\ map[i].pending \in BOOLEAN
            /\ keyOf[map[i].from] = map[i].key
    BY <2>1, EntriesTyped DEF Inv, Inductive, Entry
  <2>4. ASSUME NEW k \in Key, NEW w \in Write, SetValue(k, w) PROVE Inv'
    <3>1. \A j \in DOMAIN map : map[j].from # w
      BY <2>2, <2>4 DEF SetValue, Fresh
    <3>2. w \notin inFlight
      BY <2>4 DEF SetValue, Fresh, Inv, Inductive
    <3>3. \A x \in inFlight : keyOf'[x] # NoKey
      BY <2>1, <2>4 DEF SetValue, Fresh, Inv, Inductive
    <3>4. QED
      BY <2>1, <2>2, <2>4, <3>1, <3>2, <3>3, Putting DEF SetValue, Fresh
  <2>5. ASSUME NEW k \in Key, NEW w \in Write, SetPending(k, w) PROVE Inv'
    <3>1. \A j \in DOMAIN map : map[j].from # w
      BY <2>2, <2>5 DEF SetPending, Fresh
    <3>3. \A x \in inFlight' : keyOf'[x] # NoKey
      BY <2>1, <2>5 DEF SetPending, Fresh, Inv, Inductive
    <3>4. QED
      BY <2>1, <2>2, <2>5, <3>1, <3>3, Putting DEF SetPending, Fresh
  <2>6. ASSUME NEW k \in Key, Touch(k) PROVE Inv'
    <3>1. PICK i \in DOMAIN map : map[i].key = k /\ map' = Put(map, max, k, map[i].from, map[i].pending)
      BY <2>6 DEF Touch, EntryOf
    <3>2. /\ recency' = Refreshed(k)
          /\ max' = max /\ keyOf' = keyOf /\ inFlight' = inFlight /\ lastWrite' = lastWrite
      BY <2>6 DEF Touch
    <3>3. lastWrite = [lastWrite EXCEPT ![k] = map[i].from]
      BY <2>1, <3>1 DEF Inv, Inductive, NoStaleValue
    <3>4. map[i].from \in inFlight <=> map[i].pending
      BY DEF Inv, Inductive, PendingIsLive
    <3>5. \A x \in inFlight : keyOf[x] # NoKey
      BY DEF Inv, Inductive
    <3>6. map[i].from \in Write /\ map[i].pending \in BOOLEAN /\ keyOf[map[i].from] = k
      BY <2>2, <3>1
    <3>7. QED
      BY <2>1, <3>1, <3>2, <3>3, <3>4, <3>5, <3>6, Putting, Zenon
  <2>7. ASSUME NEW k \in Key, Delete(k) PROVE Inv'
    <3>1. /\ map' \in Seq(Entry) /\ KeysDiffer(map') /\ Len(map') <= Len(map)
          /\ \A i \in DOMAIN map' : \E j \in DOMAIN map : map'[i] = map[j]
          /\ InOrder(map', map)
      BY <2>1, <2>7, WithoutKey DEF Delete, Entry
    <3>2. Len(map') <= max'
      BY <2>1, <2>7, <3>1, LenProperties DEF Delete
    <3>3. QED
      BY <2>1, <2>7, <3>1, <3>2, TakingAway DEF Delete
  <2>8. CASE Clear
    <3>1. map' \in Seq(Entry) /\ Len(map') = 0 /\ DOMAIN map' = {}
      BY <2>8, EmptySeq DEF Clear
    <3>2. KeysDiffer(map') /\ InOrder(map', map)
      BY <3>1 DEF KeysDiffer, InOrder
    <3>3. QED
      BY <2>1, <2>8, <3>1, <3>2, TakingAway DEF Clear
  <2>9. ASSUME NEW n \in Maxes, SetMax(n) PROVE Inv'
    <3>1. Len(map) - n \in Int /\ n \in Nat
      BY <2>1
    <3>2. /\ map' \in Seq(Entry) /\ KeysDiffer(map')
          /\ Len(map') = IF Len(map) - n < 1 THEN Len(map)
                         ELSE IF Len(map) - n < Len(map) THEN Len(map) - (Len(map) - n) ELSE 0
          /\ \A i \in DOMAIN map' : \E j \in DOMAIN map : map'[i] = map[j]
          /\ InOrder(map', map)
      BY <2>1, <2>9, <3>1, DropOldestKeeps DEF SetMax, Entry
    <3>3. Len(map') <= n
      BY <2>1, <3>1, <3>2
    <3>4. QED
      BY <2>1, <2>9, <3>2, <3>3, TakingAway DEF SetMax
  <2>10. ASSUME NEW n \in Maxes, DeleteOldest(n) PROVE Inv'
    <3>1. n \in Nat
      OBVIOUS
    <3>2. /\ map' \in Seq(Entry) /\ KeysDiffer(map')
          /\ Len(map') = IF n < 1 THEN Len(map) ELSE IF n < Len(map) THEN Len(map) - n ELSE 0
          /\ \A i \in DOMAIN map' : \E j \in DOMAIN map : map'[i] = map[j]
          /\ InOrder(map', map)
      BY <2>1, <2>10, <3>1, DropOldestKeeps DEF DeleteOldest, Entry
    <3>3. Len(map') <= max
      BY <2>1, <3>1, <3>2
    <3>4. QED
      BY <2>1, <2>10, <3>2, <3>3, TakingAway DEF DeleteOldest
  <2>11. ASSUME NEW w \in Write, Resolve(w) PROVE Inv'
    <3>1. w \in inFlight /\ keyOf[w] \in Key
      BY <2>1, <2>11 DEF Resolve, Inv, Inductive
    <3>2. CASE Holds(w)
      <4>1. PICK i \in DOMAIN map : map[i].key = keyOf[w] /\ map[i].from = w
        BY <3>2 DEF Holds, EntryOf
      <4>2. lastWrite = [lastWrite EXCEPT ![keyOf[w]] = w]
        BY <2>1, <4>1 DEF Inv, Inductive, NoStaleValue
      <4>3. map' = Put(map, max, keyOf[w], w, FALSE) /\ recency' = Refreshed(keyOf[w])
        BY <2>11, <3>2 DEF Resolve
      <4>4. inFlight' = inFlight \ {w} /\ max' = max /\ keyOf' = keyOf /\ lastWrite' = lastWrite
        BY <2>11 DEF Resolve
      <4>5. \A x \in inFlight : keyOf[x] # NoKey
        BY DEF Inv, Inductive
      <4>6. \A j \in DOMAIN map : map[j].key # keyOf[w] => map[j].from # w
        BY <2>2
      <4>7. QED
        BY <2>1, <3>1, <4>2, <4>3, <4>4, <4>5, <4>6, Putting
    <3>3. CASE ~Holds(w)
      <4>1. \A j \in DOMAIN map : map[j].from # w
        BY <2>2, <3>3 DEF Holds, EntryOf
      <4>2. /\ map' = map /\ recency' = recency /\ inFlight' = inFlight \ {w}
            /\ max' = max /\ keyOf' = keyOf /\ lastWrite' = lastWrite
        BY <2>11, <3>3 DEF Resolve
      <4>3. InOrder(map', map)
        BY <4>2 DEF InOrder
      <4>4. QED
        BY <2>1, <4>1, <4>2, <4>3, TakingAway
    <3>4. QED
      BY <3>2, <3>3
  <2>12. ASSUME NEW w \in Write, Reject(w) PROVE Inv'
    <3>1. w \in inFlight /\ keyOf[w] \in Key
      BY <2>1, <2>12 DEF Reject, Inv, Inductive
    <3>2. /\ recency' = recency /\ inFlight' = inFlight \ {w}
          /\ max' = max /\ keyOf' = keyOf /\ lastWrite' = lastWrite
      BY <2>12 DEF Reject, Inv, TypeOK
    <3>3. CASE Holds(w)
      <4>1. map' = Without(map, keyOf[w])
        BY <2>12, <3>3 DEF Reject
      <4>2. /\ map' \in Seq(Entry) /\ KeysDiffer(map') /\ Len(map') <= Len(map)
            /\ \A i \in DOMAIN map' : map'[i].key # keyOf[w]
            /\ \A i \in DOMAIN map' : \E j \in DOMAIN map : map'[i] = map[j]
            /\ InOrder(map', map)
        <5>1. map \in Seq(Entries(Key, Write)) /\ Without(map, keyOf[w]) = map'
          BY <2>1, <4>1 DEF Entry
        <5>2. QED
          BY <2>1, <3>1, <5>1, WithoutKey DEF Entry
      <4>3. Len(map') <= max
        BY <2>1, <4>2, LenProperties
      <4>4. \A i \in DOMAIN map' : \E j \in DOMAIN map : map'[i] = map[j] /\ map[j].from # w
        BY <2>2, <4>2
      <4>5. QED
        BY <2>1, <3>2, <4>2, <4>3, <4>4, TakingAway
    <3>4. CASE ~Holds(w)
      <4>1. \A j \in DOMAIN map : map[j].from # w
        BY <2>2, <3>4 DEF Holds, EntryOf
      <4>2. map' = map /\ InOrder(map', map)
        BY <2>12, <3>4 DEF Reject, InOrder
      <4>3. QED
        BY <2>1, <3>2, <4>1, <4>2, TakingAway
    <3>5. QED
      BY <3>3, <3>4
  <2>13. CASE UNCHANGED vars
    BY <2>13 DEF vars, Inv, TypeOK, Inductive, NoStaleValue, PendingIsLive
  <2>14. QED
    BY <2>4, <2>5, <2>6, <2>7, <2>8, <2>9, <2>10, <2>11, <2>12, <2>13 DEF Next, Cache
<1>3. QED
  BY <1>1, <1>2, PTL DEF Spec

\* The variables keep their types (src/cached.ts, LRU).
THEOREM TypeCorrect == Spec => []TypeOK
BY InvHolds, PTL DEF Inv

\* A key is held once, its entry comes from a write of that key, the latest, and
\* is pending while that write is outstanding.
THEOREM InductiveInvariant == Spec => []Inductive
BY InvHolds, PTL DEF Inv

\* There are never more than max entries, and one of each key.
THEOREM IsBounded == Spec => []Bounded
<1>1. TypeOK /\ Inductive => Bounded
  <2> SUFFICES ASSUME TypeOK, Inductive PROVE Bounded
    OBVIOUS
  <2> DEFINE f == [i \in 1 .. Len(map) |-> map[i].key]
  <2>1. Len(map) \in Nat /\ DOMAIN map = 1 .. Len(map) /\ Len(map) <= max
    BY LenProperties DEF TypeOK, Inductive
  <2>2. f \in Bijection(1 .. Len(map), KeysOf(map))
    <3>1. f \in [1 .. Len(map) -> KeysOf(map)]
      BY <2>1 DEF KeysOf
    <3>2. \A i, j \in 1 .. Len(map) : f[i] = f[j] => i = j
      BY <2>1 DEF Inductive, KeysDiffer
    <3>3. \A k \in KeysOf(map) : \E i \in 1 .. Len(map) : f[i] = k
      BY <2>1 DEF KeysOf
    <3> HIDE DEF f
    <3>4. QED
      BY <3>1, <3>2, <3>3 DEF Bijection, Injection, Surjection, IsInjective
  <2>3. ExistsBijection(1 .. Len(map), KeysOf(map))
    BY <2>2 DEF ExistsBijection
  <2>4. IsFiniteSet(1 .. Len(map)) /\ Cardinality(1 .. Len(map)) = Len(map)
    <3>1. IsFiniteSet(1 .. Len(map)) /\ Cardinality(1 .. Len(map)) = IF 1 > Len(map) THEN 0 ELSE Len(map) - 1 + 1
      BY <2>1, FS_Interval, SMTT(30)
    <3>2. QED
      BY <2>1, <3>1
  <2>5. Cardinality(KeysOf(map)) = Len(map)
    BY <2>3, <2>4, FS_Bijection
  <2>6. QED
    BY <2>1, <2>5 DEF Bounded
<1>2. QED
  BY <1>1, TypeCorrect, InductiveInvariant, PTL

\* What a key holds comes from the latest write to it.
THEOREM NoValueIsStale == Spec => []NoStaleValue
BY InductiveInvariant, PTL DEF Inductive

\* An entry is pending exactly while its answer is outstanding.
THEOREM PendingEntriesAreLive == Spec => []PendingIsLive
BY InductiveInvariant, PTL DEF Inductive

\* What is evicted first is what was refreshed least recently.
THEOREM EvictsTheOldest == Spec => []OrderIsRecency
<1>1. TypeOK /\ Inductive => OrderIsRecency
  <2> SUFFICES ASSUME TypeOK, Inductive, NEW k \in Key, NEW l \in Key
               PROVE  ~(Before(recency, k, l) /\ Before(recency, l, k))
    BY DEF OrderIsRecency, Inductive
  <2>1. DOMAIN recency = 1 .. Len(recency) /\ Len(recency) \in Nat
    BY LenProperties DEF TypeOK
  <2>2. QED
    BY <2>1 DEF Inductive, Before
<1>2. QED
  BY <1>1, TypeCorrect, InductiveInvariant, PTL

-----------------------------------------------------------------------------
(***************************************************************************)
(* LRU implements LossyCache, for every set of keys and writes and every   *)
(* size.                                                                   *)
(***************************************************************************)

\* What is put for each key that is held.
Newest == [k \in Key |-> IF k \in KeysOf(map) THEN lastWrite[k] ELSE NoWrite]

\* A look at a key gives what was last written to it, as nothing held is stale.
LEMMA ShownIsNewest == Inv => Shown = Newest
<1> SUFFICES ASSUME Inv, NEW k \in Key, k \in KeysOf(map)
             PROVE  (CHOOSE e \in EntryOf(map, k) : TRUE).from = lastWrite[k]
  BY DEF Shown, Newest
<1>1. \A e \in EntryOf(map, k) : e.from = lastWrite[k]
  BY DEF Inv, Inductive, NoStaleValue, EntryOf
<1>2. EntryOf(map, k) # {}
  BY DEF KeysOf, EntryOf
<1>3. QED
  BY <1>1, <1>2

\* The same holds after a step.
LEMMA ShownIsNewestNext == Inv' => (Shown = Newest)'
BY ShownIsNewest, PTL

\* A step that writes nothing and after which no more keys are held than before
\* loses the keys that are not.
LEMMA Fading ==
    ASSUME Inv, Inv', keyOf' = keyOf, lastWrite' = lastWrite,
           KeysOf(map') \subseteq KeysOf(map)
    PROVE  Promised!Fade
<1>1. Shown = Newest
  BY ShownIsNewest
<1>2. Shown' = Newest'
  BY ShownIsNewestNext
<1>3. \A k \in Key : Newest'[k] = Newest[k] \/ Newest'[k] = NoWrite
  BY DEF Newest
<1>4. QED
  BY <1>1, <1>2, <1>3 DEF Promised!Fade, Promised!Fades, Promised!Lost, Newest

\* A step that writes w to k, after which no keys are held but k and the ones
\* before, puts w.
LEMMA Writing ==
    ASSUME Inv, Inv', NEW k \in Key, NEW w \in Write, keyOf[w] = NoKey,
           keyOf' = [keyOf EXCEPT ![w] = k], lastWrite' = [lastWrite EXCEPT ![k] = w],
           KeysOf(map') \subseteq KeysOf(map) \cup {k}
    PROVE  w \in Write \ {x \in Write : keyOf[x] # NoKey} /\ Promised!Put(k, w)
<1>1. Shown = Newest
  BY ShownIsNewest
<1>2. Shown' = Newest'
  BY ShownIsNewestNext
<1>3. lastWrite \in [Key -> Write \cup {NoWrite}] /\ keyOf \in [Write -> Key \cup {NoKey}]
  BY DEF Inv, TypeOK
<1>4. {x \in Write : keyOf'[x] # NoKey} = {x \in Write : keyOf[x] # NoKey} \cup {w}
  <2>1. \A x \in Write : keyOf'[x] # NoKey <=> keyOf[x] # NoKey \/ x = w
    BY <1>3, LRUAssumption
  <2>2. QED
    BY <2>1
<1>5. Newest'[k] = w \/ Newest'[k] = NoWrite
  BY <1>3 DEF Newest
<1>6. \A o \in Key \ {k} : Newest'[o] = Newest[o] \/ Newest'[o] = NoWrite
  BY <1>3 DEF Newest
<1>7. QED
  BY <1>1, <1>2, <1>4, <1>5, <1>6
     DEF Promised!Put, Promised!Fades, Promised!Lost, Newest

\* #set(k, ...) adds no key but k.
LEMMA PutAddsOnlyItsKey ==
    ASSUME Inv, NEW k \in Key, NEW w \in Write, NEW b \in BOOLEAN
    PROVE  KeysOf(Put(map, max, k, w, b)) \subseteq KeysOf(map) \cup {k}
<1> DEFINE r == Put(map, max, k, w, b)
<1>1. map \in Seq(Entry) /\ KeysDiffer(map) /\ max \in Nat /\ Len(map) <= max
  BY DEF Inv, TypeOK, Inductive
<1>2. \A i \in DOMAIN r : \/ r[i] = [key |-> k, from |-> w, pending |-> b]
                          \/ \E j \in DOMAIN map : r[i] = map[j] /\ map[j].key # k
  BY <1>1, PutKeeps DEF Entry
<1> HIDE DEF r
<1>3. \A i \in DOMAIN r : r[i].key \in KeysOf(map) \cup {k}
  BY <1>2 DEF KeysOf
<1>4. KeysOf(r) \subseteq KeysOf(map) \cup {k}
  BY <1>3 DEF KeysOf
<1>5. QED
  BY <1>4 DEF r

\* Whatever is evicted, deleted, resized or late: what a look at a key of the LRU
\* of src/cached.ts gives is the latest value put for it, or nothing, and what it
\* no longer gives it never gives again.
THEOREM ImplementsLossyCache == Spec => IsLossyCache
<1>1. Init => Promised!Init
  <2> SUFFICES ASSUME Init PROVE Promised!Init
    OBVIOUS
  <2>1. KeysOf(map) = {}
    BY DEF Init, KeysOf
  <2>2. QED
    BY <2>1 DEF Init, Promised!Init, Shown
<1>2. Inv /\ Inv' /\ [Next]_vars => [Promised!Next]_(Promised!vars)
  <2> SUFFICES ASSUME Inv, Inv', [Next]_vars PROVE [Promised!Next]_(Promised!vars)
    OBVIOUS
  <2>1. /\ map \in Seq(Entry) /\ KeysDiffer(map) /\ Len(map) \in Nat /\ max \in Maxes
        /\ keyOf \in [Write -> Key \cup {NoKey}]
    BY LenProperties DEF Inv, TypeOK, Inductive
  <2>2. ASSUME NEW k \in Key, NEW w \in Write, SetValue(k, w) PROVE Promised!Next
    <3>1. KeysOf(map') \subseteq KeysOf(map) \cup {k}
      BY <2>2, PutAddsOnlyItsKey DEF SetValue
    <3>2. w \in Write \ {x \in Write : keyOf[x] # NoKey} /\ Promised!Put(k, w)
      BY <2>2, <3>1, Writing DEF SetValue, Fresh
    <3>3. QED
      BY <3>2 DEF Promised!Next
  <2>3. ASSUME NEW k \in Key, NEW w \in Write, SetPending(k, w) PROVE Promised!Next
    <3>1. KeysOf(map') \subseteq KeysOf(map) \cup {k}
      BY <2>3, PutAddsOnlyItsKey DEF SetPending
    <3>2. w \in Write \ {x \in Write : keyOf[x] # NoKey} /\ Promised!Put(k, w)
      BY <2>3, <3>1, Writing DEF SetPending, Fresh
    <3>3. QED
      BY <3>2 DEF Promised!Next
  <2>4. ASSUME keyOf' = keyOf, lastWrite' = lastWrite, KeysOf(map') \subseteq KeysOf(map)
        PROVE  Promised!Next
    BY <2>4, Fading DEF Promised!Next
  <2>5. ASSUME NEW k \in Key, Touch(k) PROVE Promised!Next
    <3>1. PICK i \in DOMAIN map :
            map[i].key = k /\ map' = Put(map, max, k, map[i].from, map[i].pending)
      BY <2>5 DEF Touch, EntryOf
    <3>2. map[i].from \in Write /\ map[i].pending \in BOOLEAN
      BY <2>1, EntriesTyped DEF Entry
    <3>3. KeysOf(map') \subseteq KeysOf(map) \cup {k} /\ k \in KeysOf(map)
      BY <3>1, <3>2, PutAddsOnlyItsKey DEF KeysOf
    <3>4. QED
      BY <2>4, <2>5, <3>3 DEF Touch
  <2>6. \A k \in Key : KeysOf(Without(map, k)) \subseteq KeysOf(map)
    <3> SUFFICES ASSUME NEW k \in Key PROVE KeysOf(Without(map, k)) \subseteq KeysOf(map)
      OBVIOUS
    <3>1. \A i \in DOMAIN Without(map, k) : \E j \in DOMAIN map : Without(map, k)[i] = map[j]
      BY <2>1, WithoutKey DEF Entry
    <3>2. QED
      BY <3>1 DEF KeysOf
  <2>7. \A n \in Int : KeysOf(DropOldest(map, n)) \subseteq KeysOf(map)
    <3> SUFFICES ASSUME NEW n \in Int PROVE KeysOf(DropOldest(map, n)) \subseteq KeysOf(map)
      OBVIOUS
    <3>1. \A i \in DOMAIN DropOldest(map, n) :
            \E j \in DOMAIN map : DropOldest(map, n)[i] = map[j]
      BY <2>1, DropOldestKeeps DEF Entry
    <3>2. QED
      BY <3>1 DEF KeysOf
  <2>8. ASSUME NEW k \in Key, Delete(k) PROVE Promised!Next
    BY <2>4, <2>6, <2>8 DEF Delete
  <2>9. CASE Clear
    <3>1. KeysOf(map') \subseteq KeysOf(map)
      BY <2>9 DEF Clear, KeysOf
    <3>2. QED
      BY <2>4, <2>9, <3>1 DEF Clear
  <2>10. ASSUME NEW n \in Maxes, SetMax(n) PROVE Promised!Next
    <3>1. Len(map) - n \in Int
      BY <2>1
    <3>2. QED
      BY <2>4, <2>7, <2>10, <3>1 DEF SetMax
  <2>11. ASSUME NEW n \in Maxes, DeleteOldest(n) PROVE Promised!Next
    <3>1. n \in Int
      OBVIOUS
    <3>2. QED
      BY <2>4, <2>7, <2>11, <3>1 DEF DeleteOldest
  <2>12. ASSUME NEW w \in Write, w \in inFlight PROVE keyOf[w] \in Key
    BY <2>1, <2>12 DEF Inv, Inductive
  <2>13. ASSUME NEW w \in Write, Resolve(w) PROVE Promised!Next
    <3>1. keyOf[w] \in Key
      BY <2>12, <2>13 DEF Resolve
    <3>2. CASE Holds(w)
      <4>1. keyOf[w] \in KeysOf(map)
        BY <3>2 DEF Holds, EntryOf, KeysOf
      <4>2. KeysOf(Put(map, max, keyOf[w], w, FALSE)) \subseteq KeysOf(map) \cup {keyOf[w]}
        BY <3>1, PutAddsOnlyItsKey
      <4>3. QED
        BY <2>4, <2>13, <3>2, <4>1, <4>2 DEF Resolve
    <3>3. CASE ~Holds(w)
      BY <2>4, <2>13, <3>3 DEF Resolve
    <3>4. QED
      BY <3>2, <3>3
  <2>14. ASSUME NEW w \in Write, Reject(w) PROVE Promised!Next
    <3>1. keyOf[w] \in Key
      BY <2>12, <2>14 DEF Reject
    <3>2. KeysOf(map') \subseteq KeysOf(map)
      BY <2>6, <2>14, <3>1 DEF Reject
    <3>3. QED
      BY <2>4, <2>14, <3>2 DEF Reject
  <2>15. CASE UNCHANGED vars
    <3>1. KeysOf(map') \subseteq KeysOf(map)
      BY <2>15 DEF vars
    <3>2. QED
      BY <2>4, <2>15, <3>1 DEF vars
  <2>16. QED
    BY <2>2, <2>3, <2>5, <2>8, <2>9, <2>10, <2>11, <2>13, <2>14, <2>15 DEF Next, Cache
<1>3. QED
  BY <1>1, <1>2, InvHolds, PTL DEF Spec, IsLossyCache, Promised!Spec
=============================================================================
