--------------------------- MODULE CachedMapProof ---------------------------
(***************************************************************************)
(* Proofs about CachedMap for every set of keys and promises, all times to *)
(* live and every size.                                                    *)
(***************************************************************************)
EXTENDS CachedMap, FiniteSetTheorems, TLAPS

\* Every set of numbers has a least one: the natural numbers are well founded.
LEMMA LeastOf ==
    ASSUME NEW T \in SUBSET Nat, T # {}
    PROVE  \E x \in T : \A y \in T : x <= y
<1> DEFINE R == OpToRel(<, Nat)
<1>1. IsWellFoundedOn(R, Nat)
  BY NatLessThanWellFounded
<1>2. R = {ss \in Nat \X Nat : ss[1] < ss[2]}
  BY DEF OpToRel
<1> HIDE DEF R
<1>3. \A x, y \in Nat : <<x, y>> \in R <=> x < y
  BY <1>2
<1>4. PICK x \in T : \A y \in T : ~ (<<y, x>> \in R)
  BY <1>1, WFMin
<1>5. \A y \in T : ~ (y < x)
  BY <1>3, <1>4
<1>6. QED
  BY <1>5

\* And every bounded one a greatest.
LEMMA GreatestOf ==
    ASSUME NEW T \in SUBSET Nat, T # {}, NEW b \in Nat, \A x \in T : x <= b
    PROVE  \E x \in T : \A y \in T : y <= x
<1> DEFINE gaps == {b - x : x \in T}
<1>1. gaps \in SUBSET Nat /\ gaps # {}
  <2>1. \A x \in T : b - x \in Nat
    OBVIOUS
  <2>2. QED
    BY <2>1
<1>2. PICK gap \in gaps : \A other \in gaps : gap <= other
  <2> HIDE DEF gaps
  <2>1. QED
    BY <1>1, LeastOf
<1>3. PICK x \in T : gap = b - x
  OBVIOUS
<1>4. \A y \in T : b - x <= b - y
  BY <1>2, <1>3
<1>5. QED
  BY <1>4

\* The bounds that the times of an expiry meet.
LEMMA TimesTyped ==
    /\ ErrorMs \in Nat /\ SlopMs \in Nat /\ MaxCached \in Nat /\ MaxTime \in Nat
    /\ Infinity \in Nat /\ MaxTime < Infinity
    /\ \A ms \in TTLs \cup {ErrorMs}, t \in 0 .. MaxTime :
            /\ After(t, ms) \in Nat /\ After(t, ms) <= Infinity
            /\ ms > 0 => After(t, ms) > t
<1>1. /\ ErrorMs \in Nat /\ SlopMs \in Nat /\ MaxCached \in Nat /\ MaxTime \in Nat
      /\ Infinity \in Nat /\ TTLs \subseteq Nat
  BY CachedMapAssumption
<1>2. /\ MaxTime + ErrorMs < Infinity
      /\ \A ms \in TTLs : ms # Infinity => MaxTime + ms < Infinity
  BY CachedMapAssumption
<1>3. QED
  BY <1>1, <1>2 DEF After

----------------------------------------------------------------------------
\* The invariant: what is checked, and what it needs about promises.  A row is
\* of a promise that was settled, a pending promise of one that is not, each of
\* the key it was given with; what was last put or fetched was used; and a
\* promise on its way has a key and a time to live.
Inductive ==
    /\ Bounded /\ NoStaleValue /\ PendingIsLive /\ LifetimeHonest /\ TimerCovers
    /\ \A row \in cached : promise[row.p] \in {"ok", "err"} /\ row.exp <= Infinity
    /\ \A k \in Key : pending[k] # None => keyOf[pending[k]] = k
    /\ \A k \in Key : latest[k] # None => promise[latest[k]] # "unused"
    /\ \A p \in Promise : promise[p] \in {"running", "resolved", "rejected"} =>
            keyOf[p] \in Key /\ ttl[p] \in TTLs

Inv == TypeOK /\ Inductive
\* Some row comes last in the order of expiry.
LEMMA LastRow ==
    ASSUME NEW rows \in SUBSET Row, rows # {}, puts \in Nat,
           \A row \in rows : row.exp <= Infinity /\ row.nth <= puts
    PROVE  \E row \in rows : Beyond(rows, row) = {}
<1>1. Infinity \in Nat
  BY TimesTyped
<1>2. \A row \in rows : row.exp \in Nat /\ row.nth \in Nat
  BY DEF Row
<1> DEFINE exps == {row.exp : row \in rows}
<1>3. PICK exp \in exps : \A other \in exps : other <= exp
  <2>1. exps \in SUBSET Nat /\ exps # {} /\ \A e \in exps : e <= Infinity
    BY <1>2
  <2> HIDE DEF exps
  <2>2. QED
    BY <1>1, <2>1, GreatestOf
<1> DEFINE nths == {row.nth : row \in {other \in rows : other.exp = exp}}
<1>4. PICK nth \in nths : \A other \in nths : other <= nth
  <2>1. nths \in SUBSET Nat /\ nths # {} /\ \A n \in nths : n <= puts
    BY <1>2, <1>3
  <2> HIDE DEF nths
  <2>2. QED
    BY <2>1, GreatestOf
<1>5. PICK row \in rows : row.exp = exp /\ row.nth = nth
  BY <1>4
<1>6. \A other \in rows : other.exp <= row.exp /\ (other.exp = row.exp => other.nth <= row.nth)
  BY <1>3, <1>4, <1>5
<1>7. QED
  BY <1>2, <1>5, <1>6 DEF Beyond

\* The batch that is removed holds a row, so there is room for one more.
LEMMA RoomIsMade ==
    ASSUME NEW rows \in SUBSET Row, IsFiniteSet(rows), puts \in Nat,
           \A row \in rows : row.exp <= Infinity /\ row.nth <= puts,
           MaxCached > 0, Cardinality(rows) <= MaxCached
    PROVE  /\ Room(rows) \subseteq rows /\ IsFiniteSet(Room(rows))
           /\ Cardinality(Room(rows)) < MaxCached
<1>1. MaxCached \in Nat /\ Cardinality(rows) \in Nat
  BY TimesTyped, FS_CardinalityType
<1>2. Room(rows) \subseteq rows
  BY DEF Room
<1>3. /\ IsFiniteSet(Room(rows)) /\ Cardinality(Room(rows)) \in Nat
      /\ Cardinality(Room(rows)) <= Cardinality(rows)
      /\ Cardinality(Room(rows)) = Cardinality(rows) => Room(rows) = rows
  BY <1>2, FS_Subset, FS_CardinalityType
<1>4. CASE Cardinality(rows) < MaxCached
  BY <1>1, <1>2, <1>3, <1>4
<1>5. CASE ~(Cardinality(rows) < MaxCached)
  <2>1. rows # {}
    BY <1>1, <1>5, FS_EmptySet
  <2>2. PICK row \in rows : Beyond(rows, row) = {}
    BY <2>1, LastRow
  <2>3. ~(Cardinality(Beyond(rows, row)) >= (MaxCached + 15) \div 16)
    <3>1. Cardinality(Beyond(rows, row)) = 0
      BY <2>2, FS_EmptySet
    <3>2. (MaxCached + 15) \div 16 >= 1
      BY <1>1
    <3>3. (MaxCached + 15) \div 16 \in Nat
      BY <1>1
    <3>4. QED
      BY <3>1, <3>2, <3>3
  <2>4. row \notin Room(rows)
    BY <1>5, <2>3 DEF Room
  <2>5. QED
    BY <1>1, <1>2, <1>3, <2>2, <2>4
<1>6. QED
  BY <1>4, <1>5

----------------------------------------------------------------------------
\* What the invariant says of the rows.
LEMMA RowsTyped ==
    ASSUME Inv, NEW row \in cached
    PROVE  /\ row \in Row /\ row.key \in Key /\ row.exp \in Nat /\ row.p \in Promise
           /\ row.nth \in Nat /\ row.nth <= puts /\ row.exp <= Infinity
           /\ promise[row.p] \in {"ok", "err"}
<1>1. row \in Row
  BY DEF Inv, TypeOK
<1>2. QED
  BY <1>1 DEF Inv, TypeOK, Inductive, Row

\* A step that takes rows away, and forgets the promises of some keys with their
\* rows, keeps the invariant, if the timer still covers what is left.
LEMMA Dropping ==
    ASSUME Inv, cached' \subseteq cached, timer_t' \in Nat, TimerCovers',
           pending' \in [Key -> Promise \cup {None}], latest' \in [Key -> Promise \cup {None}],
           \A k \in Key :
                \/ pending'[k] = pending[k] /\ latest'[k] = latest[k]
                \/ pending'[k] = None /\ latest'[k] = None /\ \A row \in cached' : row.key # k,
           UNCHANGED <<now, puts, promise, keyOf, ttl, fixedAt>>
    PROVE  Inv'
<1>1. /\ IsFiniteSet(cached) /\ Cardinality(cached) \in Nat /\ MaxCached \in Nat
      /\ Cardinality(cached) <= MaxCached
  BY TimesTyped, FS_CardinalityType DEF Inv, TypeOK, Inductive, Bounded
<1>2. /\ IsFiniteSet(cached') /\ Cardinality(cached') \in Nat
      /\ Cardinality(cached') <= Cardinality(cached)
  BY <1>1, FS_Subset, FS_CardinalityType
<1>3. TypeOK'
  BY <1>2 DEF Inv, TypeOK
<1>4. Bounded'
  BY <1>1, <1>2 DEF Bounded
<1>5. \A row \in cached : row.key \in Key
  BY RowsTyped
<1>6. NoStaleValue'
  BY <1>5 DEF Inv, Inductive, NoStaleValue
<1>7. PendingIsLive'
  BY DEF Inv, Inductive, PendingIsLive
<1>8. LifetimeHonest'
  BY DEF Inv, Inductive, LifetimeHonest, After
<1>9. QED
  BY <1>3, <1>4, <1>6, <1>7, <1>8 DEF Inv, Inductive

\* setPending() keeps it, whatever rows it is called after dropping.
LEMMA Launching ==
    ASSUME Inv, NEW k \in Key, NEW p \in Promise, NEW ms \in TTLs, NEW rows \in SUBSET cached,
           Launch(k, p, ms, rows)
    PROVE  Inv'
<1>1. /\ IsFiniteSet(cached) /\ Cardinality(cached) \in Nat /\ MaxCached \in Nat
      /\ Cardinality(cached) <= MaxCached
  BY TimesTyped, FS_CardinalityType DEF Inv, TypeOK, Inductive, Bounded
<1>2. /\ IsFiniteSet(rows) /\ Cardinality(rows) \in Nat
      /\ Cardinality(rows) <= Cardinality(cached)
  BY <1>1, FS_Subset, FS_CardinalityType
<1>3. ms \in Nat /\ p # None
  BY CachedMapAssumption
<1>4. TypeOK'
  BY <1>2, <1>3 DEF Inv, TypeOK, Launch
<1>5. Bounded'
  BY <1>1, <1>2 DEF Bounded, Launch
<1>6. \A row \in cached : row.key \in Key /\ row.p # p /\ row.p \in Promise
  BY RowsTyped DEF Launch
<1>7. /\ promise' = [promise EXCEPT ![p] = "running"] /\ keyOf' = [keyOf EXCEPT ![p] = k]
      /\ ttl' = [ttl EXCEPT ![p] = ms] /\ pending' = [pending EXCEPT ![k] = p]
      /\ latest' = [latest EXCEPT ![k] = p] /\ cached' = rows /\ promise[p] = "unused"
      /\ now' = now /\ timer_t' = timer_t /\ fixedAt' = fixedAt /\ puts' = puts
  BY DEF Launch
<1>8. /\ promise \in [Promise -> {"unused", "running", "resolved", "rejected", "ok", "err"}]
      /\ keyOf \in [Promise -> Key \cup {None}] /\ ttl \in [Promise -> Nat]
      /\ pending \in [Key -> Promise \cup {None}] /\ latest \in [Key -> Promise \cup {None}]
  BY DEF Inv, TypeOK
<1>9. \A other \in Key : pending[other] # p
  BY <1>3, <1>7 DEF Inv, Inductive, PendingIsLive
<1>10. NoStaleValue'
  BY <1>3, <1>6, <1>7, <1>8 DEF Inv, Inductive, NoStaleValue
<1>11. PendingIsLive'
  BY <1>3, <1>7, <1>8, <1>9 DEF Inv, Inductive, PendingIsLive
<1>12. LifetimeHonest'
  BY <1>6, <1>7, <1>8 DEF Inv, Inductive, LifetimeHonest, After
<1>13. TimerCovers'
  BY <1>7 DEF Inv, Inductive, TimerCovers
<1>14. \A row \in cached' : promise'[row.p] \in {"ok", "err"} /\ row.exp <= Infinity
  BY <1>6, <1>7, <1>8 DEF Inv, Inductive
<1>15. \A other \in Key : pending'[other] # None => keyOf'[pending'[other]] = other
  BY <1>7, <1>8, <1>9 DEF Inv, Inductive
<1>16. \A other \in Key : latest'[other] # None => promise'[latest'[other]] # "unused"
  BY <1>7, <1>8 DEF Inv, Inductive
<1>17. \A q \in Promise : promise'[q] \in {"running", "resolved", "rejected"} =>
            keyOf'[q] \in Key /\ ttl'[q] \in TTLs
  BY <1>7, <1>8 DEF Inv, Inductive
<1>18. QED
  BY <1>4, <1>5, <1>10, <1>11, <1>12, <1>13, <1>14, <1>15, <1>16, <1>17 DEF Inv, Inductive
\* set() with the outcome p of a fetch or a write of k keeps it: the rows that
\* were there are of other promises, and the new one lives as long as its
\* outcome says.
LEMMA Putting ==
    ASSUME Inv, NEW k \in Key, NEW p \in Promise, NEW ms \in TTLs \cup {ErrorMs}, Put(k, p, ms),
           promise[p] \in {"unused", "resolved", "rejected"},
           NEW outcome \in {"ok", "err"}, promise' = [promise EXCEPT ![p] = outcome],
           NEW t \in TTLs, ttl' = [ttl EXCEPT ![p] = t],
           ms = IF outcome = "err" THEN ErrorMs ELSE t,
           keyOf' = [keyOf EXCEPT ![p] = k], promise[p] = "unused" \/ keyOf[p] = k,
           latest' = [latest EXCEPT ![k] = p], now' = now
    PROVE  Inv'
<1> DEFINE kept == Without(cached, k)
           exp  == After(now, ms)
           new  == [key |-> k, exp |-> exp, p |-> p, nth |-> puts]
<1>1. /\ cached \in SUBSET Row /\ puts \in Nat /\ now \in 0 .. MaxTime /\ timer_t \in Nat
      /\ promise \in [Promise -> {"unused", "running", "resolved", "rejected", "ok", "err"}]
      /\ keyOf \in [Promise -> Key \cup {None}] /\ ttl \in [Promise -> Nat]
      /\ pending \in [Key -> Promise \cup {None}] /\ latest \in [Key -> Promise \cup {None}]
      /\ fixedAt \in [Promise -> Nat]
  BY DEF Inv, TypeOK
<1>2. /\ SlopMs \in Nat /\ MaxCached \in Nat /\ MaxTime \in Nat /\ Infinity \in Nat
      /\ TTLs \subseteq Nat /\ ErrorMs \in Nat /\ p # None /\ ms \in Nat /\ MaxTime < Infinity
  BY CachedMapAssumption, TimesTyped
<1>3. /\ exp \in Nat /\ exp <= Infinity /\ (ms > 0 => exp > now)
  BY <1>1, TimesTyped
<1>4. \A row \in cached :
        /\ row.key \in Key /\ row.exp \in Nat /\ row.exp <= Infinity /\ row.p \in Promise /\ row.p # p
        /\ row.nth \in Nat /\ row.nth <= puts /\ row.nth < puts
  BY <1>1, RowsTyped DEF Row, Inv, TypeOK
<1>5. /\ kept \in SUBSET cached /\ IsFiniteSet(kept) /\ Cardinality(kept) <= MaxCached
      /\ Cardinality(kept) \in Nat /\ \A row \in kept : row.key # k
  <2>1. kept \in SUBSET cached
    BY DEF Without
  <2>2. IsFiniteSet(cached) /\ Cardinality(cached) \in Nat /\ Cardinality(cached) <= MaxCached
    BY FS_CardinalityType DEF Inv, TypeOK, Inductive, Bounded
  <2>3. IsFiniteSet(kept) /\ Cardinality(kept) \in Nat /\ Cardinality(kept) <= Cardinality(cached)
    BY <2>1, <2>2, FS_Subset, FS_CardinalityType
  <2>4. QED
    BY <1>2, <2>1, <2>2, <2>3 DEF Without
<1>6. /\ pending' = [pending EXCEPT ![k] = None] /\ fixedAt' = [fixedAt EXCEPT ![p] = now]
      /\ IF MaxCached > 0 /\ ms > 0
         THEN cached' = Room(kept) \cup {new} /\ puts' = puts + 1 /\ timer_t' = Scheduled(timer_t, exp)
         ELSE cached' = kept /\ puts' = puts /\ timer_t' = timer_t
  BY DEF Put
<1>7. new \in Row /\ new.key = k /\ new.exp = exp /\ new.p = p /\ new.nth = puts
  BY <1>1, <1>3 DEF Row
<1> HIDE DEF kept, new
<1>8. MaxCached > 0 => /\ Room(kept) \subseteq kept /\ IsFiniteSet(Room(kept))
                       /\ Cardinality(Room(kept)) < MaxCached
                       /\ Cardinality(Room(kept)) \in Nat
  <2>1. kept \in SUBSET Row /\ \A row \in kept : row.exp <= Infinity /\ row.nth <= puts
    BY <1>1, <1>4, <1>5
  <2>2. QED
    BY <1>1, <1>5, <2>1, RoomIsMade, FS_CardinalityType
\* What is cached afterwards: rows of other keys, and perhaps the new one.
<1>9. /\ IsFiniteSet(cached') /\ Cardinality(cached') <= MaxCached
      /\ \A row \in cached' : (row \in cached /\ row.key # k) \/ row = new
      /\ puts' \in Nat /\ puts' >= puts /\ (new \in cached' => puts' = puts + 1)
      /\ new \in cached' => timer_t' = Scheduled(timer_t, exp)
      /\ timer_t' = timer_t \/ timer_t' = Scheduled(timer_t, exp)
  <2>1. CASE MaxCached > 0 /\ ms > 0
    <3>1. /\ cached' = Room(kept) \cup {new} /\ puts' = puts + 1
          /\ timer_t' = Scheduled(timer_t, exp)
      BY <1>6, <2>1
    <3>2. new \notin Room(kept)
      BY <1>5, <1>7, <1>8, <2>1
    <3>3. IsFiniteSet(cached') /\ Cardinality(cached') = Cardinality(Room(kept)) + 1
      BY <1>8, <2>1, <3>1, <3>2, FS_AddElement
    <3>4. QED
      BY <1>1, <1>2, <1>5, <1>8, <2>1, <3>1, <3>3
  <2>2. CASE ~(MaxCached > 0 /\ ms > 0)
    <3>1. new \notin kept
      BY <1>5, <1>7
    <3>2. QED
      BY <1>1, <1>5, <1>6, <2>2, <3>1
  <2>3. QED
    BY <2>1, <2>2
<1>10. /\ Scheduled(timer_t, exp) \in Nat /\ Scheduled(timer_t, exp) <= timer_t
       /\ exp < Infinity => Scheduled(timer_t, exp) <= exp + SlopMs
  <2>1. exp >= now
    BY <1>1, <1>2, <1>3 DEF After
  <2>2. QED
    BY <1>1, <1>2, <1>3, <2>1 DEF Scheduled, Later
<1>11. TypeOK'
  <2>1. cached' \subseteq Row /\ \A row \in cached' : row.nth < puts'
    <3> SUFFICES ASSUME NEW row \in cached' PROVE row \in Row /\ row.nth < puts'
      OBVIOUS
    <3>1. CASE row = new
      BY <1>1, <1>7, <1>9, <3>1
    <3>2. CASE row \in cached
      BY <1>1, <1>4, <1>9, <3>2
    <3>3. QED
      BY <1>9, <3>1, <3>2
  <2>2. \A row, other \in cached' : row.key = other.key => row = other
    BY <1>7, <1>9 DEF Inv, TypeOK
  <2>3. timer_t' \in Nat
    BY <1>1, <1>9, <1>10
  <2>4. /\ pending' \in [Key -> Promise \cup {None}] /\ latest' \in [Key -> Promise \cup {None}]
        /\ promise' \in [Promise -> {"unused", "running", "resolved", "rejected", "ok", "err"}]
        /\ keyOf' \in [Promise -> Key \cup {None}] /\ ttl' \in [Promise -> Nat]
        /\ fixedAt' \in [Promise -> Nat] /\ now' \in 0 .. MaxTime
    BY <1>1, <1>2, <1>6
  <2>5. QED
    BY <1>9, <2>1, <2>2, <2>3, <2>4 DEF TypeOK
<1>12. Bounded'
  BY <1>9 DEF Bounded
<1>13. NoStaleValue'
  <2>1. \A row \in cached' :
            latest'[row.key] # None /\ latest'[row.key] \in {row.p, pending'[row.key]}
    BY <1>1, <1>2, <1>4, <1>6, <1>7, <1>9 DEF Inv, Inductive, NoStaleValue
  <2>2. \A o \in Key : pending'[o] \in {None, latest'[o]}
    BY <1>1, <1>6 DEF Inv, Inductive, NoStaleValue
  <2>3. QED
    BY <2>1, <2>2 DEF NoStaleValue
<1>14. \A o \in Key : o # k => pending[o] # p
  <2> SUFFICES ASSUME NEW o \in Key, o # k, pending[o] = p PROVE FALSE
    OBVIOUS
  <2>1. promise[p] # "unused" /\ keyOf[p] = o
    BY <1>2 DEF Inv, Inductive, PendingIsLive
  <2>2. QED
    BY <2>1
<1>15. PendingIsLive'
  BY <1>1, <1>6, <1>14 DEF Inv, Inductive, PendingIsLive
<1>16. LifetimeHonest'
  <2> SUFFICES ASSUME NEW row \in cached'
               PROVE  row.exp = After(fixedAt'[row.p],
                                      IF promise'[row.p] = "err" THEN ErrorMs ELSE ttl'[row.p])
    BY DEF LifetimeHonest, After
  <2>1. CASE row = new
    BY <1>1, <1>6, <1>7, <2>1
  <2>2. CASE row \in cached
    BY <1>1, <1>4, <1>6, <2>2 DEF Inv, Inductive, LifetimeHonest
  <2>3. QED
    BY <1>9, <2>1, <2>2
<1>17. TimerCovers'
  <2> SUFFICES ASSUME NEW row \in cached', row.exp < Infinity PROVE timer_t' <= row.exp + SlopMs
    BY DEF TimerCovers
  <2>1. CASE row = new
    BY <1>7, <1>9, <1>10, <2>1
  <2>2. CASE row \in cached
    <3>1. timer_t <= row.exp + SlopMs /\ row.exp \in Nat
      BY <1>4, <2>2 DEF Inv, Inductive, TimerCovers
    <3>2. timer_t' \in Nat /\ timer_t' <= timer_t
      BY <1>1, <1>9, <1>10
    <3>3. QED
      BY <1>1, <1>2, <3>1, <3>2
  <2>3. QED
    BY <1>9, <2>1, <2>2
<1>18. \A row \in cached' : promise'[row.p] \in {"ok", "err"} /\ row.exp <= Infinity
  BY <1>1, <1>3, <1>4, <1>7, <1>9 DEF Inv, Inductive
<1>19. \A o \in Key : pending'[o] # None => keyOf'[pending'[o]] = o
  BY <1>1, <1>6, <1>14 DEF Inv, Inductive
<1>20. \A o \in Key : latest'[o] # None => promise'[latest'[o]] # "unused"
  BY <1>1 DEF Inv, Inductive
<1>21. \A q \in Promise : promise'[q] \in {"running", "resolved", "rejected"} =>
            keyOf'[q] \in Key /\ ttl'[q] \in TTLs
  BY <1>1 DEF Inv, Inductive
<1>22. QED
  BY <1>11, <1>12, <1>13, <1>15, <1>16, <1>17, <1>18, <1>19, <1>20, <1>21 DEF Inv, Inductive
\* The invariant holds at first, and every operation keeps it.
LEMMA InvHolds == Spec => []Inv
<1>1. Init => Inv
  <2> SUFFICES ASSUME Init PROVE Inv
    OBVIOUS
  <2>1. TypeOK
    BY TimesTyped, FS_EmptySet DEF Init, TypeOK
  <2>2. Bounded
    BY TimesTyped, FS_EmptySet DEF Init, Bounded
  <2>3. QED
    BY <2>1, <2>2 DEF Init, Inv, Inductive, NoStaleValue, PendingIsLive, LifetimeHonest, TimerCovers
<1>2. Inv /\ [Next]_vars => Inv'
  <2> SUFFICES ASSUME Inv, [Next]_vars PROVE Inv'
    OBVIOUS
  <2>1. /\ SlopMs \in Nat /\ Infinity \in Nat /\ None \notin Promise
        /\ now \in Nat /\ timer_t \in Nat /\ now \in 0 .. MaxTime
        /\ pending \in [Key -> Promise \cup {None}] /\ latest \in [Key -> Promise \cup {None}]
        /\ promise \in [Promise -> {"unused", "running", "resolved", "rejected", "ok", "err"}]
        /\ keyOf \in [Promise -> Key \cup {None}] /\ ttl \in [Promise -> Nat]
    BY CachedMapAssumption, TimesTyped DEF Inv, TypeOK
  <2>2. \A k : Without(cached, k) \in SUBSET cached /\ \A row \in Without(cached, k) : row.key # k
    BY DEF Without
  <2>3. ASSUME NEW k \in Key, NEW p \in Promise, NEW ms \in TTLs, Fetch(k, p, ms) PROVE Inv'
    BY <2>2, <2>3, Launching DEF Fetch
  <2>4. ASSUME NEW k \in Key, NEW p \in Promise, NEW ms \in TTLs, SetPending(k, p, ms) PROVE Inv'
    BY <2>4, Launching DEF SetPending
  <2>5. ASSUME NEW k \in Key, NEW p \in Promise, NEW ms \in TTLs, Set(k, p, ms) PROVE Inv'
    BY <2>5, Putting DEF Set
  <2>6. ASSUME NEW k \in Key, Peek(k) PROVE Inv'
    <3>1. cached' \subseteq cached
      BY <2>2, <2>6 DEF Peek, Looked
    <3>2. TimerCovers'
      BY <2>6, <3>1 DEF Peek, Inv, Inductive, TimerCovers
    <3>3. QED
      BY <2>1, <2>6, <3>1, <3>2, Dropping DEF Peek
  <2>7. ASSUME NEW k \in Key, Delete(k) PROVE Inv'
    <3>1. cached' \subseteq cached /\ \A row \in cached' : row.key # k
      BY <2>2, <2>7 DEF Delete
    <3>2. TimerCovers'
      BY <2>7, <3>1 DEF Delete, Inv, Inductive, TimerCovers
    <3>3. QED
      BY <2>1, <2>7, <3>1, <3>2, Dropping DEF Delete
  <2>8. CASE Clear
    <3>1. cached' = {} /\ TimerCovers'
      BY <2>8 DEF Clear, TimerCovers
    <3>2. QED
      BY <2>1, <2>8, <3>1, Dropping DEF Clear
  <2>9. ASSUME NEW p \in Promise, Settle(p) PROVE Inv'
    <3>1. PICK outcome \in {"resolved", "rejected"} : promise' = [promise EXCEPT ![p] = outcome]
      BY <2>9 DEF Settle
    <3>2. /\ UNCHANGED <<now, cached, puts, pending, timer_t, keyOf, ttl, latest, fixedAt>>
          /\ promise[p] = "running"
      BY <2>9 DEF Settle
    <3>3. \A row \in cached : row.p \in Promise /\ row.p # p
      BY <3>2, RowsTyped
    <3>4. TypeOK'
      BY <2>1, <3>1, <3>2 DEF Inv, TypeOK
    <3>5. Bounded' /\ NoStaleValue' /\ TimerCovers'
      BY <3>2 DEF Inv, Inductive, Bounded, NoStaleValue, TimerCovers
    <3>6. PendingIsLive'
      BY <2>1, <3>1, <3>2 DEF Inv, Inductive, PendingIsLive
    <3>7. LifetimeHonest'
      BY <2>1, <3>1, <3>2, <3>3 DEF Inv, Inductive, LifetimeHonest, After
    <3>8. \A row \in cached' : promise'[row.p] \in {"ok", "err"} /\ row.exp <= Infinity
      BY <2>1, <3>1, <3>2, <3>3 DEF Inv, Inductive
    <3>9. \A k \in Key : latest'[k] # None => promise'[latest'[k]] # "unused"
      BY <2>1, <3>1, <3>2 DEF Inv, Inductive
    <3>10. /\ \A k \in Key : pending'[k] # None => keyOf'[pending'[k]] = k
           /\ \A q \in Promise : promise'[q] \in {"running", "resolved", "rejected"} =>
                keyOf'[q] \in Key /\ ttl'[q] \in TTLs
      BY <2>1, <3>1, <3>2 DEF Inv, Inductive
    <3>11. QED
      BY <3>4, <3>5, <3>6, <3>7, <3>8, <3>9, <3>10 DEF Inv, Inductive
  <2>10. ASSUME NEW p \in Promise, Continue(p) PROVE Inv'
    <3> DEFINE outcome == IF promise[p] = "rejected" THEN "err" ELSE "ok"
    <3>1. /\ promise[p] \in {"resolved", "rejected"} /\ keyOf[p] \in Key /\ ttl[p] \in TTLs
          /\ promise' = [promise EXCEPT ![p] = outcome] /\ outcome \in {"ok", "err"}
          /\ UNCHANGED <<now, keyOf, ttl, latest>>
      BY <2>1, <2>10 DEF Continue, Inv, Inductive
    <3>2. KeptFor(p) = IF outcome = "err" THEN ErrorMs ELSE ttl[p]
      BY <3>1 DEF KeptFor
    <3> HIDE DEF outcome
    <3>3. CASE pending[keyOf[p]] = p
      <4>1. PICK k \in Key, t \in TTLs, ms \in TTLs \cup {ErrorMs}, ended \in {"ok", "err"} :
                /\ k = keyOf[p] /\ t = ttl[p] /\ ended = outcome
                /\ ms = IF ended = "err" THEN ErrorMs ELSE t
        BY <3>1
      <4>2. Put(k, p, ms)
        BY <2>10, <3>2, <3>3, <4>1 DEF Continue
      <4>3. latest[k] = p
        BY <2>1, <3>3, <4>1 DEF Inv, Inductive, NoStaleValue
      <4>4. /\ ttl' = [ttl EXCEPT ![p] = t] /\ keyOf' = [keyOf EXCEPT ![p] = k]
            /\ latest' = [latest EXCEPT ![k] = p] /\ now' = now /\ keyOf[p] = k
            /\ promise' = [promise EXCEPT ![p] = ended]
        BY <2>1, <3>1, <4>1, <4>3
      <4>5. promise[p] \in {"unused", "resolved", "rejected"}
        BY <3>1
      <4>6. ms = IF ended = "err" THEN ErrorMs ELSE t
        BY <4>1
      <4>7. QED
        BY <4>2, <4>4, <4>5, <4>6, Putting
    <3>4. CASE pending[keyOf[p]] # p
      <4>1. UNCHANGED <<cached, puts, pending, timer_t, fixedAt>>
        BY <2>10, <3>4 DEF Continue
      <4>2. \A row \in cached : row.p \in Promise /\ row.p # p
        BY <3>1, RowsTyped
      <4>3. \A k \in Key : pending[k] # p
        BY <2>1, <3>4 DEF Inv, Inductive
      <4>4. TypeOK'
        BY <2>1, <3>1, <4>1 DEF Inv, TypeOK
      <4>5. Bounded' /\ NoStaleValue' /\ TimerCovers'
        BY <3>1, <4>1 DEF Inv, Inductive, Bounded, NoStaleValue, TimerCovers
      <4>6. PendingIsLive'
        BY <2>1, <3>1, <4>1, <4>3 DEF Inv, Inductive, PendingIsLive
      <4>7. LifetimeHonest'
        BY <2>1, <3>1, <4>1, <4>2 DEF Inv, Inductive, LifetimeHonest, After
      <4>8. \A row \in cached' : promise'[row.p] \in {"ok", "err"} /\ row.exp <= Infinity
        BY <2>1, <3>1, <4>1, <4>2 DEF Inv, Inductive
      <4>9. \A k \in Key : latest'[k] # None => promise'[latest'[k]] # "unused"
        BY <2>1, <3>1 DEF Inv, Inductive
      <4>10. /\ \A k \in Key : pending'[k] # None => keyOf'[pending'[k]] = k
             /\ \A q \in Promise : promise'[q] \in {"running", "resolved", "rejected"} =>
                  keyOf'[q] \in Key /\ ttl'[q] \in TTLs
        BY <2>1, <3>1, <4>1 DEF Inv, Inductive
      <4>11. QED
        BY <4>4, <4>5, <4>6, <4>7, <4>8, <4>9, <4>10 DEF Inv, Inductive
    <3>5. QED
      BY <3>3, <3>4
  <2>11. CASE Timer
    <3> DEFINE left == {row.exp : row \in cached} \cap (now .. Infinity - 1)
               min  == CHOOSE exp \in left : \A other \in left : exp <= other
    <3>1. /\ cached' = {row \in cached : row.exp >= now}
          /\ timer_t' = IF left = {} THEN Infinity ELSE Later(now + SlopMs, min)
          /\ UNCHANGED <<now, puts, pending, promise, keyOf, ttl, latest, fixedAt>>
      BY <2>11 DEF Timer
    <3>2. left \in SUBSET Nat
      BY <2>1
    <3>3. \A row \in cached' : row.exp < Infinity => row.exp \in left /\ row.exp >= now
      BY <2>1, <3>1, RowsTyped
    <3> HIDE DEF left
    <3>4. left # {} => min \in left /\ min \in Nat /\ \A other \in left : min <= other
      <4>1. left # {} => \E exp \in left : \A other \in left : exp <= other
        BY <3>2, LeastOf
      <4>2. QED
        BY <3>2, <4>1
    <3> HIDE DEF min
    <3>5. timer_t' \in Nat
      BY <2>1, <3>1, <3>4 DEF Later
    <3>6. TimerCovers'
      <4> SUFFICES ASSUME NEW row \in cached', row.exp < Infinity
                   PROVE  timer_t' <= row.exp + SlopMs
        BY DEF TimerCovers
      <4>1. row.exp \in left /\ row.exp >= now /\ row.exp \in Nat
        BY <3>2, <3>3
      <4>2. timer_t' = Later(now + SlopMs, min) /\ min \in Nat /\ min <= row.exp
        BY <3>1, <3>4, <4>1
      <4>3. QED
        BY <2>1, <4>1, <4>2 DEF Later
    <3>7. cached' \subseteq cached
      BY <3>1
    <3>8. QED
      BY <2>1, <3>1, <3>5, <3>6, <3>7, Dropping
  <2>12. CASE Tick
    <3>1. /\ now' = now + 1 /\ now < MaxTime
          /\ UNCHANGED <<cached, puts, pending, timer_t, promise, keyOf, ttl, latest, fixedAt>>
      BY <2>12 DEF Tick
    <3>2. TypeOK'
      BY <2>1, <3>1, TimesTyped DEF Inv, TypeOK
    <3>3. QED
      BY <3>1, <3>2 DEF Inv, Inductive, Bounded, NoStaleValue, PendingIsLive, LifetimeHonest,
                        TimerCovers, After
  <2>13. CASE UNCHANGED vars
    BY <2>13 DEF vars, Inv, TypeOK, Inductive, Bounded, NoStaleValue, PendingIsLive,
                 LifetimeHonest, TimerCovers, After
  <2>14. QED
    BY <2>3, <2>4, <2>5, <2>6, <2>7, <2>8, <2>9, <2>10, <2>11, <2>12, <2>13 DEF Next
<1>3. QED
  BY <1>1, <1>2, PTL DEF Spec

\* The variables keep their types, and a key has one row (src/cached.ts,
\* CachedMap).
THEOREM TypeCorrect == Spec => []TypeOK
BY InvHolds, PTL DEF Inv

\* However many fetches end at once, no more than maxCached promises are kept:
\* set() makes room before it adds.
THEOREM IsBounded == Spec => []Bounded
BY InvHolds, PTL DEF Inv, Inductive

\* A fetch that was overtaken by a set(), a delete(), a clear() or another fetch
\* of its key never comes back when it ends.
THEOREM NoValueIsStale == Spec => []NoStaleValue
BY InvHolds, PTL DEF Inv, Inductive

\* Nobody who asks for a key is made to wait for a fetch that has ended.
THEOREM PendingPromisesAreLive == Spec => []PendingIsLive
BY InvHolds, PTL DEF Inv, Inductive

\* A value is kept as long as asked from when it was known, a rejection for
\* errorMs.
THEOREM LifetimesAreHonest == Spec => []LifetimeHonest
BY InvHolds, PTL DEF Inv, Inductive

\* Whatever will expire, the timer is set to drop it at most slopMs later.
THEOREM TheTimerCovers == Spec => []TimerCovers
BY InvHolds, PTL DEF Inv, Inductive

-----------------------------------------------------------------------------
(***************************************************************************)
(* CachedMap implements LossyCache, for every set of keys and promises,    *)
(* all times to live and every size.                                       *)
(***************************************************************************)

\* A look at a key gives the row that is valid, if there is one, as there is at
\* most one, and else what is pending, which is what was last put or fetched.
LEMMA ShownIsEither ==
    ASSUME Inv, NEW k \in Key
    PROVE  /\ \A row \in ValidRows(k) : Shown[k] = row.p
           /\ ValidRows(k) = {} => Shown[k] = pending[k]
           /\ Shown[k] \in Promise \cup {None}
           /\ Shown[k] # None => latest[k] # None /\ latest[k] \in {Shown[k], pending[k]}
<1>1. \A row \in ValidRows(k) : row \in cached /\ row.key = k /\ row.p \in Promise
  BY RowsTyped DEF ValidRows
<1>2. \A row, other \in ValidRows(k) : row = other
  BY <1>1 DEF Inv, TypeOK
<1>3. None \notin Promise /\ pending[k] \in Promise \cup {None}
  BY CachedMapAssumption DEF Inv, TypeOK
<1>4. CASE ValidRows(k) = {}
  <2>1. Shown[k] = pending[k]
    BY <1>4 DEF Shown
  <2>2. QED
    BY <1>3, <1>4, <2>1 DEF Inv, Inductive, NoStaleValue
<1>5. CASE ValidRows(k) # {}
  <2>1. PICK row \in ValidRows(k) : Shown[k] = row.p
    BY <1>5 DEF Shown
  <2>2. QED
    BY <1>1, <1>2, <1>3, <1>5, <2>1 DEF Inv, Inductive, NoStaleValue
<1>6. QED
  BY <1>4, <1>5

\* The same holds after a step.
ShownIs ==
    \A k \in Key : /\ \A row \in ValidRows(k) : Shown[k] = row.p
                   /\ ValidRows(k) = {} => Shown[k] = pending[k]

LEMMA ShownIsEitherNext == Inv' => ShownIs'
<1>1. Inv => ShownIs
  BY ShownIsEither DEF ShownIs
<1>2. QED
  BY <1>1, PTL

\* A key fades in a step that puts nothing for it and makes none of its rows valid.
LEMMA Fading ==
    ASSUME Inv, Inv', NEW k \in Key, pending'[k] = pending[k], latest'[k] = latest[k],
           ValidRows(k)' \subseteq ValidRows(k)
    PROVE  Promised!Fades(k)
<1>1. /\ \A row \in ValidRows(k) : Shown[k] = row.p
      /\ ValidRows(k) = {} => Shown[k] = pending[k]
      /\ Shown[k] # None => latest[k] # None /\ latest[k] \in {Shown[k], pending[k]}
      /\ Shown[k] \in Promise \cup {None}
  BY ShownIsEither
<1>2. /\ \A row \in ValidRows(k)' : Shown'[k] = row.p
      /\ ValidRows(k)' = {} => Shown'[k] = pending'[k]
  BY ShownIsEitherNext DEF ShownIs, ValidRows
<1>3. pending[k] \in {None, latest[k]} /\ None \notin Promise
  BY CachedMapAssumption DEF Inv, Inductive, NoStaleValue
<1>4. CASE ValidRows(k)' # {}
  <2>1. Shown'[k] = Shown[k]
    BY <1>1, <1>2, <1>4
  <2>2. QED
    BY <2>1 DEF Promised!Fades
<1>5. CASE ValidRows(k)' = {}
  <2>1. Shown'[k] = pending[k]
    BY <1>2, <1>5
  <2>2. CASE pending[k] = None
    BY <2>1, <2>2 DEF Promised!Fades, Promised!Lost
  <2>3. CASE pending[k] # None
    <3>1. Shown[k] # None
      BY <1>1, <1>3, <2>3, RowsTyped DEF ValidRows
    <3>2. QED
      BY <1>3, <2>1, <2>3, <3>1 DEF Promised!Fades
  <2>4. QED
    BY <2>2, <2>3
<1>6. QED
  BY <1>4, <1>5

\* What is used after a step that settles or launches p.
LEMMA UsedGrows ==
    ASSUME Inv, NEW p \in Promise, NEW fate \in {"running", "resolved", "rejected", "ok", "err"},
           promise' = [promise EXCEPT ![p] = fate]
    PROVE  {q \in Promise : promise'[q] # "unused"} = {q \in Promise : promise[q] # "unused"} \cup {p}
<1>1. \A q \in Promise : promise'[q] # "unused" <=> promise[q] # "unused" \/ q = p
  BY DEF Inv, TypeOK
<1>2. QED
  BY <1>1

\* A step of the abstract cache that puts nothing.
LEMMA FadingAll ==
    ASSUME {q \in Promise : promise'[q] # "unused"} = {q \in Promise : promise[q] # "unused"},
           \A k \in Key : Promised!Fades(k)
    PROVE  Promised!Next
BY DEF Promised!Next, Promised!Fade

\* A row that is put for k shows, and nothing does if it is not kept.
LEMMA PutShows ==
    ASSUME Inv, Inv', NEW k \in Key, NEW p \in Promise, NEW ms \in TTLs \cup {ErrorMs},
           Put(k, p, ms), now' = now, latest' = [latest EXCEPT ![k] = p]
    PROVE  /\ \/ Shown'[k] = p /\ latest'[k] = p
              \/ Promised!Lost(k)
           /\ \A o \in Key \ {k} : Promised!Fades(o)
<1> DEFINE exp == After(now, ms)
           new == [key |-> k, exp |-> exp, p |-> p, nth |-> puts]
           kept == Without(cached, k)
<1>1. /\ pending' = [pending EXCEPT ![k] = None]
      /\ \/ MaxCached > 0 /\ ms > 0 /\ cached' = Room(kept) \cup {new}
         \/ cached' = kept
  BY DEF Put
<1>2. Room(kept) \subseteq kept
  BY DEF Room
<1>3. new.key = k /\ new.exp = exp /\ new.p = p
  OBVIOUS
<1>4. ms > 0 => exp > now
  BY TimesTyped DEF Inv, TypeOK
<1> HIDE DEF new, exp
<1>5. /\ pending \in [Key -> Promise \cup {None}] /\ latest \in [Key -> Promise \cup {None}]
  BY DEF Inv, TypeOK
<1>6. /\ \A row \in cached' : row.key # k => row \in cached
      /\ \A row \in cached' : row.key = k => row = new /\ ms > 0
      /\ new \in cached' \/ \A row \in cached' : row.key # k
  BY <1>1, <1>2, <1>3 DEF Without
<1>7. /\ \A row \in ValidRows(k)' : Shown'[k] = row.p
      /\ ValidRows(k)' = {} => Shown'[k] = pending'[k]
  BY ShownIsEitherNext DEF ShownIs, ValidRows
<1>8. \A o \in Key \ {k} : Promised!Fades(o)
  <2> SUFFICES ASSUME NEW o \in Key, o # k PROVE Promised!Fades(o)
    OBVIOUS
  <2>1. pending'[o] = pending[o] /\ latest'[o] = latest[o]
    BY <1>1, <1>5
  <2>2. ValidRows(o)' \subseteq ValidRows(o)
    BY <1>6 DEF ValidRows
  <2>3. QED
    BY <2>1, <2>2, Fading
<1>9. CASE new \in cached'
  <2>1. new \in ValidRows(k)'
    BY <1>3, <1>4, <1>6, <1>9 DEF ValidRows
  <2>2. Shown'[k] = p /\ latest'[k] = p
    BY <1>3, <1>5, <1>7, <2>1
  <2>3. QED
    BY <2>2, <1>8
<1>10. CASE \A row \in cached' : row.key # k
  <2>1. ValidRows(k)' = {}
    BY <1>10 DEF ValidRows
  <2>2. Shown'[k] = None
    BY <1>1, <1>5, <1>7, <2>1
  <2>3. Promised!Lost(k)
    BY <2>2 DEF Promised!Lost
  <2>4. QED
    BY <2>3, <1>8
<1>11. QED
  BY <1>6, <1>9, <1>10

\* Whatever expires, is displaced, deleted or dropped for want of room: what a
\* look at a key of the CachedMap of src/cached.ts gives is the latest value put
\* for it, an older one until that is known, or nothing, and what it no longer
\* gives it never gives again.
THEOREM ImplementsLossyCache == Spec => IsLossyCache
<1>1. Init => Promised!Init
  <2> SUFFICES ASSUME Init PROVE Promised!Init
    OBVIOUS
  <2>1. \A k \in Key : ValidRows(k) = {} /\ pending[k] = None
    BY DEF Init, ValidRows
  <2>2. Shown = [k \in Key |-> None]
    BY <2>1 DEF Shown
  <2>3. {p \in Promise : promise[p] # "unused"} = {}
    BY DEF Init
  <2>4. QED
    BY <2>2, <2>3 DEF Promised!Init
<1>2. Inv /\ Inv' /\ [Next]_vars => [Promised!Next]_(Promised!vars)
  <2> SUFFICES ASSUME Inv, Inv', [Next]_vars PROVE Promised!Next \/ UNCHANGED Promised!vars
    OBVIOUS
  <2>1. /\ now \in Nat /\ None \notin Promise
        /\ pending \in [Key -> Promise \cup {None}] /\ latest \in [Key -> Promise \cup {None}]
        /\ promise \in [Promise -> {"unused", "running", "resolved", "rejected", "ok", "err"}]
    BY CachedMapAssumption DEF Inv, TypeOK
  <2>2. \A row \in cached : row.exp \in Nat
    BY RowsTyped
  <2>3. ASSUME promise' = promise,
               \A k \in Key :
                  \/ /\ pending'[k] = pending[k] /\ latest'[k] = latest[k]
                     /\ ValidRows(k)' \subseteq ValidRows(k)
                  \/ pending'[k] = None /\ ValidRows(k)' = {}
        PROVE  Promised!Next
    <3> SUFFICES ASSUME NEW k \in Key PROVE Promised!Fades(k)
      BY <2>3, FadingAll
    <3>1. CASE pending'[k] = None /\ ValidRows(k)' = {}
      <4>1. Shown'[k] = None
        BY <3>1, ShownIsEitherNext DEF ShownIs, ValidRows
      <4>2. QED
        BY <4>1 DEF Promised!Fades, Promised!Lost
    <3>2. QED
      BY <2>3, <3>1, Fading
\* setPending(): the new promise shows, or the row that is valid until it is settled.
  <2>4. ASSUME NEW k \in Key, NEW p \in Promise, NEW ms \in TTLs, NEW rows \in SUBSET cached,
               Launch(k, p, ms, rows)
        PROVE  Promised!Next
    <3>1. /\ promise' = [promise EXCEPT ![p] = "running"] /\ promise[p] = "unused"
          /\ pending' = [pending EXCEPT ![k] = p] /\ latest' = [latest EXCEPT ![k] = p]
          /\ cached' = rows /\ now' = now
      BY <2>4 DEF Launch
    <3>2. \A o \in Key : ValidRows(o)' \subseteq ValidRows(o)
      BY <3>1 DEF ValidRows
    <3>3. \A o \in Key \ {k} : Promised!Fades(o)
      BY <2>1, <3>1, <3>2, Fading
    <3>4. Shown'[k] \in {Shown[k], p} \ {None} /\ latest'[k] = p
      <4>1. /\ \A row \in ValidRows(k) : Shown[k] = row.p /\ row.p # None
            /\ \A row \in ValidRows(k)' : Shown'[k] = row.p
            /\ ValidRows(k)' = {} => Shown'[k] = pending'[k]
        BY <2>1, ShownIsEither, ShownIsEitherNext, RowsTyped DEF ShownIs, ValidRows
      <4>2. CASE ValidRows(k)' = {}
        BY <2>1, <3>1, <4>1, <4>2
      <4>3. CASE ValidRows(k)' # {}
        BY <2>1, <3>1, <3>2, <4>1, <4>3
      <4>4. QED
        BY <4>2, <4>3
    <3>5. {q \in Promise : promise'[q] # "unused"} = {q \in Promise : promise[q] # "unused"} \cup {p}
      BY <3>1, UsedGrows
    <3>6. Promised!Put(k, p)
      BY <3>3, <3>4, <3>5 DEF Promised!Put
    <3>7. QED
      BY <3>1, <3>6 DEF Promised!Next
  <2>5. \A k \in Key : Without(cached, k) \in SUBSET cached
    BY DEF Without
  <2>6. ASSUME NEW k \in Key, NEW p \in Promise, NEW ms \in TTLs, Fetch(k, p, ms) PROVE Promised!Next
    BY <2>4, <2>5, <2>6 DEF Fetch
  <2>7. ASSUME NEW k \in Key, NEW p \in Promise, NEW ms \in TTLs, SetPending(k, p, ms)
        PROVE  Promised!Next
    BY <2>4, <2>7 DEF SetPending
  <2>8. ASSUME NEW k \in Key, NEW p \in Promise, NEW ms \in TTLs, Set(k, p, ms) PROVE Promised!Next
    <3>1. /\ promise' = [promise EXCEPT ![p] = "ok"] /\ promise[p] = "unused"
          /\ latest' = [latest EXCEPT ![k] = p] /\ Put(k, p, ms) /\ now' = now
      BY <2>8 DEF Set
    <3>2. /\ (Shown'[k] = p /\ latest'[k] = p) \/ Promised!Lost(k)
          /\ \A o \in Key \ {k} : Promised!Fades(o)
      BY <3>1, PutShows
    <3>3. {q \in Promise : promise'[q] # "unused"} = {q \in Promise : promise[q] # "unused"} \cup {p}
      BY <3>1, UsedGrows
    <3>4. Promised!Put(k, p)
      BY <2>1, <3>2, <3>3 DEF Promised!Put
    <3>5. QED
      BY <3>1, <3>4 DEF Promised!Next
  <2>9. ASSUME NEW k \in Key, Peek(k) PROVE Promised!Next
    <3>1. cached' \subseteq cached /\ UNCHANGED <<now, pending, promise, latest>>
      BY <2>5, <2>9 DEF Peek, Looked
    <3>2. \A o \in Key : ValidRows(o)' \subseteq ValidRows(o)
      BY <3>1 DEF ValidRows
    <3>3. QED
      BY <2>3, <3>1, <3>2
  <2>10. ASSUME NEW k \in Key, Delete(k) PROVE Promised!Next
    <3>1. /\ cached' = Without(cached, k) /\ pending' = [pending EXCEPT ![k] = None]
          /\ latest' = [latest EXCEPT ![k] = None] /\ UNCHANGED <<now, promise>>
      BY <2>10 DEF Delete
    <3>2. (\A o \in Key : ValidRows(o)' \subseteq ValidRows(o)) /\ ValidRows(k)' = {}
      BY <3>1 DEF ValidRows, Without
    <3>3. QED
      BY <2>1, <2>3, <3>1, <3>2
  <2>11. CASE Clear
    <3>1. cached' = {} /\ pending' = [k \in Key |-> None] /\ promise' = promise
      BY <2>11 DEF Clear
    <3>2. \A k \in Key : ValidRows(k)' = {}
      BY <3>1 DEF ValidRows
    <3>3. QED
      BY <2>3, <3>1, <3>2
  <2>12. ASSUME NEW p \in Promise, Settle(p) PROVE Promised!Next
    <3>1. PICK outcome \in {"resolved", "rejected"} : promise' = [promise EXCEPT ![p] = outcome]
      BY <2>12 DEF Settle
    <3>2. promise[p] = "running" /\ UNCHANGED <<now, cached, pending, latest>>
      BY <2>12 DEF Settle
    <3>3. {q \in Promise : promise'[q] # "unused"} = {q \in Promise : promise[q] # "unused"} \cup {p}
      BY <3>1, UsedGrows
    <3>4. \A k \in Key : ValidRows(k)' \subseteq ValidRows(k)
      BY <3>2 DEF ValidRows
    <3>5. \A k \in Key : Promised!Fades(k)
      BY <3>2, <3>4, Fading
    <3>6. QED
      BY <3>2, <3>3, <3>5, FadingAll
\* The continuation: what was pending shows as settled, unless it was displaced.
  <2>13. ASSUME NEW p \in Promise, Continue(p) PROVE Promised!Next
    <3>1. /\ promise[p] \in {"resolved", "rejected"} /\ keyOf[p] \in Key /\ ttl[p] \in TTLs
          /\ UNCHANGED <<now, latest>>
      BY <2>13 DEF Continue, Inv, Inductive
    <3>2. PICK fate \in {"ok", "err"} : promise' = [promise EXCEPT ![p] = fate]
      BY <2>13 DEF Continue
    <3>3. {q \in Promise : promise'[q] # "unused"} = {q \in Promise : promise[q] # "unused"} \cup {p}
      BY <3>2, UsedGrows
    <3>4. CASE pending[keyOf[p]] = p
      <4>1. PICK k \in Key, ms \in TTLs \cup {ErrorMs} : k = keyOf[p] /\ ms = KeptFor(p)
        BY <3>1 DEF KeptFor
      <4>2. Put(k, p, ms)
        BY <2>13, <3>4, <4>1 DEF Continue
      <4>3. latest[k] = p
        BY <2>1, <3>4, <4>1 DEF Inv, Inductive, NoStaleValue
      <4>4. latest' = [latest EXCEPT ![k] = p] /\ now' = now
        BY <2>1, <3>1, <4>3
      <4>5. /\ (Shown'[k] = p /\ latest'[k] = p) \/ Promised!Lost(k)
            /\ \A o \in Key \ {k} : Promised!Fades(o)
        BY <4>2, <4>4, PutShows
      <4>6. Shown[k] # None
        BY <2>1, <3>4, <4>1, ShownIsEither, RowsTyped DEF ValidRows
      <4>7. Promised!Fades(k)
        BY <2>1, <4>3, <4>5, <4>6 DEF Promised!Fades
      <4>8. QED
        BY <3>1, <3>3, <4>5, <4>7, FadingAll
    <3>5. CASE pending[keyOf[p]] # p
      <4>1. UNCHANGED <<cached, pending>>
        BY <2>13, <3>5 DEF Continue
      <4>2. \A k \in Key : ValidRows(k)' \subseteq ValidRows(k)
        BY <3>1, <4>1 DEF ValidRows
      <4>3. \A k \in Key : Promised!Fades(k)
        BY <3>1, <4>1, <4>2, Fading
      <4>4. QED
        BY <3>1, <3>3, <4>3, FadingAll
    <3>6. QED
      BY <3>4, <3>5
  <2>14. CASE Timer
    <3>1. cached' \subseteq cached /\ UNCHANGED <<now, pending, promise, latest>>
      BY <2>14 DEF Timer
    <3>2. \A k \in Key : ValidRows(k)' \subseteq ValidRows(k)
      BY <3>1 DEF ValidRows
    <3>3. QED
      BY <2>3, <3>1, <3>2
  <2>15. CASE Tick
    <3>1. now' = now + 1 /\ UNCHANGED <<cached, pending, promise, latest>>
      BY <2>15 DEF Tick
    <3>2. \A k \in Key : ValidRows(k)' \subseteq ValidRows(k)
      BY <2>1, <2>2, <3>1 DEF ValidRows
    <3>3. QED
      BY <2>3, <3>1, <3>2
  <2>16. CASE UNCHANGED vars
    <3>1. UNCHANGED <<now, cached, pending, promise, latest>>
      BY <2>16 DEF vars
    <3>2. \A k \in Key : ValidRows(k)' \subseteq ValidRows(k)
      BY <3>1 DEF ValidRows
    <3>3. QED
      BY <2>3, <3>1, <3>2
  <2>17. QED
    BY <2>6, <2>7, <2>8, <2>9, <2>10, <2>11, <2>12, <2>13, <2>14, <2>15, <2>16 DEF Next
<1>3. QED
  BY <1>1, <1>2, InvHolds, PTL DEF Spec, IsLossyCache, Promised!Spec
=============================================================================
