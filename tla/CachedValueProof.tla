-------------------------- MODULE CachedValueProof --------------------------
(***************************************************************************)
(* Proofs about CachedValue for every set of promises, every lifetime and  *)
(* every bound on the clock.                                               *)
(***************************************************************************)
EXTENDS CachedValue, FiniteSetTheorems, TLAPS

USE CachedValueAssumption

\* Every step of the cache keeps its variables in their types (src/cached.ts).
THEOREM TypeCorrect == Spec => []TypeOK
<1>1. Init => TypeOK
  BY DEF Init, TypeOK, Status
<1>2. TypeOK /\ [Next]_vars => TypeOK'
  <2> SUFFICES ASSUME TypeOK, [Next]_vars PROVE TypeOK'
    OBVIOUS
  <2>1. CASE Tick
    BY <2>1 DEF Tick, TypeOK, Status, Settled, Finished, Infinity,
              IsPending
  <2>2. CASE Clear
    BY <2>2 DEF Clear, Terminate, TypeOK, Status, Settled, Finished, Infinity,
              IsPending
  <2>3. ASSUME NEW p \in Promise, NEW ms \in TTLs, Get(p, ms) PROVE TypeOK'
    BY <2>3 DEF Get, Start, TypeOK, Status, Settled, Finished, Infinity,
              IsPending
  <2>4. ASSUME NEW p \in Promise, NEW ms \in TTLs, Set(p, ms) PROVE TypeOK'
    BY <2>4 DEF Set, Terminate, TypeOK, Status, Settled, Finished, Infinity,
              IsPending
  <2>5. ASSUME NEW p \in Promise, NEW ms \in TTLs, ForceGet(p, ms) PROVE TypeOK'
    BY <2>5 DEF ForceGet, Start, Terminate, TypeOK, Status, Settled, Finished,
              Infinity, IsPending
  <2>6. ASSUME NEW p \in Promise, NEW r \in Settled, Settle(p, r) PROVE TypeOK'
    BY <2>6 DEF Settle, TypeOK, Status, Settled, Finished, Infinity,
              IsPending
  <2>7. ASSUME NEW p \in Promise, Continue(p) PROVE TypeOK'
    BY <2>7 DEF Continue, Expiry, Life, TypeOK, Status, Settled, Finished, Infinity,
              IsPending
  <2>8. CASE UNCHANGED vars
    BY <2>8 DEF vars, TypeOK
  <2>9. QED
    BY <2>1, <2>2, <2>3, <2>4, <2>5, <2>6, <2>7, <2>8 DEF Next
<1>3. QED
  BY <1>1, <1>2, PTL DEF Spec

\* The inductive invariant: displaced generators have been told, the pending
\* value is the one generator holding the current observer, and a cached value
\* expires when its own continuation said.
THEOREM InductiveInvariant == Spec => []Inductive
<1>1. Init => Inductive
  BY DEF Init, Inductive, Displaced, InFlight, Settled, IsPending, Infinity
<1>2. TypeOK /\ TypeOK' /\ Inductive /\ [Next]_vars => Inductive'
  <2> SUFFICES ASSUME TypeOK, TypeOK', Inductive, [Next]_vars
               PROVE  Inductive'
    OBVIOUS
  <2>1. CASE Tick
    BY <2>1 DEF Tick, TypeOK, Status, Settled, Finished, Infinity,
              IsPending, InFlight, Displaced, Inductive, Life
  <2>2. CASE Clear
    BY <2>2 DEF Clear, Terminate, TypeOK, Status, Settled, Finished, Infinity,
              IsPending, InFlight, Displaced, Inductive, Life
  <2>3. ASSUME NEW p \in Promise, NEW ms \in TTLs, Get(p, ms) PROVE Inductive'
    BY <2>3 DEF Get, Start, TypeOK, Status, Settled, Finished, Infinity,
              IsPending, InFlight, Displaced, Inductive, Life
  <2>4. ASSUME NEW p \in Promise, NEW ms \in TTLs, Set(p, ms) PROVE Inductive'
    BY <2>4 DEF Set, Terminate, TypeOK, Status, Settled, Finished, Infinity,
              IsPending, InFlight, Displaced, Inductive, Life
  <2>5. ASSUME NEW p \in Promise, NEW ms \in TTLs, ForceGet(p, ms)
        PROVE  Inductive'
    BY <2>5 DEF ForceGet, Start, Terminate, TypeOK, Status, Settled, Finished,
              Infinity, IsPending, InFlight, Displaced, Inductive, Life
  <2>6. ASSUME NEW p \in Promise, NEW r \in Settled, Settle(p, r)
        PROVE  Inductive'
    BY <2>6 DEF Settle, TypeOK, Status, Settled, Finished, Infinity,
              IsPending, InFlight, Displaced, Inductive, Life
  <2>7. ASSUME NEW p \in Promise, Continue(p) PROVE Inductive'
    BY <2>7 DEF Continue, Expiry, TypeOK, Status, Settled, Finished, Infinity,
              IsPending, InFlight, Displaced, Inductive, Life
  <2>8. CASE UNCHANGED vars
    BY <2>8 DEF vars, TypeOK, Status, Settled, Finished, Infinity,
              IsPending, InFlight, Displaced, Inductive, Life
  <2>9. QED
    BY <2>1, <2>2, <2>3, <2>4, <2>5, <2>6, <2>7, <2>8 DEF Next
<1>3. QED
  BY <1>1, <1>2, TypeCorrect, PTL DEF Spec

\* get() always has a promise to return, in flight exactly when pending.
THEOREM ValueIsDefined == Spec => []ValueDefined
<1>1. TypeOK /\ Inductive => ValueDefined
  BY DEF TypeOK, Inductive, ValueDefined, IsPending, IsCached, Infinity
<1>2. QED
  BY <1>1, TypeCorrect, InductiveInvariant, PTL

\* A running generator reads .replaced correctly at every moment.
THEOREM ObserverIsExact == Spec => []ObserverExact
<1>1. TypeOK /\ Inductive => ObserverExact
  BY DEF TypeOK, Inductive, ObserverExact, Displaced, InFlight
<1>2. QED
  BY <1>1, TypeCorrect, InductiveInvariant, PTL

\* At most one generator run has not been told to stop.
THEOREM OneGeneratorRuns == Spec => []OneGenerator
<1>1. ObserverExact => OneGenerator
  <2> SUFFICES ASSUME ObserverExact PROVE OneGenerator
    OBVIOUS
  <2> DEFINE S == {p \in Promise : InFlight(p) /\ obs[p] \notin replaced}
  <2>1. S \subseteq {value}
    BY DEF ObserverExact
  <2>2. IsFiniteSet({value}) /\ Cardinality({value}) = 1
    BY FS_Singleton
  <2>3. IsFiniteSet(S) /\ Cardinality(S) <= 1
    BY <2>1, <2>2, FS_Subset
  <2>4. QED
    BY <2>3 DEF OneGenerator
<1>2. QED
  BY <1>1, ObserverIsExact, PTL

\* A value is served for exactly the lifetime fixed when it arrived.
THEOREM LifetimeIsHonest == Spec => []LifetimeHonest
<1>1. TypeOK /\ Inductive => LifetimeHonest
  BY DEF TypeOK, Inductive, LifetimeHonest, IsCached, IsPending
<1>2. QED
  BY <1>1, TypeCorrect, InductiveInvariant, PTL
=============================================================================
