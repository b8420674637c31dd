------------------------------ MODULE CachedMap ------------------------------
(***************************************************************************)
(* The keyed promise cache of src/cached.ts: promises in flight by key,    *)
(* settled ones by key with an expiry, a bound on how many are kept and a  *)
(* timer that drops what has expired.  A promise is an identifier; between *)
(* its outcome and the continuation setPending() attached to it, anything  *)
(* else may run.                                                           *)
(***************************************************************************)
EXTENDS Integers, FiniteSets

CONSTANTS
    Key, Promise,
    None,       \* neither of them
    TTLs,       \* the "ms" in use (or .cacheMs): numbers, or Infinity
    ErrorMs,    \* .errorMs
    SlopMs,     \* .slopMs
    MaxCached,  \* .maxCached
    Infinity,   \* later than any time
    MaxTime     \* bound on the clock

ASSUME CachedMapAssumption ==
    /\ None \notin Promise \cup Key
    /\ ErrorMs \in Nat /\ SlopMs \in Nat /\ MaxCached \in Nat /\ MaxTime \in Nat
    /\ TTLs \subseteq Nat
    /\ Infinity \in Nat
    /\ \A ms \in (TTLs \ {Infinity}) \cup {ErrorMs, SlopMs} : MaxTime + ms < Infinity

VARIABLES
    now,        \* clock()
    cached,     \* .cached: its rows
    puts,       \* how many rows were put so far, which orders them by insertion
    pending,    \* .pending: a promise or None for each key
    timer_t,    \* when the timer fires, Infinity if none is set
    promise,    \* what became of each promise
    keyOf, ttl, \* what setPending() was given with each promise
    latest,     \* history: the promise last put or fetched for each key, if
                \* the key was not deleted since
    fixedAt     \* history: when the promise's expiry was computed

vars == <<now, cached, puts, pending, timer_t, promise, keyOf, ttl, latest, fixedAt>>

Row == [key : Key, exp : Nat, p : Promise, nth : Nat]

TypeOK ==
    /\ now \in 0 .. MaxTime
    /\ cached \subseteq Row /\ IsFiniteSet(cached)
    /\ \A row, other \in cached : row.key = other.key => row = other
    /\ puts \in Nat /\ \A row \in cached : row.nth < puts
    /\ pending \in [Key -> Promise \cup {None}]
    /\ timer_t \in Nat
    /\ promise \in [Promise -> {"unused", "running", "resolved", "rejected", "ok", "err"}]
    /\ keyOf \in [Promise -> Key \cup {None}] /\ ttl \in [Promise -> Nat]
    /\ latest \in [Key -> Promise \cup {None}]
    /\ fixedAt \in [Promise -> Nat]

Init ==
    /\ now = 0
    /\ cached = {} /\ puts = 0
    /\ pending = [k \in Key |-> None]
    /\ timer_t = Infinity
    /\ promise = [p \in Promise |-> "unused"]
    /\ keyOf = [p \in Promise |-> None]
    /\ ttl = [p \in Promise |-> 0]
    /\ latest = [k \in Key |-> None]
    /\ fixedAt = [p \in Promise |-> 0]

----------------------------------------------------------------------------
Later(a, b) == IF a < b THEN b ELSE a
After(time, ms) == IF ms = Infinity THEN Infinity ELSE time + ms

Without(rows, k) == {row \in rows : row.key # k}

\* cachedValue(): an expired row is dropped when it is looked at.
ValidRows(k) == {row \in cached : row.key = k /\ row.exp > now}
Looked(k)    == IF ValidRows(k) = {} THEN Without(cached, k) ELSE cached

\* Mutant: the timer that is set is always the one that stays.
ScheduledFirst(t_old, exp) == IF t_old < Infinity THEN t_old ELSE Later(now + SlopMs, exp)

\* schedule(): the timer that fires sooner stays.
Scheduled(t_old, exp) ==
    LET t == Later(now + SlopMs, exp) IN IF t_old < t THEN t_old ELSE t

\* The rows that come after one in the order of expiry, equal ones by insertion.
Beyond(rows, row) ==
    {other \in rows : \/ other.exp > row.exp
                      \/ other.exp = row.exp /\ other.nth > row.nth}

\* Mutant: the batch is removed one row too late.
RoomForOneMore(rows) ==
    IF Cardinality(rows) <= MaxCached THEN rows
    ELSE {row \in rows : Beyond(rows, row) # {}}

\* The batch that makes room: the last 1/16th of maxCached.
Room(rows) ==
    LET batch == (MaxCached + 15) \div 16
    IN  IF Cardinality(rows) < MaxCached THEN rows
        ELSE {row \in rows : Cardinality(Beyond(rows, row)) >= batch}

\* set(key, value, ms), where the value is p.
Put(k, p, ms) ==
    LET kept == Without(cached, k)
        exp  == After(now, ms)
    IN  /\ pending' = [pending EXCEPT ![k] = None]
        /\ IF MaxCached > 0 /\ ms > 0
           THEN /\ cached' = Room(kept) \cup {[key |-> k, exp |-> exp, p |-> p, nth |-> puts]}
                /\ puts' = puts + 1
                /\ timer_t' = Scheduled(timer_t, exp)
           ELSE cached' = kept /\ UNCHANGED <<puts, timer_t>>
        /\ fixedAt' = [fixedAt EXCEPT ![p] = now]

\* setPending(key, value, ms)
Launch(k, p, ms, rows) ==
    /\ promise[p] = "unused"
    /\ promise' = [promise EXCEPT ![p] = "running"]
    /\ keyOf' = [keyOf EXCEPT ![p] = k]
    /\ ttl' = [ttl EXCEPT ![p] = ms]
    /\ pending' = [pending EXCEPT ![k] = p]
    /\ latest' = [latest EXCEPT ![k] = p]
    /\ cached' = rows
    /\ UNCHANGED <<now, puts, timer_t, fixedAt>>

----------------------------------------------------------------------------
\* get(key, fn, ms) when there is nothing to return: fn's promise is awaited.
Fetch(k, p, ms) ==
    /\ ValidRows(k) = {} /\ pending[k] = None
    /\ Launch(k, p, ms, Without(cached, k))

\* peek(), cachedValue() and a get() that finds a promise.
Peek(k) ==
    /\ cached # Looked(k)
    /\ cached' = Looked(k)
    /\ UNCHANGED <<now, puts, pending, timer_t, promise, keyOf, ttl, latest, fixedAt>>

\* setPending() by its own: whatever is cached stays until p is settled.
SetPending(k, p, ms) == Launch(k, p, ms, cached)

Set(k, p, ms) ==
    /\ promise[p] = "unused"
    /\ promise' = [promise EXCEPT ![p] = "ok"]
    /\ keyOf' = [keyOf EXCEPT ![p] = k]
    /\ ttl' = [ttl EXCEPT ![p] = ms]
    /\ latest' = [latest EXCEPT ![k] = p]
    /\ Put(k, p, ms)
    /\ UNCHANGED now

Delete(k) ==
    /\ cached' = Without(cached, k)
    /\ pending' = [pending EXCEPT ![k] = None]
    /\ latest' = [latest EXCEPT ![k] = None]
    /\ UNCHANGED <<now, puts, timer_t, promise, keyOf, ttl, fixedAt>>

Clear ==
    /\ cached' = {}
    /\ pending' = [k \in Key |-> None]
    /\ timer_t' = Infinity
    /\ latest' = [k \in Key |-> None]
    /\ UNCHANGED <<now, puts, promise, keyOf, ttl, fixedAt>>

\* The fetch has an outcome.
Settle(p) ==
    /\ promise[p] = "running"
    /\ \E outcome \in {"resolved", "rejected"} : promise' = [promise EXCEPT ![p] = outcome]
    /\ UNCHANGED <<now, cached, puts, pending, timer_t, keyOf, ttl, latest, fixedAt>>

\* Mutant: a rejection is kept like a value.
KeptForAll(p) == ttl[p]

KeptFor(p) == IF promise[p] = "rejected" THEN ErrorMs ELSE ttl[p]

\* Mutant: the continuation trusts that it is the one pending.
ContinueAnyway(p) ==
    /\ promise[p] \in {"resolved", "rejected"}
    /\ promise' = [promise EXCEPT ![p] = IF @ = "rejected" THEN "err" ELSE "ok"]
    /\ Put(keyOf[p], p, KeptFor(p))
    /\ UNCHANGED <<now, keyOf, ttl, latest>>

\* Mutant: a rejected fetch is forgotten, but not that it is pending.
ContinueIfResolved(p) ==
    /\ promise[p] \in {"resolved", "rejected"}
    /\ promise' = [promise EXCEPT ![p] = IF @ = "rejected" THEN "err" ELSE "ok"]
    /\ IF pending[keyOf[p]] = p /\ promise[p] = "resolved"
       THEN Put(keyOf[p], p, KeptFor(p))
       ELSE UNCHANGED <<cached, puts, pending, timer_t, fixedAt>>
    /\ UNCHANGED <<now, keyOf, ttl, latest>>

\* The continuation of setPending(): p replaces what is cached, unless p is not
\* the promise pending for its key any more.
Continue(p) ==
    /\ promise[p] \in {"resolved", "rejected"}
    /\ promise' = [promise EXCEPT ![p] = IF @ = "rejected" THEN "err" ELSE "ok"]
    /\ IF pending[keyOf[p]] = p THEN Put(keyOf[p], p, KeptFor(p))
       ELSE UNCHANGED <<cached, puts, pending, timer_t, fixedAt>>
    /\ UNCHANGED <<now, keyOf, ttl, latest>>

\* The timer fires at its time or later, drops what has expired and schedules
\* itself for what is left.
Timer ==
    /\ timer_t <= now
    /\ cached' = {row \in cached : row.exp >= now}
    /\ timer_t' =
        LET left == {row.exp : row \in cached} \cap (now .. Infinity - 1)
        IN  IF left = {} THEN Infinity
            ELSE Later(now + SlopMs, CHOOSE exp \in left : \A other \in left : exp <= other)
    /\ UNCHANGED <<now, puts, pending, promise, keyOf, ttl, latest, fixedAt>>

Tick ==
    /\ now < MaxTime
    /\ now' = now + 1
    /\ UNCHANGED <<cached, puts, pending, timer_t, promise, keyOf, ttl, latest, fixedAt>>

Next ==
    \/ \E k \in Key :
        \/ \E p \in Promise, ms \in TTLs : Fetch(k, p, ms) \/ SetPending(k, p, ms) \/ Set(k, p, ms)
        \/ Peek(k)
        \/ Delete(k)
    \/ \E p \in Promise : Settle(p) \/ Continue(p)
    \/ Clear
    \/ Timer
    \/ Tick

Spec == Init /\ [][Next]_vars

----------------------------------------------------------------------------
\* The cache never holds more than maxCached settled promises, however many
\* fetches end at once (set()).
Bounded == Cardinality(cached) <= MaxCached

\* What is cached or pending for a key is what was last put or fetched for it:
\* a fetch that was overtaken by a set(), a delete(), a clear() or another
\* fetch never comes back when it ends (setPending()).
NoStaleValue ==
    /\ \A row \in cached :
            latest[row.key] # None /\ latest[row.key] \in {row.p, pending[row.key]}
    /\ \A k \in Key : pending[k] \in {None, latest[k]}

\* A key whose fetch has ended is not pending any more: no get() waits on a
\* promise whose answer was already given, or given up (setPending()).
PendingIsLive ==
    \A k \in Key : pending[k] # None =>
        promise[pending[k]] \in {"running", "resolved", "rejected"}

\* A value is kept as long as asked from when it was known, and a rejection for
\* errorMs, never for as long as a value (setPending(), set()).
LifetimeHonest ==
    \A row \in cached :
        row.exp = After(fixedAt[row.p],
                        IF promise[row.p] = "err" THEN ErrorMs ELSE ttl[row.p])

\* Whatever will expire, a timer is set to drop it at most slopMs later: the
\* timer that schedule() lets stand, replaces or sets anew is never too late.
TimerCovers ==
    \A row \in cached : row.exp < Infinity => timer_t <= row.exp + SlopMs

\* What get() and peek() find.
Shown == [k \in Key |->
    LET at == ValidRows(k)
    IN  IF at = {} THEN pending[k] ELSE (CHOOSE row \in at : TRUE).p]

Promised == INSTANCE LossyCache WITH
    Value <- Promise,
    used <- {p \in Promise : promise[p] # "unused"},
    newest <- [k \in Key |-> IF Shown[k] = None THEN None ELSE latest[k]],
    shown <- Shown

\* Whatever expires, is displaced, deleted or dropped for want of room: a value
\* that no longer shows never does again, and none gives way to an older one.
IsLossyCache == Promised!Spec

=============================================================================
