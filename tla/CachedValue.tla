---------------------------- MODULE CachedValue ----------------------------
(***************************************************************************)
(* The single-value promise cache of src/cached.ts: get() starts the       *)
(* generator or joins the promise already there, set(), clear() and        *)
(* force() displace it, and an observer tells a running generator that it  *)
(* was displaced.  A promise is an identifier; what it resolves to never   *)
(* matters here, only whether it resolves or rejects and when.             *)
(***************************************************************************)
EXTENDS Integers, FiniteSets

CONSTANTS
    Promise,    \* identities of the promises the cache may ever hold
    NoPromise,  \* "undefined": no promise is held
    TTLs,       \* the cacheMs arguments (and values of .cacheMs) in use
    ErrorMs,    \* .errorMs: how long a rejection is kept
    MaxTime     \* bound on the clock

ASSUME CachedValueAssumption ==
    /\ NoPromise \notin Promise
    /\ TTLs \subseteq Nat
    /\ ErrorMs \in Nat
    /\ MaxTime \in Nat

VARIABLES
    now,        \* clock()
    exp,        \* #exp
    value,      \* #value
    observer,   \* #observer, the id of the current observer object
    replaced,   \* ids of the observer objects whose .replaced is true
    promise,    \* what became of each promise
    obs,        \* the observer object each generator run was given
    ttl,        \* how long each promise is to be kept if it resolves
    fixedAt     \* history: when the promise's expiry was last computed

vars == <<now, exp, value, observer, replaced, promise, obs, ttl, fixedAt>>

Infinity == -1      \* #exp of a pending value; never a clock reading

IsPending == exp = Infinity
IsCached  == ~IsPending /\ exp > now

\* "settled" generators have an outcome but their continuation (the catch/then
\* of get) is still queued; "ok" and "err" promises are finished.
Settled  == {"resolved", "rejected"}
Finished == {"ok", "err"}
Status   == {"unused", "running"} \cup Settled \cup Finished

TypeOK ==
    /\ now \in Nat
    /\ exp \in Nat \cup {Infinity}
    /\ value \in Promise \cup {NoPromise}
    /\ observer \in Nat
    /\ replaced \subseteq Nat
    /\ promise \in [Promise -> Status]
    /\ obs \in [Promise -> Nat]
    /\ ttl \in [Promise -> Nat]
    /\ fixedAt \in [Promise -> Nat]

Init ==
    /\ now = 0
    /\ exp = 0
    /\ value = NoPromise
    /\ observer = 0
    /\ replaced = {}
    /\ promise = [p \in Promise |-> "unused"]
    /\ obs = [p \in Promise |-> 0]
    /\ ttl = [p \in Promise |-> 0]
    /\ fixedAt = [p \in Promise |-> 0]

----------------------------------------------------------------------------
TerminateSameObserver ==                \* no fresh observer is made
    /\ replaced' = IF IsPending THEN replaced \cup {observer} ELSE replaced
    /\ UNCHANGED observer

\* #terminate(): a pending generator is told, and the next one gets a fresh
\* observer object.
Terminate ==
    /\ replaced' = IF IsPending THEN replaced \cup {observer} ELSE replaced
    /\ observer' = IF IsPending THEN observer + 1 ELSE observer

\* The generator call of get(): p becomes the value, with the observer o.
Start(p, ms, o) ==
    /\ promise[p] = "unused"
    /\ promise' = [promise EXCEPT ![p] = "running"]
    /\ obs' = [obs EXCEPT ![p] = o]
    /\ ttl' = [ttl EXCEPT ![p] = ms]
    /\ value' = p
    /\ exp' = Infinity

\* get() that finds nothing usable.  (A get() that finds a pending or cached
\* value returns it and changes nothing.)
Get(p, ms) ==
    /\ ~IsPending /\ ~IsCached
    /\ Start(p, ms, observer)
    /\ UNCHANGED <<now, observer, replaced, fixedAt>>

\* clear()
Clear ==
    /\ Terminate
    /\ value' = NoPromise
    /\ exp' = 0
    /\ UNCHANGED <<now, promise, obs, ttl, fixedAt>>

\* set(value, ms): p is Promise.resolve(value).
Set(p, ms) ==
    /\ promise[p] = "unused"
    /\ Terminate
    /\ promise' = [promise EXCEPT ![p] = "ok"]
    /\ ttl' = [ttl EXCEPT ![p] = ms]
    /\ fixedAt' = [fixedAt EXCEPT ![p] = now]
    /\ value' = p
    /\ exp' = now + ms
    /\ UNCHANGED <<now, obs>>

\* force(): clear() and then get(), in one turn of the event loop.
ForceGet(p, ms) ==
    /\ Terminate
    /\ Start(p, ms, observer')
    /\ UNCHANGED <<now, fixedAt>>

\* The generator's own promise settles; get()'s continuation is queued.
Settle(p, outcome) ==
    /\ promise[p] = "running"
    /\ outcome \in Settled
    /\ promise' = [promise EXCEPT ![p] = outcome]
    /\ UNCHANGED <<now, exp, value, observer, replaced, obs, ttl, fixedAt>>

\* How long promise p is kept once it is finished.
Life(p) == IF promise[p] \in {"err", "rejected"} THEN ErrorMs ELSE ttl[p]

ExpiryOfAnyone(p) == now + Life(p)      \* "this.#value === p" is dropped

ExpiryOnSuccess(p) ==                   \* the catch(() => ERR) is dropped
    IF value = p /\ promise[p] = "resolved" THEN now + Life(p) ELSE exp

\* The expiry the continuation computes, if p is still the value.
Expiry(p) == IF value = p THEN now + Life(p) ELSE exp

\* The continuation of get(): "only replace if we're the pending promise".
Continue(p) ==
    /\ promise[p] \in Settled
    /\ promise' = [promise EXCEPT ![p] = IF @ = "resolved" THEN "ok" ELSE "err"]
    /\ exp' = Expiry(p)
    /\ fixedAt' = [fixedAt EXCEPT ![p] = now]
    /\ UNCHANGED <<now, value, observer, replaced, obs, ttl>>

Tick ==
    /\ now < MaxTime
    /\ now' = now + 1
    /\ UNCHANGED <<exp, value, observer, replaced, promise, obs, ttl, fixedAt>>

Next ==
    \/ Tick
    \/ Clear
    \/ \E p \in Promise, ms \in TTLs : Get(p, ms) \/ Set(p, ms) \/ ForceGet(p, ms)
    \/ \E p \in Promise : Continue(p) \/ \E r \in Settled : Settle(p, r)

\* What the runtime owes: a generator's promise settles (the RPC calls in it
\* time out) and a queued continuation runs.  No caller is obliged to call.
Fairness ==
    \A p \in Promise :
        /\ WF_vars(\E r \in Settled : Settle(p, r))
        /\ WF_vars(Continue(p))

Spec == Init /\ [][Next]_vars
FairSpec == Spec /\ Fairness

----------------------------------------------------------------------------
\* The generator call behind p has not been answered to get() yet.
InFlight(p) == promise[p] \in {"running"} \cup Settled

\* get() returns "this.#value!" for a pending or a cached value: there must be
\* a promise there, in flight exactly when the value is pending.
ValueDefined ==
    /\ IsPending => value # NoPromise /\ InFlight(value)
    /\ IsCached => value # NoPromise /\ promise[value] \in Finished

\* The observer handed to a generator tells it the truth for as long as it
\* runs: .replaced is true exactly when its promise is no longer the value.
\* (A generator that finished may share its observer with the next one.)
ObserverExact ==
    \A p \in Promise : InFlight(p) => (obs[p] \in replaced <=> value # p)

\* At most one generator run is not told to stop, whatever mixture of set(),
\* clear() and force() displaced the others (the invariant that the comment in
\* #terminate says those calls may break, kept in the form it suggests).
OneGenerator ==
    Cardinality({p \in Promise : InFlight(p) /\ obs[p] \notin replaced}) <= 1

\* A value is served for the time computed when it arrived and no longer: no
\* late answer of a displaced generator prolongs or shortens it, and a
\* rejection is never kept as long as a value.
LifetimeHonest ==
    IsCached => value # NoPromise /\ exp = fixedAt[value] + Life(value)

\* The strengthening of the properties above that every step preserves.
Displaced(p) == InFlight(p) /\ value # p

Inductive ==
    /\ \A o \in replaced : o < observer
    /\ \A p \in Promise : Displaced(p) => obs[p] \in replaced
    /\ \A p \in Promise : InFlight(p) /\ value = p => IsPending /\ obs[p] = observer
    /\ IsPending => value \in Promise /\ InFlight(value)
    /\ ~IsPending => \/ exp = 0
                     \/ /\ value \in Promise /\ promise[value] \in Finished
                        /\ exp = fixedAt[value] + Life(value)

\* A get() never waits for ever on one promise: it settles or is displaced.
PendingEnds ==
    \A p \in Promise : (IsPending /\ value = p) ~> ~(IsPending /\ value = p)

=============================================================================
