-------------------------------- MODULE LRU --------------------------------
(***************************************************************************)
(* LRU of src/cached.ts: the last "max" promises by key, kept in the       *)
(* insertion order of a JavaScript Map.  A write by setValue() or          *)
(* setPending() is an identifier; an entry remembers the write it comes    *)
(* from and whether its promise is still pending.                          *)
(***************************************************************************)
EXTENDS LRUMap, FiniteSets

CONSTANTS
    Key,        \* the keys
    NoKey,      \* a write not made yet has no key
    Write,      \* identities of the calls of setValue() and setPending()
    NoWrite,    \* a key not written yet
    Maxes       \* the values given to .max

ASSUME LRUAssumption ==
    /\ NoKey \notin Key
    /\ NoWrite \notin Write
    /\ Maxes \subseteq Nat

VARIABLES
    map,        \* #map, oldest entry first
    max,        \* #max
    keyOf,      \* the key each write was made for
    inFlight,   \* writes by setPending() whose promise has not settled
    lastWrite,  \* history: the latest write to each key
    recency     \* history: the keys, the least recently refreshed first

vars == <<map, max, keyOf, inFlight, lastWrite, recency>>

Entry == Entries(Key, Write)

TypeOK ==
    /\ map \in Seq(Entry)
    /\ max \in Maxes
    /\ keyOf \in [Write -> Key \cup {NoKey}]
    /\ inFlight \subseteq Write
    /\ lastWrite \in [Key -> Write \cup {NoWrite}]
    /\ recency \in Seq(Key)

Init ==
    /\ map = <<>>
    /\ max \in Maxes
    /\ keyOf = [w \in Write |-> NoKey]
    /\ inFlight = {}
    /\ lastWrite = [k \in Key |-> NoWrite]
    /\ recency = <<>>

----------------------------------------------------------------------------
Refreshed(k) ==
    LET at == {i \in DOMAIN recency : recency[i] = k}
    IN  Append(IF at = {} THEN recency ELSE Removed(recency, CHOOSE i \in at : TRUE), k)

\* A write w of key k that nobody has made before.
Fresh(w, k) ==
    /\ keyOf[w] = NoKey
    /\ keyOf' = [keyOf EXCEPT ![w] = k]
    /\ lastWrite' = [lastWrite EXCEPT ![k] = w]
    /\ recency' = Refreshed(k)

SetValue(k, w) ==
    /\ Fresh(w, k)
    /\ map' = Put(map, max, k, w, FALSE)
    /\ UNCHANGED <<max, inFlight>>

\* setPending(), and setFuture() which only swallows its rejection
SetPending(k, w) ==
    /\ Fresh(w, k)
    /\ map' = Put(map, max, k, w, TRUE)
    /\ inFlight' = inFlight \cup {w}
    /\ UNCHANGED max

\* touch(k) of a key that is there
Touch(k) ==
    \E e \in EntryOf(map, k) :
        /\ map' = Put(map, max, k, e.from, e.pending)
        /\ recency' = Refreshed(k)
        /\ UNCHANGED <<max, keyOf, inFlight, lastWrite>>

\* cache(k, fn): touch() or else setPending(fn(k))
Cache(k, w) ==
    \/ Touch(k)
    \/ k \notin KeysOf(map) /\ SetPending(k, w)

Delete(k) ==
    /\ map' = Without(map, k)
    /\ UNCHANGED <<max, keyOf, inFlight, lastWrite, recency>>

Clear ==
    /\ map' = <<>>
    /\ UNCHANGED <<max, keyOf, inFlight, lastWrite, recency>>

\* "set max(n)"
SetMax(n) ==
    /\ max' = n
    /\ map' = DropOldest(map, Len(map) - n)
    /\ UNCHANGED <<keyOf, inFlight, lastWrite, recency>>

DeleteOldest(n) ==
    /\ map' = DropOldest(map, n)
    /\ UNCHANGED <<max, keyOf, inFlight, lastWrite, recency>>

HoldsKey(w) == keyOf[w] \in KeysOf(map) \* the key is compared, not the promise

\* Mutant: a value that arrives after its key was removed is put back.
HoldsOrGone(w) == \A e \in EntryOf(map, keyOf[w]) : e.from = w

\* Is the promise of w what its key holds?  ("this.#map.get(key) === p")
Holds(w) == \E e \in EntryOf(map, keyOf[w]) : e.from = w

\* The promise of w resolves and setPending()'s handler runs.
Resolve(w) ==
    /\ w \in inFlight
    /\ inFlight' = inFlight \ {w}
    /\ map' = IF Holds(w) THEN Put(map, max, keyOf[w], w, FALSE) ELSE map
    /\ recency' = IF Holds(w) THEN Refreshed(keyOf[w]) ELSE recency
    /\ UNCHANGED <<max, keyOf, lastWrite>>

RejectKeeps(w) ==                       \* no delete on rejection
    /\ w \in inFlight
    /\ inFlight' = inFlight \ {w}
    /\ UNCHANGED <<map, max, keyOf, lastWrite, recency>>

\* The promise of w rejects and setPending()'s handler runs.
Reject(w) ==
    /\ w \in inFlight
    /\ inFlight' = inFlight \ {w}
    /\ map' = IF Holds(w) THEN Without(map, keyOf[w]) ELSE map
    /\ UNCHANGED <<max, keyOf, lastWrite, recency>>

Next ==
    \/ \E k \in Key, w \in Write : SetValue(k, w) \/ SetPending(k, w) \/ Cache(k, w)
    \/ \E k \in Key : Touch(k) \/ Delete(k)
    \/ Clear
    \/ \E n \in Maxes : SetMax(n) \/ DeleteOldest(n)
    \/ \E w \in Write : Resolve(w) \/ Reject(w)

Spec == Init /\ [][Next]_vars

----------------------------------------------------------------------------
\* At most max entries, at most one per key, also after max was lowered while
\* promises were pending.
Bounded ==
    /\ Len(map) <= max
    /\ Cardinality(KeysOf(map)) = Len(map)

\* "replaced/removed pending values do not overwrite new values": what a key
\* holds always comes from the latest write to it.
NoStaleValue ==
    \A i \in DOMAIN map : map[i].from = lastWrite[map[i].key]

\* An entry is pending exactly while its answer is outstanding: a rejection
\* never stays behind, so the next cache() of its key tries again.
PendingIsLive ==
    \A i \in DOMAIN map : map[i].pending <=> map[i].from \in inFlight

\* The insertion order of the Map is the order in which the keys were last
\* refreshed, by a write, a touch or the arrival of an awaited value.
Before(s, k, l) == \E a, b \in DOMAIN s : a < b /\ s[a] = k /\ s[b] = l

OrderIsRecency ==
    /\ \A i, j \in DOMAIN map : i < j => Before(recency, map[i].key, map[j].key)
    /\ \A k, l \in Key : ~(Before(recency, k, l) /\ Before(recency, l, k))

\* What makes the properties above hold after every step: a key is there once, an
\* entry comes from a write of its own key, and every key held was refreshed.
Inductive ==
    /\ Len(map) <= max
    /\ KeysDiffer(map)
    /\ \A i \in DOMAIN map : keyOf[map[i].from] = map[i].key
    /\ \A w \in inFlight : keyOf[w] # NoKey
    /\ \A i \in DOMAIN map : \E a \in DOMAIN recency : recency[a] = map[i].key
    /\ \A a, b \in DOMAIN recency : recency[a] = recency[b] => a = b
    /\ NoStaleValue
    /\ PendingIsLive
    /\ \A i, j \in DOMAIN map : i < j => Before(recency, map[i].key, map[j].key)

\* What a look at a key gives.
Shown == [k \in Key |-> IF k \in KeysOf(map)
                        THEN (CHOOSE e \in EntryOf(map, k) : TRUE).from
                        ELSE NoWrite]

Promised == INSTANCE LossyCache WITH
    Value <- Write, None <- NoWrite,
    used <- {w \in Write : keyOf[w] # NoKey},
    newest <- [k \in Key |-> IF k \in KeysOf(map) THEN lastWrite[k] ELSE NoWrite],
    shown <- Shown

\* Whatever the evictions, resizes and late promises: an answer that was evicted,
\* deleted or overtaken never shows again when its promise settles.
IsLossyCache == Promised!Spec
=============================================================================
