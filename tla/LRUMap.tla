-------------------------------- MODULE LRUMap --------------------------------
(***************************************************************************)
(* The Map of an LRU of src/cached.ts as a value: a sequence of entries,   *)
(* oldest first.  An entry says which write it comes from, in the place of *)
(* the promise it holds, and whether that promise is still pending.        *)
(***************************************************************************)
EXTENDS Integers, Sequences

Entries(K, W) == [key : K, from : W, pending : BOOLEAN]

KeysOf(m) == {m[i].key : i \in DOMAIN m}

\* A Map has a key once.
KeysDiffer(m) == \A i, j \in DOMAIN m : m[i].key = m[j].key => i = j

Removed(s, i) == SubSeq(s, 1, i - 1) \o SubSeq(s, i + 1, Len(s))

\* Map.delete(k); a key is there once.
Without(m, k) ==
    IF k \in KeysOf(m) THEN Removed(m, CHOOSE i \in DOMAIN m : m[i].key = k) ELSE m

\* deleteOldest(n): the first n entries of the Map, all of them if n is larger.
DropOldest(m, n) ==
    IF n < 1 THEN m ELSE SubSeq(m, n + 1, Len(m))

PutAtMost(m, max, k, w, isPending) ==        \* room is made one entry too late
    IF max = 0 THEN m
    ELSE Append(IF Len(Without(m, k)) > max THEN DropOldest(Without(m, k), 1)
                ELSE Without(m, k),
                [key |-> k, from |-> w, pending |-> isPending])

PutInPlace(m, max, k, w, isPending) ==       \* no "this.#map.delete(key)"
    IF k \in KeysOf(m)
    THEN [i \in DOMAIN m |-> IF m[i].key = k
            THEN [key |-> k, from |-> w, pending |-> isPending] ELSE m[i]]
    ELSE PutAtMost(m, max, k, w, isPending)

\* #set(key, promise): the entry moves to the end; a full Map loses its oldest.
Put(m, max, k, w, isPending) ==
    LET rest == Without(m, k)
        room == IF Len(rest) = max THEN DropOldest(rest, 1) ELSE rest
    IN  IF max = 0 THEN m
        ELSE Append(room, [key |-> k, from |-> w, pending |-> isPending])

\* peek(k)
EntryOf(m, k) == {m[i] : i \in {j \in DOMAIN m : m[j].key = k}}

=============================================================================
