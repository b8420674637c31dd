----------------------------- MODULE LossyCache -----------------------------
(***************************************************************************)
(* What the caches of src/cached.ts promise to whoever looks a key up: a   *)
(* value may be lost at any moment, but it never comes back, and it never  *)
(* gives way to an older one.  LRU and CachedMap implement this.           *)
(***************************************************************************)
CONSTANTS
    Key,
    Value,      \* the identities of what is put
    None        \* no value

VARIABLES
    used,       \* the values put so far
    newest,     \* the latest put of each key, as long as the key shows anything
    shown       \* what a look at each key gives

vars == <<used, newest, shown>>

Init ==
    /\ used = {}
    /\ newest = [k \in Key |-> None]
    /\ shown = [k \in Key |-> None]

Lost(k) == newest'[k] = None /\ shown'[k] = None

\* A key that nothing is put for stays as it is, shows what was put last, or
\* shows nothing from now on.
Fades(k) ==
    \/ newest'[k] = newest[k] /\ shown'[k] \in {shown[k], newest[k]}
    \/ Lost(k)

\* A new value need not be kept, and need not show as long as an older one does.
Put(k, v) ==
    /\ used' = used \cup {v}
    /\ \/ newest'[k] = v /\ shown'[k] \in {shown[k], v} \ {None}
       \/ Lost(k)
    /\ \A other \in Key \ {k} : Fades(other)

Fade == used' = used /\ \A k \in Key : Fades(k)

Next == Fade \/ \E k \in Key, v \in Value \ used : Put(k, v)

Spec == Init /\ [][Next]_vars
=============================================================================
