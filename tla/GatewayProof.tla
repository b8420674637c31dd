---------------------------- MODULE GatewayProof ----------------------------
(***************************************************************************)
(* Proofs about Gateway for every number of calls, every range of commits, *)
(* all settings and any number of failures and expiries.                   *)
(***************************************************************************)
EXTENDS Gateway, LRUMapProof

States == {"running", "ok", "err"}
Cached == [p : Nat, fresh : BOOLEAN]
Promise == [kind : Kinds, arg : Nat, state : States, val : Nat, of : Nat,
            valid : Cached, parent : Cached, brief : BOOLEAN]
Call == [pc : Ended \cup {"start", "prev", "next", "peek", "valid", "commit",
                          "walk", "parent", "answer", "call"},
         want : Nat, wait : Nat, prev : Nat, next : Nat,
         for : {"latest", "parent", "historical"}, arg : Nat, cursor : Nat,
         depth : Nat, known : SUBSET Nat]

\* Every variable has its type.
Typed ==
    /\ settings \in Settings /\ latest \in First .. Last /\ version \in [Index -> Nat]
    /\ expiries \in Nat /\ promises \in Seq(Promise) /\ latestCache \in Cached
    /\ pending \in [Index -> Nat] /\ cached \in [Index -> Nat]
    /\ calls \in Seq(Entries(Index, Nat)) /\ KeysDiffer(calls) /\ Len(calls) <= settings.callMax
    /\ caller \in [Caller -> Call]

Is(p, kind) == p \in DOMAIN promises /\ promises[p].kind = kind

\* What a promise is about, what it may resolve to, and what its caches hold.
PromiseOK(p) ==
    LET it == promises[p]
    IN  /\ it.kind \in {"valid", "parent", "call"} /\ p # TruePromise =>
                Is(it.arg, "commit") /\ promises[it.arg].state = "ok"
        /\ it.kind = "commit" => it.arg \in Index
        /\ it.kind = "commit" /\ it.state = "ok" => it.valid.p # 0 /\ it.of <= version[it.arg]
        /\ it.kind = "latest" /\ it.state = "ok" => it.val \in First .. Last
        /\ it.kind = "parent" /\ it.state = "ok" =>
                IndexOf(it.arg) > First /\ it.val = IndexOf(it.arg) - 1
        /\ it.kind = "call" /\ it.state = "ok" => it.val = it.arg
        /\ it.valid.p # 0 => /\ Is(it.valid.p, "valid")
                             /\ it.valid.p = TruePromise \/ promises[it.valid.p].arg = p
        /\ it.parent.p # 0 => Is(it.parent.p, "parent") /\ promises[it.parent.p].arg = p

\* What callLRU holds are evaluations, each at its index; with room for them all,
\* it holds every one that runs.
CallsOK ==
    /\ \A n \in DOMAIN calls :
        /\ Is(calls[n].from, "call")
        /\ IndexOf(promises[calls[n].from].arg) = calls[n].key
        /\ calls[n].pending <=> promises[calls[n].from].state = "running"
    /\ Roomy => \A p \in DOMAIN promises :
        promises[p].kind = "call" /\ promises[p].state = "running" => Holds(p)

\* The caches hold promises of their kind.
CachesOK ==
    /\ Is(TruePromise, "valid") /\ promises[TruePromise].state = "ok"
    /\ latestCache.p # 0 => Is(latestCache.p, "latest")
    /\ \A i \in Index :
        /\ pending[i] # 0 => /\ Is(pending[i], "commit") /\ IndexOf(pending[i]) = i
                             /\ promises[pending[i]].state = "running"
        /\ cached[i] # 0 => /\ Is(cached[i], "commit") /\ IndexOf(cached[i]) = i
                            /\ promises[cached[i]].state # "running"
    /\ CallsOK

\* A verdict on the commit c that cannot come out well any more.
BadVerdict(p, c) ==
    /\ Is(p, "valid") /\ promises[p].arg = c /\ p # TruePromise
    /\ promises[p].state \in {"running", "err"} \/ promises[p].val = 0

\* A commit that was replaced, and whose verdict is asked for anew or bad.
Suspect(c) ==
    /\ Is(c, "commit") /\ promises[c].state = "ok"
    /\ promises[c].of < version[IndexOf(c)]
    /\ \/ Settled(promises[c].valid.p) /\ ~promises[c].valid.fresh
       \/ BadVerdict(promises[c].valid.p, c)

\* Where a call that awaits a commit is on its way.
Place(it) ==
    /\ it.arg \in Index
    /\ it.for = "latest" => it.arg = it.next /\ it.depth = 0
    /\ it.for = "parent" => /\ it.depth \in 1 .. settings.commitDepth
                            /\ it.arg = it.next - it.depth /\ it.want <= it.arg
    /\ it.for = "historical" => it.arg = it.want /\ it.want < it.next

HasCursor(it) == Is(it.cursor, "commit") /\ promises[it.cursor].state = "ok"

\* What a call knows at each of its awaits.
CallOK(it) ==
    /\ it.wait \in PromiseNumber /\ it.cursor \in PromiseNumber \ it.known
    /\ it.pc # "start" => it.want \in Index
    /\ \A c \in it.known : Suspect(c)
    /\ it.pc = "prev" => it.depth = 0 /\ (it.wait # 0 => Is(it.wait, "latest"))
    /\ it.pc = "next" => it.depth = 0 /\ Is(it.wait, "latest")
    /\ it.pc \in {"peek", "valid", "commit"} => Place(it)
    /\ it.pc = "peek" =>
        /\ it.wait # 0 => Is(it.wait, "commit") /\ IndexOf(it.wait) = it.arg
        /\ it.wait \notin it.known => cached[it.arg] \notin it.known
    /\ it.pc = "valid" =>
        /\ Is(it.wait, "valid")
        /\ cached[it.arg] \notin it.known \/ \E c \in it.known : BadVerdict(it.wait, c)
    /\ it.pc = "commit" =>
        Is(it.wait, "commit") /\ IndexOf(it.wait) = it.arg /\ it.wait \notin it.known
    /\ it.pc = "walk" =>
        /\ HasCursor(it) /\ it.depth \in 0 .. settings.commitDepth
        /\ IndexOf(it.cursor) = it.next - it.depth
        /\ it.depth = 0 \/ it.want <= IndexOf(it.cursor)
    /\ it.pc = "parent" =>
        /\ HasCursor(it) /\ it.depth \in 1 .. settings.commitDepth
        /\ IndexOf(it.cursor) = it.next - it.depth + 1 /\ it.want < IndexOf(it.cursor)
        /\ Is(it.wait, "parent") /\ promises[it.wait].arg = it.cursor
    /\ it.pc = "answer" => HasCursor(it) /\ IndexOf(it.cursor) = Smaller(it.want, it.next)
    /\ it.pc \in {"call", "done"} =>
        Is(it.wait, "call") /\ IndexOf(promises[it.wait].arg) = Smaller(it.want, it.next)
    /\ it.pc = "done" => promises[it.wait].state = "ok"
    /\ it.pc = "tooOld" =>
        ~settings.allowHistorical /\ it.want < it.next - settings.commitDepth

Inv ==
    /\ Typed /\ CachesOK
    /\ \A p \in DOMAIN promises : PromiseOK(p)
    /\ \A r \in Caller : CallOK(caller[r])

----------------------------------------------------------------------------
LEMMA Indices ==
    /\ First \in Nat /\ Last \in Nat /\ First >= 1 /\ First <= Last
    /\ Index \subseteq Nat /\ First .. Last \subseteq Index
    /\ \A i \in Index : i >= First - 1 /\ i <= Last
    /\ \A s \in Settings :
        s.commitDepth \in Nat /\ s.allowHistorical \in BOOLEAN /\ s.callMax \in Nat
BY GatewayAssumption DEF Index

\* The promises by their numbers, and their fields.
LEMMA PromisesTyped ==
    ASSUME Typed
    PROVE  /\ Len(promises) \in Nat /\ DOMAIN promises = 1 .. Len(promises)
           /\ \A p \in DOMAIN promises :
                /\ promises[p] \in Promise
                /\ promises[p].kind \in Kinds /\ promises[p].arg \in Nat
                /\ promises[p].state \in States
                /\ promises[p].val \in Nat /\ promises[p].of \in Nat
                /\ promises[p].valid \in Cached /\ promises[p].parent \in Cached
                /\ promises[p].valid.p \in Nat /\ promises[p].parent.p \in Nat
<1>1. promises \in Seq(Promise)
  BY DEF Typed
<1>2. Len(promises) \in Nat /\ DOMAIN promises = 1 .. Len(promises)
  BY <1>1, LenProperties
<1>3. \A p \in DOMAIN promises : promises[p] \in Promise
  BY <1>1, <1>2, ElementOfSeq
<1>4. QED
  BY <1>2, <1>3 DEF Promise, Cached

\* What no step undoes: a promise stays what it is, and as it was settled; a
\* commit is fetched as it was last replaced or before; a verdict that is made of
\* a replaced commit is a bad one; and the cached verdict of a commit expires
\* once settled, and is replaced by a new one once expired.
Kept ==
    /\ promises' \in Seq(Promise) /\ Len(promises') >= Len(promises)
    /\ version' \in [Index -> Nat] /\ \A i \in Index : version[i] <= version'[i]
    /\ \A p \in DOMAIN promises :
        /\ promises'[p].kind = promises[p].kind /\ promises'[p].arg = promises[p].arg
        /\ promises[p].state # "running" =>
            /\ promises'[p].state = promises[p].state
            /\ promises'[p].val = promises[p].val /\ promises'[p].of = promises[p].of
        /\ promises[p].kind = "valid" /\ promises[p].state = "running" =>
            \/ promises'[p].state \in {"running", "err"} \/ promises'[p].val = 0
            \/ promises[promises[p].arg].of = version[IndexOf(promises[p].arg)]
        /\ promises[p].kind = "commit" /\ promises[p].state = "ok" =>
            \/ promises'[p].valid = promises[p].valid
            \/ /\ promises'[p].valid.p = promises[p].valid.p /\ ~promises'[p].valid.fresh
               /\ Settled(promises[p].valid.p)
            \/ /\ promises'[p].valid.p \in DOMAIN promises' \ DOMAIN promises
               /\ promises'[promises'[p].valid.p].kind = "valid"
               /\ promises'[promises'[p].valid.p].arg = p
               /\ promises'[promises'[p].valid.p].state = "running"

\* Who has waited for a commit gets no older one later: what is cached for an
\* index stays, goes or is a commit fetched just now.
Forward ==
    \A i \in Index : \/ cached'[i] \in {cached[i], 0}
                     \/ Is(cached'[i], "commit") /\ promises[cached'[i]].state = "running"

\* A suspect commit stays one.
LEMMA SuspectStays ==
    ASSUME Typed, CachesOK, \A p \in DOMAIN promises : PromiseOK(p), Kept,
           NEW c, Suspect(c)
    PROVE  Suspect(c)'
<1>1. /\ Len(promises) \in Nat /\ DOMAIN promises = 1 .. Len(promises)
      /\ \A p \in DOMAIN promises : promises[p].state \in States /\ promises[p].valid \in Cached
  BY PromisesTyped
<1>2. /\ Len(promises') \in Nat /\ DOMAIN promises' = 1 .. Len(promises')
      /\ DOMAIN promises \subseteq DOMAIN promises'
  BY <1>1, LenProperties DEF Kept
<1>3. /\ c \in DOMAIN promises /\ promises[c].kind = "commit" /\ promises[c].state = "ok"
      /\ promises[c].of < version[promises[c].arg]
  BY DEF Suspect, Is, IndexOf
<1>4. TruePromise \in DOMAIN promises
  BY DEF CachesOK, Is
<1>5. /\ Is(c, "commit")' /\ promises'[c].state = "ok" /\ promises'[c].of = promises[c].of
      /\ promises'[c].arg = promises[c].arg
  BY <1>2, <1>3 DEF Kept, Is
<1>6. promises'[c].of < version'[IndexOf(c)'] /\ promises[c].of # version[promises[c].arg]
  <2>1. /\ promises[c].arg \in Index /\ version \in [Index -> Nat] /\ version' \in [Index -> Nat]
        /\ promises[c].of \in Nat
    BY <1>3, PromisesTyped DEF PromiseOK, Typed, Kept
  <2>2. QED
    BY <1>3, <1>5, <2>1 DEF Kept, IndexOf
<1>7. PICK v \in DOMAIN promises : v = promises[c].valid.p /\ promises[v].kind = "valid"
  BY <1>3 DEF PromiseOK, Is
<1>8. CASE promises'[c].valid = promises[c].valid
  <2>1. CASE Settled(v) /\ ~promises[c].valid.fresh
    <3>1. promises'[v].state # "running"
      BY <1>7, <2>1 DEF Settled, Kept
    <3>2. Settled(promises[c].valid.p)'
      BY <1>7, <1>8, <3>1 DEF Settled
    <3>3. ~promises'[c].valid.fresh
      BY <1>7, <1>8, <2>1
    <3>4. QED
      BY <1>5, <1>6, <3>2, <3>3 DEF Suspect
  <2>2. CASE BadVerdict(v, c)
    <3>1. promises'[v].state \in {"running", "err"} \/ promises'[v].val = 0
      BY <1>3, <1>6, <1>7, <2>2 DEF BadVerdict, Kept, IndexOf, Is
    <3>2. BadVerdict(v, c)'
      BY <1>2, <1>7, <2>2, <3>1 DEF BadVerdict, Kept, Is
    <3>3. BadVerdict(promises[c].valid.p, c)'
      BY <1>7, <1>8, <3>2
    <3>4. QED
      BY <1>5, <1>6, <3>3 DEF Suspect
  <2>3. QED
    BY <1>7, <2>1, <2>2 DEF Suspect
<1>9. CASE promises'[c].valid.p = v /\ ~promises'[c].valid.fresh /\ Settled(v)
  <2>1. promises'[v].state # "running"
    BY <1>7, <1>9 DEF Settled, Kept
  <2>2. Settled(promises[c].valid.p)'
    BY <1>9, <2>1 DEF Settled
  <2>3. QED
    BY <1>5, <1>6, <1>9, <2>2 DEF Suspect
<1>10. ASSUME NEW w \in DOMAIN promises' \ DOMAIN promises, promises'[c].valid.p = w,
              promises'[w].kind = "valid", promises'[w].arg = c, promises'[w].state = "running"
       PROVE  Suspect(c)'
  <2>1. BadVerdict(promises[c].valid.p, c)'
    BY <1>4, <1>10 DEF BadVerdict, Is
  <2>2. QED
    BY <1>5, <1>6, <2>1 DEF Suspect
<1>11. QED
  BY <1>3, <1>7, <1>8, <1>9, <1>10 DEF Kept
\* A bad verdict stays one.
LEMMA BadVerdictStays ==
    ASSUME Typed, \A p \in DOMAIN promises : PromiseOK(p), Kept,
           NEW c, Suspect(c), NEW p, BadVerdict(p, c)
    PROVE  BadVerdict(p, c)'
<1>1. /\ Len(promises) \in Nat /\ DOMAIN promises = 1 .. Len(promises)
      /\ \A q \in DOMAIN promises : promises[q].state \in States
  BY PromisesTyped
<1>2. DOMAIN promises \subseteq DOMAIN promises'
  BY <1>1, LenProperties DEF Kept
<1>3. /\ p \in DOMAIN promises /\ promises[p].kind = "valid" /\ promises[p].arg = c
      /\ p # TruePromise /\ (promises[p].state \in {"running", "err"} \/ promises[p].val = 0)
  BY DEF BadVerdict, Is
<1>4. promises[c].of # version[promises[c].arg]
  <2>1. c \in DOMAIN promises /\ promises[c].of < version[promises[c].arg]
    BY DEF Suspect, Is, IndexOf
  <2>2. version[promises[c].arg] \in Nat /\ promises[c].of \in Nat
    BY <2>1, PromisesTyped DEF Suspect, Is, PromiseOK, Typed
  <2>3. QED
    BY <2>1, <2>2
<1>5. promises'[p].state \in {"running", "err"} \/ promises'[p].val = 0
  BY <1>3, <1>4 DEF Kept, IndexOf
<1>6. QED
  BY <1>2, <1>3, <1>5 DEF BadVerdict, Is, Kept

\* What a call knows at its await stays true while others go on.
LEMMA CallStays ==
    ASSUME Typed, CachesOK, \A p \in DOMAIN promises : PromiseOK(p), Kept, Forward,
           settings' = settings, NEW it \in Call, CallOK(it)
    PROVE  CallOK(it)'
<1>1. /\ Len(promises) \in Nat /\ DOMAIN promises = 1 .. Len(promises)
      /\ \A p \in DOMAIN promises : promises[p].state \in States /\ promises[p].arg \in Nat
  BY PromisesTyped
<1>2. /\ Len(promises') \in Nat /\ DOMAIN promises' = 1 .. Len(promises')
      /\ DOMAIN promises \subseteq DOMAIN promises' /\ Len(promises) <= Len(promises')
  BY <1>1, LenProperties DEF Kept
<1>3. \A p, kind : Is(p, kind) => Is(p, kind)' /\ promises'[p].arg = promises[p].arg
  BY <1>2 DEF Is, Kept
<1>4. \A c \in it.known : Suspect(c) /\ Suspect(c)'
  BY SuspectStays DEF CallOK
<1>5. it.wait \in PromiseNumber' /\ it.cursor \in PromiseNumber' \ it.known
  BY <1>1, <1>2 DEF CallOK, PromiseNumber
<1>6. it.pc # "start" => it.want \in Index
  BY DEF CallOK
<1>7. it.pc \in {"peek", "valid", "commit"} => Place(it) /\ Place(it)'
  BY DEF CallOK, Place
<1>8. it.pc = "prev" => it.depth = 0 /\ (it.wait # 0 => Is(it.wait, "latest")')
  BY <1>3 DEF CallOK
<1>9. it.pc = "next" => it.depth = 0 /\ Is(it.wait, "latest")'
  BY <1>3 DEF CallOK
<1>10. it.arg \in Index /\ cached[it.arg] \notin it.known => cached'[it.arg] \notin it.known
  <2>1. 0 \notin it.known
    BY <1>1, <1>4 DEF Suspect, Is
  <2>2. \A c \in it.known : promises[c].state = "ok"
    BY <1>4 DEF Suspect
  <2>3. QED
    BY <2>1, <2>2 DEF Forward
<1>11. it.pc = "peek" =>
        /\ it.wait # 0 => Is(it.wait, "commit")' /\ IndexOf(it.wait)' = it.arg
        /\ it.wait \notin it.known => cached'[it.arg] \notin it.known
  BY <1>3, <1>7, <1>10 DEF CallOK, IndexOf, Place
<1>12. it.pc = "valid" =>
        /\ Is(it.wait, "valid")'
        /\ cached'[it.arg] \notin it.known \/ \E c \in it.known : BadVerdict(it.wait, c)'
  <2> SUFFICES ASSUME it.pc = "valid" PROVE <1>12!2
    OBVIOUS
  <2>1. Is(it.wait, "valid")'
    BY <1>3 DEF CallOK
  <2>2. CASE cached[it.arg] \notin it.known
    BY <1>7, <1>10, <2>1, <2>2 DEF Place
  <2>3. ASSUME NEW c \in it.known, BadVerdict(it.wait, c) PROVE BadVerdict(it.wait, c)'
    BY <1>4, <2>3, BadVerdictStays
  <2>4. QED
    BY <2>1, <2>2, <2>3 DEF CallOK
<1>13. it.pc = "commit" =>
        Is(it.wait, "commit")' /\ IndexOf(it.wait)' = it.arg /\ it.wait \notin it.known
  BY <1>3 DEF CallOK, IndexOf
<1>14. HasCursor(it) => HasCursor(it)' /\ IndexOf(it.cursor)' = IndexOf(it.cursor)
  BY <1>3 DEF HasCursor, Kept, Is, IndexOf
<1>15. it.pc = "walk" =>
        /\ HasCursor(it)' /\ it.depth \in 0 .. settings'.commitDepth
        /\ IndexOf(it.cursor)' = it.next - it.depth
        /\ it.depth = 0 \/ it.want <= IndexOf(it.cursor)'
  BY <1>14 DEF CallOK
<1>16. it.pc = "parent" =>
        /\ HasCursor(it)' /\ it.depth \in 1 .. settings'.commitDepth
        /\ IndexOf(it.cursor)' = it.next - it.depth + 1 /\ it.want < IndexOf(it.cursor)'
        /\ Is(it.wait, "parent")' /\ promises'[it.wait].arg = it.cursor
  BY <1>3, <1>14 DEF CallOK
<1>17. it.pc = "answer" => HasCursor(it)' /\ IndexOf(it.cursor)' = Smaller(it.want, it.next)
  BY <1>14 DEF CallOK
<1>18. it.pc \in {"call", "done"} =>
        Is(it.wait, "call")' /\ IndexOf(promises[it.wait].arg)' = Smaller(it.want, it.next)
  <2> SUFFICES ASSUME it.pc \in {"call", "done"} PROVE <1>18!2
    OBVIOUS
  <2>1. /\ Is(it.wait, "call") /\ Is(it.wait, "call")'
        /\ promises'[it.wait].arg = promises[it.wait].arg
        /\ IndexOf(promises[it.wait].arg) = Smaller(it.want, it.next)
    BY <1>3 DEF CallOK
  <2>2. PICK c \in DOMAIN promises : c = promises[it.wait].arg /\ Is(c, "commit")
    BY <1>1, <2>1 DEF PromiseOK, Is, CachesOK
  <2>3. promises'[c].arg = promises[c].arg
    BY <1>3, <2>2
  <2>4. QED
    BY <2>1, <2>2, <2>3 DEF IndexOf
<1>19. it.pc = "done" => promises'[it.wait].state = "ok"
  BY DEF CallOK, Is, Kept
<1>20. it.pc = "tooOld" => ~settings'.allowHistorical /\ it.want < it.next - settings'.commitDepth
  BY DEF CallOK
<1>21. QED
  BY <1>4, <1>5, <1>6, <1>7, <1>8, <1>9, <1>11, <1>12, <1>13, <1>15, <1>16, <1>17, <1>18, <1>19, <1>20
     DEF CallOK
\* A step of nobody's keeps the invariant, if it keeps the promises and caches so.
LEMMA Waiting ==
    ASSUME Inv, Typed', CachesOK', \A p \in DOMAIN promises' : PromiseOK(p)', Kept, Forward,
           settings' = settings, caller' = caller
    PROVE  Inv'
<1> SUFFICES ASSUME NEW r \in Caller PROVE CallOK(caller[r])'
  BY DEF Inv
<1>1. PICK it \in Call : it = caller[r] /\ it = caller'[r]
  BY DEF Inv, Typed
<1>2. CallOK(it)'
  BY <1>1, CallStays DEF Inv
<1>3. QED
  BY <1>1, <1>2

\* So does a step of the call r, if it knows at its next await what it should.
LEMMA Going ==
    ASSUME Inv, Typed', CachesOK', \A p \in DOMAIN promises' : PromiseOK(p)', Kept, Forward,
           settings' = settings, NEW r \in Caller, NEW new \in Call,
           caller' = [caller EXCEPT ![r] = new], CallOK(new)'
    PROVE  Inv'
<1> SUFFICES ASSUME NEW o \in Caller PROVE CallOK(caller[o])'
  BY DEF Inv
<1>1. caller \in [Caller -> Call]
  BY DEF Inv, Typed
<1>2. CASE o = r
  <2>1. caller'[o] = new
    BY <1>1, <1>2
  <2>2. QED
    BY <2>1
<1>3. CASE o # r
  <2>1. PICK it \in Call : it = caller[o] /\ it = caller'[o]
    BY <1>1, <1>3
  <2>2. CallOK(it)'
    BY <2>1, CallStays DEF Inv
  <2>3. QED
    BY <2>1, <2>2
<1>4. QED
  BY <1>2, <1>3

\* A promise that is made anew.
LEMMA PromisedTyped ==
    ASSUME NEW kind \in Kinds, NEW arg \in Nat
    PROVE  /\ Promised(kind, arg) \in Promise
           /\ Promised(kind, arg).kind = kind /\ Promised(kind, arg).arg = arg
           /\ Promised(kind, arg).state = "running"
           /\ Promised(kind, arg).valid = CV(0) /\ Promised(kind, arg).parent = CV(0)
           /\ CV(0).p = 0 /\ \A p \in Nat : CV(p) \in Cached /\ CV(p).p = p /\ CV(p).fresh = TRUE
BY DEF Promised, Promise, States, Cached, CV

\* A promise stays as it should be, if it and those it is about stay what they
\* are, and its caches keep their promises or get new ones.
LEMMA PromiseStays ==
    ASSUME Inv, promises' \in Seq(Promise), DOMAIN promises \subseteq DOMAIN promises',
           version' \in [Index -> Nat], \A i \in Index : version[i] <= version'[i],
           \A q \in DOMAIN promises :
                /\ promises'[q].kind = promises[q].kind /\ promises'[q].arg = promises[q].arg
                /\ promises[q].state = "ok" => promises'[q].state = "ok",
           NEW p \in DOMAIN promises,
           promises'[p].state = promises[p].state,
           promises'[p].val = promises[p].val, promises'[p].of = promises[p].of,
           \/ promises'[p].valid.p = promises[p].valid.p
           \/ /\ Is(promises[p].valid.p, "valid")' /\ promises'[promises'[p].valid.p].arg = p
              /\ promises'[p].valid.p # 0,
           \/ promises'[p].parent.p = promises[p].parent.p
           \/ Is(promises[p].parent.p, "parent")' /\ promises'[promises'[p].parent.p].arg = p
    PROVE  PromiseOK(p)'
<1>1. /\ promises[p].of \in Nat /\ version \in [Index -> Nat] /\ PromiseOK(p) /\ CachesOK
  BY PromisesTyped DEF Inv, Typed
<1>2. \A q, kind : Is(q, kind) => Is(q, kind)'
  BY DEF Is
<1>3. TruePromise \in DOMAIN promises /\ promises[TruePromise].kind = "valid"
  BY <1>1 DEF CachesOK, Is
<1>4. promises[p].kind = "commit" /\ promises[p].state = "ok" =>
            promises[p].of <= version'[promises[p].arg] /\ promises'[p].valid.p # 0
  <2> SUFFICES ASSUME promises[p].kind = "commit", promises[p].state = "ok"
               PROVE  promises[p].of <= version'[promises[p].arg] /\ promises'[p].valid.p # 0
    OBVIOUS
  <2>1. /\ promises[p].arg \in Index /\ promises[p].of <= version[promises[p].arg]
        /\ promises[p].valid.p # 0
    BY <1>1 DEF PromiseOK
  <2>2. QED
    BY <1>1, <2>1
<1>5. promises[p].kind \in {"valid", "parent", "call"} /\ p # TruePromise =>
            /\ Is(promises[p].arg, "commit")' /\ promises'[promises[p].arg].state = "ok"
            /\ IndexOf(promises[p].arg)' = IndexOf(promises[p].arg)
  BY <1>1, <1>2 DEF PromiseOK, Is, IndexOf
<1>6. promises[p].kind = "parent" /\ promises[p].state = "ok" =>
            IndexOf(promises[p].arg)' > First /\ promises[p].val = IndexOf(promises[p].arg)' - 1
  BY <1>1, <1>3, <1>5 DEF PromiseOK
<1>7. promises'[p].valid.p # 0 =>
            /\ Is(promises[p].valid.p, "valid")'
            /\ promises'[p].valid.p = TruePromise \/ promises'[promises'[p].valid.p].arg = p
  BY <1>1, <1>2 DEF PromiseOK, Is
<1>8. promises'[p].parent.p # 0 =>
            Is(promises[p].parent.p, "parent")' /\ promises'[promises'[p].parent.p].arg = p
  BY <1>1, <1>2 DEF PromiseOK, Is
<1>9. promises'[p].kind = promises[p].kind /\ promises'[p].arg = promises[p].arg
  OBVIOUS
<1>10. QED
  BY <1>1, <1>4, <1>5, <1>6, <1>7, <1>8, <1>9 DEF PromiseOK, IndexOf

\* What an evaluation held is about: the commit of the index it is kept at.
LEMMA HeldCalls ==
    ASSUME Inv, NEW n \in DOMAIN calls
    PROVE  /\ calls[n] \in Entries(Index, Nat) /\ calls[n].key \in Index
           /\ calls[n].from \in DOMAIN promises /\ promises[calls[n].from].kind = "call"
           /\ promises[calls[n].from].arg \in DOMAIN promises
           /\ promises[promises[calls[n].from].arg].arg = calls[n].key
           /\ calls[n].pending <=> promises[calls[n].from].state = "running"
<1>1. /\ calls \in Seq(Entries(Index, Nat)) /\ Is(TruePromise, "valid")
      /\ \A p \in DOMAIN promises : PromiseOK(p)
  BY DEF Inv, Typed, CachesOK
<1>2. calls[n] \in Entries(Index, Nat) /\ calls[n].key \in Index
  BY <1>1, EntriesTyped
<1>3. /\ calls[n].from \in DOMAIN promises /\ promises[calls[n].from].kind = "call"
      /\ promises[promises[calls[n].from].arg].arg = calls[n].key
      /\ calls[n].pending <=> promises[calls[n].from].state = "running"
  BY DEF Inv, CachesOK, CallsOK, Is, IndexOf
<1>4. promises[calls[n].from].arg \in DOMAIN promises
  BY <1>1, <1>3 DEF PromiseOK, Is
<1>5. QED
  BY <1>2, <1>3, <1>4

\* callLRU stays as it should be while it keeps what it has, and what it has
\* stays what it is.
LEMMA CallsStay ==
    ASSUME Inv, settings' = settings, calls' = calls, DOMAIN promises \subseteq DOMAIN promises',
           \A q \in DOMAIN promises :
                promises'[q].kind = promises[q].kind /\ promises'[q].arg = promises[q].arg,
           \A n \in DOMAIN calls : promises'[calls[n].from].state = promises[calls[n].from].state,
           \A q \in DOMAIN promises' : promises'[q].kind = "call" /\ promises'[q].state = "running" =>
                q \in DOMAIN promises /\ promises[q].state = "running"
    PROVE  CallsOK'
<1>1. ASSUME NEW n \in DOMAIN calls
      PROVE  /\ calls[n].from \in DOMAIN promises' /\ promises'[calls[n].from].kind = "call"
             /\ promises'[promises'[calls[n].from].arg].arg = calls[n].key
             /\ calls[n].pending <=> promises'[calls[n].from].state = "running"
  BY HeldCalls
<1>2. ASSUME NEW q \in DOMAIN promises', promises'[q].kind = "call", promises'[q].state = "running",
             Cardinality(Index) <= settings.callMax
      PROVE  \E n \in DOMAIN calls : calls[n].from = q
  BY <1>2 DEF Inv, CachesOK, CallsOK, Roomy, Holds
<1>3. QED
  BY <1>1, <1>2 DEF CallsOK, Is, IndexOf, Roomy, Holds

\* An entry put into such a Map, and what stays beside it.
LEMMA PutFits ==
    ASSUME NEW K, NEW W, NEW m \in Seq(Entries(K, W)), KeysDiffer(m),
           NEW max \in Nat, Len(m) <= max, NEW k \in K, NEW w \in W, NEW b \in BOOLEAN,
           NEW r, r = Put(m, max, k, w, b)
    PROVE  /\ r \in Seq(Entries(K, W)) /\ KeysDiffer(r) /\ Len(r) <= max
           /\ \A i \in DOMAIN r : \/ r[i] = [key |-> k, from |-> w, pending |-> b]
                                 \/ \E j \in DOMAIN m : r[i] = m[j] /\ m[j].key # k
           /\ Len(Without(m, k)) # max /\ max # 0 =>
                /\ \E i \in DOMAIN r : r[i] = [key |-> k, from |-> w, pending |-> b]
                /\ \A j \in DOMAIN m : m[j].key # k => \E i \in DOMAIN r : r[i] = m[j]
<1>1. /\ r \in Seq(Entries(K, W)) /\ KeysDiffer(r) /\ Len(r) <= max
      /\ \A i \in DOMAIN r : \/ r[i] = [key |-> k, from |-> w, pending |-> b]
                            \/ \E j \in DOMAIN m : r[i] = m[j] /\ m[j].key # k
  BY PutKeeps
<1>2. Len(Without(m, k)) # max /\ max # 0 =>
        /\ \E i \in DOMAIN r : r[i] = [key |-> k, from |-> w, pending |-> b]
        /\ \A j \in DOMAIN m : m[j].key # k => \E i \in DOMAIN r : r[i] = m[j]
  BY PutWithRoom
<1>3. QED
  BY <1>1, <1>2

\* Kept anew as the newest, the evaluation p leaves callLRU as it should be: it
\* is the only one of its index there, and with room nothing else goes.
LEMMA PuttingCall ==
    ASSUME Inv, settings' = settings, DOMAIN promises \subseteq DOMAIN promises',
           \A q \in DOMAIN promises :
                promises'[q].kind = promises[q].kind /\ promises'[q].arg = promises[q].arg,
           NEW p \in Nat, p \in DOMAIN promises', promises'[p].kind = "call",
           \A q \in DOMAIN promises' : q # p =>
                q \in DOMAIN promises /\ promises'[q].state = promises[q].state,
           NEW i \in Index, promises'[promises'[p].arg].arg = i,
           \A n \in DOMAIN calls : calls[n].key = i => calls[n].from = p,
           NEW b \in BOOLEAN, b <=> promises'[p].state = "running",
           calls' = Put(calls, settings.callMax, i, p, b)
    PROVE  /\ calls' \in Seq(Entries(Index, Nat)) /\ KeysDiffer(calls')
           /\ Len(calls') <= settings'.callMax
           /\ CallsOK'
<1> DEFINE e == [key |-> i, from |-> p, pending |-> b]
<1>1. PICK max \in Nat :
        /\ max = settings.callMax
        /\ calls \in Seq(Entries(Index, Nat)) /\ KeysDiffer(calls) /\ Len(calls) <= max
  BY Indices DEF Inv, Typed
<1>a. PICK old, new : old = calls /\ new = calls' /\ new = Put(old, max, i, p, b)
  BY <1>1
<1>b. /\ new \in Seq(Entries(Index, Nat)) /\ KeysDiffer(new) /\ Len(new) <= max
      /\ \A n \in DOMAIN new : \/ new[n] = e
                              \/ \E m \in DOMAIN old : new[n] = old[m] /\ old[m].key # i
      /\ Len(Without(old, i)) # max /\ max # 0 =>
            /\ \E n \in DOMAIN new : new[n] = e
            /\ \A m \in DOMAIN old : old[m].key # i => \E n \in DOMAIN new : new[n] = old[m]
  <2>1. PICK W : W = Nat
    OBVIOUS
  <2>2. /\ old \in Seq(Entries(Index, W)) /\ KeysDiffer(old) /\ Len(old) <= max
        /\ max \in Nat /\ i \in Index /\ p \in W /\ b \in BOOLEAN
    BY <1>1, <1>a, <2>1
  <2>3. /\ new \in Seq(Entries(Index, W)) /\ KeysDiffer(new) /\ Len(new) <= max
        /\ \A n \in DOMAIN new : \/ new[n] = e
                                \/ \E m \in DOMAIN old : new[n] = old[m] /\ old[m].key # i
        /\ Len(Without(old, i)) # max /\ max # 0 =>
                /\ \E n \in DOMAIN new : new[n] = e
                /\ \A m \in DOMAIN old : old[m].key # i => \E n \in DOMAIN new : new[n] = old[m]
    BY ONLY <1>a, <2>2, PutFits
  <2>4. QED
    BY <2>1, <2>3
<1>2. /\ calls' \in Seq(Entries(Index, Nat)) /\ KeysDiffer(calls')
      /\ Len(calls') <= max
      /\ \A n \in DOMAIN calls' :
            calls'[n] = e \/ \E m \in DOMAIN calls : calls'[n] = calls[m] /\ calls[m].key # i
  BY <1>a, <1>b
<1>3. ASSUME NEW n \in DOMAIN calls'
      PROVE  /\ calls'[n].from \in DOMAIN promises' /\ promises'[calls'[n].from].kind = "call"
             /\ promises'[promises'[calls'[n].from].arg].arg = calls'[n].key
             /\ calls'[n].pending <=> promises'[calls'[n].from].state = "running"
  <2>1. CASE calls'[n] = e
    BY <2>1
  <2>2. ASSUME NEW m \in DOMAIN calls, calls'[n] = calls[m], calls[m].key # i
        PROVE  <1>3!2
    <3>1. /\ calls[m].from \in DOMAIN promises /\ promises[calls[m].from].kind = "call"
          /\ promises[calls[m].from].arg \in DOMAIN promises
          /\ promises[promises[calls[m].from].arg].arg = calls[m].key
          /\ calls[m].pending <=> promises[calls[m].from].state = "running"
      BY HeldCalls
    <3>2. /\ promises'[calls[m].from].kind = "call"
          /\ promises'[promises'[calls[m].from].arg].arg = calls[m].key
      BY <3>1
    <3>3. calls[m].from # p
      BY <2>2, <3>2
    <3>4. QED
      BY <2>2, <3>1, <3>2, <3>3
  <2>3. QED
    BY <1>2, <2>1, <2>2
<1>4. ASSUME NEW q \in DOMAIN promises', promises'[q].kind = "call", promises'[q].state = "running",
             Cardinality(Index) <= settings.callMax
      PROVE  \E n \in DOMAIN calls' : calls'[n].from = q
  <2>1. IsFiniteSet(Index)
    BY Indices, FS_Interval DEF Index
  <2>2. Len(Without(calls, i)) # max /\ max # 0
    <3>1. /\ Cardinality(Index) <= max /\ calls \in Seq(Entries(Index, Nat)) /\ KeysDiffer(calls)
          /\ max \in Nat /\ i \in Index
      BY <1>1, <1>4
    <3>2. QED
      BY ONLY <2>1, <3>1, RoomForAll
  <2>3. /\ \E n \in DOMAIN calls' : calls'[n] = e
        /\ \A m \in DOMAIN calls : calls[m].key # i => \E n \in DOMAIN calls' : calls'[n] = calls[m]
    BY <1>a, <1>b, <2>2
  <2>4. CASE q = p
    BY <2>3, <2>4
  <2>5. CASE q # p
    <3>1. q \in DOMAIN promises /\ promises[q].kind = "call" /\ promises[q].state = "running"
      BY <1>4, <2>5
    <3>2. PICK m \in DOMAIN calls : calls[m].from = q
      BY <1>4, <3>1 DEF Inv, CachesOK, CallsOK, Roomy, Holds
    <3>3. calls[m].key # i
      BY <2>5, <3>2
    <3>4. QED
      BY <2>3, <3>2, <3>3
  <2>6. QED
    BY <2>4, <2>5
<1>5. CallsOK'
  BY <1>3, <1>4 DEF CallsOK, Is, IndexOf, Roomy, Holds
<1>6. QED
  BY <1>1, <1>2, <1>5

\* The caches stay as they should be, if what they hold keeps its state and what
\* they get is of the right kind.
LEMMA CachesStay ==
    ASSUME Inv, promises' \in Seq(Promise), DOMAIN promises \subseteq DOMAIN promises',
           \A q \in DOMAIN promises :
                /\ promises'[q].kind = promises[q].kind /\ promises'[q].arg = promises[q].arg
                /\ promises'[q].state = promises[q].state,
           \A q \in DOMAIN promises' \ DOMAIN promises : promises'[q].kind # "call",
           settings' = settings, calls' = calls,
           latestCache' = latestCache \/ Is(latestCache.p, "latest")',
           \A i \in Index :
                /\ cached'[i] \in {cached[i], 0}
                /\ \/ pending'[i] \in {pending[i], 0}
                   \/ /\ Is(pending[i], "commit")' /\ IndexOf(pending[i])' = i
                      /\ promises'[pending'[i]].state = "running"
    PROVE  CachesOK'
<1>1. CachesOK /\ \A p \in DOMAIN promises : PromiseOK(p)
  BY DEF Inv
<1>2. \A q, kind : Is(q, kind) =>
        Is(q, kind)' /\ promises'[q].arg = promises[q].arg /\ promises'[q].state = promises[q].state
  BY DEF Is
<1>3. /\ Is(TruePromise, "valid")' /\ promises'[TruePromise].state = "ok"
      /\ latestCache'.p # 0 => Is(latestCache.p, "latest")'
  BY <1>1, <1>2 DEF CachesOK
<1>5. ASSUME NEW i \in Index
      PROVE  /\ pending'[i] # 0 => /\ Is(pending[i], "commit")' /\ IndexOf(pending[i])' = i
                                   /\ promises'[pending'[i]].state = "running"
             /\ cached'[i] # 0 => /\ Is(cached[i], "commit")' /\ IndexOf(cached[i])' = i
                                  /\ promises'[cached'[i]].state # "running"
  BY <1>1, <1>2 DEF CachesOK, IndexOf
<1>6. CallsOK'
  <2>1. \A n \in DOMAIN calls : promises'[calls[n].from].state = promises[calls[n].from].state
    BY HeldCalls
  <2>2. \A q \in DOMAIN promises' : promises'[q].kind = "call" /\ promises'[q].state = "running" =>
            q \in DOMAIN promises /\ promises[q].state = "running"
    OBVIOUS
  <2>3. QED
    BY <2>1, <2>2, CallsStay
<1>7. QED
  BY <1>3, <1>5, <1>6 DEF CachesOK

\* Where the promises stay what they are, more of them change nothing.
LEMMA OldPromises ==
    ASSUME Inv, promises' \in Seq(Promise), Len(promises') >= Len(promises),
           \A p \in DOMAIN promises : promises'[p] = promises[p],
           version' \in [Index -> Nat], \A i \in Index : version[i] <= version'[i]
    PROVE  Kept /\ \A p \in DOMAIN promises : PromiseOK(p)' /\ p \in DOMAIN promises'
<1>1. /\ Len(promises) \in Nat /\ DOMAIN promises = 1 .. Len(promises)
      /\ \A p \in DOMAIN promises : promises[p].state \in States
  BY PromisesTyped DEF Inv
<1>2. /\ Len(promises') \in Nat /\ DOMAIN promises' = 1 .. Len(promises')
      /\ DOMAIN promises \subseteq DOMAIN promises'
  BY <1>1, LenProperties
<1>3. Kept
  BY <1>1, <1>2 DEF Kept, States
<1>4. \A p \in DOMAIN promises : PromiseOK(p)'
  BY <1>2, PromiseStays
<1>5. QED
  BY <1>2, <1>3, <1>4

\* Nothing changes for the promises while the rollup only goes on.
LEMMA SamePromises ==
    ASSUME Inv, promises' = promises, version' \in [Index -> Nat],
           \A i \in Index : version[i] <= version'[i]
    PROVE  Kept /\ \A p \in DOMAIN promises' : PromiseOK(p)'
<1>1. promises \in Seq(Promise) /\ Len(promises) \in Nat
  BY PromisesTyped DEF Inv, Typed
<1>2. QED
  BY <1>1, OldPromises

\* A step of a call that makes no promise and changes no cache of promises.
LEMMA OnlyGoing ==
    ASSUME Inv, NEW r \in Caller, NEW new \in Call, caller' = [caller EXCEPT ![r] = new],
           CallOK(new),
           UNCHANGED <<settings, latest, version, promises, latestCache, pending, cached, calls,
                       expiries>>
    PROVE  Inv'
<1>1. Typed /\ CachesOK
  BY DEF Inv
<1>2. Typed'
  BY <1>1 DEF Typed
<1>3. CachesOK'
  BY <1>1 DEF CachesOK, CallsOK, Roomy, Holds, Is, IndexOf
<1>4. Kept /\ \A p \in DOMAIN promises' : PromiseOK(p)'
  <2>1. \A i \in Index : version[i] <= version'[i]
    BY <1>1 DEF Typed
  <2>2. version' \in [Index -> Nat]
    BY <1>1 DEF Typed
  <2>3. QED
    BY <2>1, <2>2, SamePromises
<1>5. Forward
  BY DEF Forward
<1>6. CallOK(new)'
  BY <1>1, <1>4, <1>5, CallStays DEF Inv
<1>7. QED
  BY <1>2, <1>3, <1>4, <1>5, <1>6, Going

\* A new promise is the last one.
LEMMA Appending ==
    ASSUME Inv, NEW new \in Promise, promises' = Append(promises, new), version' = version
    PROVE  /\ NextId \in Nat /\ NextId \notin DOMAIN promises /\ NextId # 0
           /\ promises' \in Seq(Promise) /\ DOMAIN promises' = DOMAIN promises \cup {NextId}
           /\ Len(promises') = NextId /\ promises'[NextId] = new
           /\ \A p \in DOMAIN promises : promises'[p] = promises[p] /\ PromiseOK(p)'
           /\ Kept
<1>1. /\ promises \in Seq(Promise) /\ Len(promises) \in Nat /\ DOMAIN promises = 1 .. Len(promises)
      /\ version \in [Index -> Nat]
  BY PromisesTyped DEF Inv, Typed
<1>2. /\ promises' \in Seq(Promise) /\ Len(promises') = Len(promises) + 1
      /\ \A p \in 1 .. Len(promises) : promises'[p] = promises[p]
      /\ promises'[Len(promises) + 1] = new
  BY <1>1, AppendProperties
<1>3. DOMAIN promises' = 1 .. Len(promises) + 1
  BY <1>2, LenProperties
<1>4. \A i \in Index : version[i] <= version'[i]
  BY <1>1
<1>5. Kept /\ \A p \in DOMAIN promises : PromiseOK(p)'
  BY <1>1, <1>2, <1>4, OldPromises
<1>6. QED
  BY <1>1, <1>2, <1>3, <1>5 DEF NextId
----------------------------------------------------------------------------
\* The commit that a call finds for an index, if any, is one of that index.
LEMMA PeekedCommit ==
    ASSUME Inv, NEW i \in Index
    PROVE  /\ PeekCommit(i) \in PromiseNumber /\ PeekCommit(i) \in Nat
           /\ PeekCommit(i) # 0 => Is(PeekCommit(i), "commit") /\ IndexOf(PeekCommit(i)) = i
           /\ \A known \in SUBSET Nat : 0 \notin known /\ PeekCommit(i) \notin known =>
                cached[i] \notin known
BY PromisesTyped DEF Inv, Typed, CachesOK, PeekCommit, PromiseNumber, Is

\* Nothing that is known to be replaced is 0, or still being fetched.
LEMMA KnownTyped ==
    ASSUME Inv, NEW r \in Caller
    PROVE  /\ caller[r] \in Call /\ CallOK(caller[r]) /\ caller[r].known \in SUBSET Nat
           /\ 0 \notin caller[r].known
           /\ \A c \in caller[r].known : c \in DOMAIN promises /\ promises[c].state = "ok"
<1>1. caller[r] \in Call /\ CallOK(caller[r])
  BY DEF Inv, Typed
<1>2. \A c \in caller[r].known : c \in DOMAIN promises /\ promises[c].state = "ok"
  BY <1>1 DEF CallOK, Suspect, Is
<1>3. 0 \notin DOMAIN promises
  BY PromisesTyped DEF Inv
<1>4. QED
  BY <1>1, <1>2, <1>3 DEF Call

\* getRecentCommit() begins.
LEMMA StartKeeps == ASSUME Inv, NEW r \in Caller, Start(r) PROVE Inv'
<1>1. PICK want \in Index :
        caller' = [caller EXCEPT ![r] = [Idle EXCEPT !.pc = "prev", !.want = want,
                                                !.wait = latestCache.p, !.known = Outdated]]
  BY DEF Start, Goes
<1>2. /\ Len(promises) \in Nat /\ DOMAIN promises = 1 .. Len(promises)
      /\ \A p \in DOMAIN promises : promises[p].of \in Nat
      /\ version \in [Index -> Nat]
  BY PromisesTyped DEF Inv, Typed
<1>3. /\ latestCache.p \in Nat /\ latestCache.p \in PromiseNumber
      /\ latestCache.p # 0 => Is(latestCache.p, "latest")
  BY <1>2 DEF Inv, CachesOK, Is, PromiseNumber, Typed, Cached
<1>4. Outdated \in SUBSET Nat /\ 0 \notin Outdated
  BY <1>2 DEF Outdated
<1>5. PICK new \in Call :
        /\ caller' = [caller EXCEPT ![r] = new]
        /\ new.pc = "prev" /\ new.want = want /\ new.wait = latestCache.p /\ new.known = Outdated
        /\ new.cursor = 0 /\ new.depth = 0
  <2> DEFINE new == [Idle EXCEPT !.pc = "prev", !.want = want, !.wait = latestCache.p, !.known = Outdated]
  <2>1. new \in Call
    BY <1>3, <1>4, Indices DEF Idle, Call
  <2>2. /\ new.pc = "prev" /\ new.want = want /\ new.wait = latestCache.p /\ new.known = Outdated
        /\ new.cursor = 0 /\ new.depth = 0
    BY DEF Idle
  <2> HIDE DEF new
  <2>3. QED
    BY <1>1, <2>1, <2>2 DEF new
<1>6. \A c \in Outdated : Suspect(c)
  <2> SUFFICES ASSUME NEW c \in Outdated PROVE Suspect(c)
    OBVIOUS
  <2>1. /\ c \in DOMAIN promises /\ promises[c].kind = "commit" /\ promises[c].state = "ok"
        /\ promises[c].of # version[promises[c].arg]
        /\ Settled(promises[c].valid.p) /\ ~promises[c].valid.fresh
    BY DEF Outdated, IndexOf
  <2>2. promises[c].arg \in Index /\ promises[c].of <= version[promises[c].arg]
    BY <2>1 DEF Inv, PromiseOK
  <2>3. promises[c].of < version[promises[c].arg]
    BY <1>2, <2>1, <2>2
  <2>4. QED
    BY <2>1, <2>3 DEF Suspect, Is, IndexOf
<1>7. CallOK(new)
  <2>1. 0 \in PromiseNumber
    BY <1>2 DEF PromiseNumber
  <2>2. QED
    BY <1>3, <1>4, <1>5, <1>6, <2>1 DEF CallOK
<1>8. QED
  BY <1>5, <1>7, OnlyGoing DEF Start

\* The latest index is there.
LEMMA NextKeeps == ASSUME Inv, NEW r \in Caller, Next_(r) PROVE Inv'
<1>1. PICK it \in Call : it = caller[r] /\ CallOK(it) /\ 0 \notin it.known /\ it.known \in SUBSET Nat
  BY KnownTyped
<1>2. /\ it.pc = "next" /\ it.wait \in DOMAIN promises /\ promises[it.wait].state = "ok"
      /\ promises[it.wait].kind = "latest" /\ it.depth = 0
  BY <1>1, PromisesTyped DEF Next_, Resumes, At, Settled, Rejected, CallOK, Is, Inv, States
<1>3. PICK next \in First .. Last : next = promises[it.wait].val
  BY <1>2 DEF Inv, PromiseOK
<1>4. next \in Index /\ next \in Nat /\ it.want \in Index
  BY <1>1, <1>2, <1>3, Indices DEF CallOK
<1>5. PICK new \in Call :
        /\ caller' = [caller EXCEPT ![r] = new]
        /\ new.pc = "peek" /\ new.arg = next /\ new.for = "latest" /\ new.wait = PeekCommit(next)
        /\ new.next = next /\ new.depth = 0 /\ new.want = it.want /\ new.cursor = it.cursor
        /\ new.known = it.known
  <2> DEFINE new == [[it EXCEPT !.pc = "peek", !.arg = next, !.for = "latest", !.wait = PeekCommit(next)]
                     EXCEPT !.next = next]
  <2>1. caller' = [caller EXCEPT ![r] = new]
    BY <1>1, <1>3 DEF Next_, Goes, Peeking
  <2>2. PeekCommit(next) \in Nat
    BY <1>4, PeekedCommit
  <2>3. new \in Call
    BY <1>4, <2>2 DEF Call
  <2>4. /\ new.pc = "peek" /\ new.arg = next /\ new.for = "latest" /\ new.wait = PeekCommit(next)
        /\ new.next = next /\ new.depth = it.depth /\ new.want = it.want /\ new.cursor = it.cursor
        /\ new.known = it.known
    BY DEF Call
  <2> HIDE DEF new
  <2>5. QED
    BY <1>2, <2>1, <2>3, <2>4
<1>6. CallOK(new)
  <2>1. Place(new)
    BY <1>4, <1>5 DEF Place
  <2>2. /\ new.wait \in PromiseNumber
        /\ new.wait # 0 => Is(new.wait, "commit") /\ IndexOf(new.wait) = new.arg
        /\ new.wait \notin new.known => cached[new.arg] \notin new.known
    BY <1>1, <1>4, <1>5, PeekedCommit
  <2>3. /\ new.cursor \in PromiseNumber \ new.known /\ new.want \in Index
        /\ \A c \in new.known : Suspect(c)
    BY <1>1, <1>4, <1>5 DEF CallOK
  <2>4. QED
    BY <1>5, <2>1, <2>2, <2>3 DEF CallOK
<1>7. QED
  BY <1>5, <1>6, OnlyGoing DEF Next_
\* The parent index is there.
LEMMA ParentKeeps == ASSUME Inv, NEW r \in Caller, Parent(r) PROVE Inv'
<1>1. PICK it \in Call : it = caller[r] /\ CallOK(it) /\ 0 \notin it.known /\ it.known \in SUBSET Nat
  BY KnownTyped
<1>2. /\ it.pc = "parent" /\ it.wait \in DOMAIN promises /\ promises[it.wait].state = "ok"
      /\ promises[it.wait].kind = "parent" /\ promises[it.wait].arg = it.cursor
      /\ HasCursor(it) /\ it.depth \in 1 .. settings.commitDepth
      /\ IndexOf(it.cursor) = it.next - it.depth + 1 /\ it.want < IndexOf(it.cursor)
  BY <1>1, PromisesTyped
     DEF Parent, Resumes, At, Settled, Rejected, CallOK, Is, Inv, States
<1>3. PICK i \in Index : i = promises[it.wait].val /\ i = it.next - it.depth /\ it.want <= i
  <2>1. /\ IndexOf(it.cursor) > First /\ promises[it.wait].val = IndexOf(it.cursor) - 1
        /\ IndexOf(it.cursor) \in Index
    BY <1>2 DEF Inv, PromiseOK, HasCursor, Is, IndexOf
  <2>2. settings.commitDepth \in Nat
    BY Indices DEF Inv, Typed
  <2>3. it.next \in Nat /\ it.want \in Nat /\ it.depth \in Nat
    BY DEF Call
  <2>4. QED
    BY <1>2, <2>1, <2>2, <2>3, Indices DEF Index
<1>4. i \in Nat /\ it.want \in Index
  BY <1>1, <1>2, Indices DEF CallOK
<1>5. PICK new \in Call :
        /\ caller' = [caller EXCEPT ![r] = new]
        /\ new.pc = "peek" /\ new.arg = i /\ new.for = "parent" /\ new.wait = PeekCommit(i)
        /\ new.next = it.next /\ new.depth = it.depth /\ new.want = it.want /\ new.cursor = it.cursor
        /\ new.known = it.known
  <2> DEFINE new == [it EXCEPT !.pc = "peek", !.arg = i, !.for = "parent", !.wait = PeekCommit(i)]
  <2>1. caller' = [caller EXCEPT ![r] = new]
    BY <1>1, <1>3 DEF Parent, Goes, Peeking
  <2>2. PeekCommit(i) \in Nat
    BY PeekedCommit
  <2>3. new \in Call
    BY <1>4, <2>2 DEF Call
  <2>4. /\ new.pc = "peek" /\ new.arg = i /\ new.for = "parent" /\ new.wait = PeekCommit(i)
        /\ new.next = it.next /\ new.depth = it.depth /\ new.want = it.want /\ new.cursor = it.cursor
        /\ new.known = it.known
    BY DEF Call
  <2> HIDE DEF new
  <2>5. QED
    BY <2>1, <2>3, <2>4
<1>6. CallOK(new)
  <2>1. Place(new)
    BY <1>2, <1>3, <1>5 DEF Place
  <2>2. /\ new.wait \in PromiseNumber
        /\ new.wait # 0 => Is(new.wait, "commit") /\ IndexOf(new.wait) = new.arg
        /\ new.wait \notin new.known => cached[new.arg] \notin new.known
    BY <1>1, <1>5, PeekedCommit
  <2>3. /\ new.cursor \in PromiseNumber \ new.known /\ new.want \in Index
        /\ \A c \in new.known : Suspect(c)
    BY <1>1, <1>4, <1>5 DEF CallOK
  <2>4. QED
    BY <1>5, <2>1, <2>2, <2>3 DEF CallOK
<1>7. QED
  BY <1>5, <1>6, OnlyGoing DEF Parent

\* A call that moves on without another await knows what it knew.
LEMMA SameCall ==
    ASSUME Inv, NEW r \in Caller, NEW pc \in Ended \cup {"walk", "answer"},
           Goes(r, [caller[r] EXCEPT !.pc = pc])
    PROVE  \E new \in Call :
            /\ caller' = [caller EXCEPT ![r] = new]
            /\ new.pc = pc /\ new.want = caller[r].want /\ new.wait = caller[r].wait
            /\ new.next = caller[r].next /\ new.depth = caller[r].depth
            /\ new.cursor = caller[r].cursor /\ new.known = caller[r].known
<1> DEFINE new == [caller[r] EXCEPT !.pc = pc]
<1>1. caller[r] \in Call
  BY KnownTyped
<1>2. new \in Call
  BY <1>1 DEF Call
<1>3. /\ new.pc = pc /\ new.want = caller[r].want /\ new.wait = caller[r].wait
      /\ new.next = caller[r].next /\ new.depth = caller[r].depth
      /\ new.cursor = caller[r].cursor /\ new.known = caller[r].known
  BY <1>1 DEF Call
<1>4. caller' = [caller EXCEPT ![r] = new]
  BY DEF Goes
<1> HIDE DEF new
<1>5. QED
  BY <1>2, <1>3, <1>4

\* The answer is there.
LEMMA RespondKeeps == ASSUME Inv, NEW r \in Caller, Respond(r) PROVE Inv'
<1>1. PICK it \in Call : it = caller[r] /\ CallOK(it)
  BY KnownTyped
<1>2. PICK new \in Call :
        /\ caller' = [caller EXCEPT ![r] = new]
        /\ new.pc = "done" /\ new.want = it.want /\ new.wait = it.wait
        /\ new.next = it.next /\ new.depth = it.depth
        /\ new.cursor = it.cursor /\ new.known = it.known
  <2>1. Goes(r, [caller[r] EXCEPT !.pc = "done"])
    BY DEF Respond
  <2>2. PICK last \in Ended \cup {"walk", "answer"} : last = "done"
    BY DEF Ended
  <2>3. Goes(r, [caller[r] EXCEPT !.pc = last])
    BY <2>1, <2>2
  <2>4. QED
    BY <1>1, <2>2, <2>3, SameCall
<1>3. it.pc = "call" /\ promises[it.wait].state = "ok"
  BY <1>1, PromisesTyped DEF Respond, Resumes, At, Settled, Rejected, CallOK, Is, Inv, States
<1>4. CallOK(new)
  BY <1>1, <1>2, <1>3 DEF CallOK
<1>5. QED
  BY <1>2, <1>4, OnlyGoing DEF Respond

\* An await throws.
LEMMA ThrowsKeeps ==
    ASSUME Inv, NEW r \in Caller, NEW pc \in {"next", "peek", "commit", "parent", "call"}, Throws(r, pc)
    PROVE  Inv'
<1>1. PICK it \in Call : it = caller[r] /\ CallOK(it)
  BY KnownTyped
<1>2. PICK new \in Call :
        /\ caller' = [caller EXCEPT ![r] = new]
        /\ new.pc = "failed" /\ new.want = it.want /\ new.wait = it.wait
        /\ new.next = it.next /\ new.depth = it.depth
        /\ new.cursor = it.cursor /\ new.known = it.known
  <2>1. Goes(r, [caller[r] EXCEPT !.pc = "failed"])
    BY DEF Throws
  <2>2. PICK last \in Ended \cup {"walk", "answer"} : last = "failed"
    BY DEF Ended
  <2>3. Goes(r, [caller[r] EXCEPT !.pc = last])
    BY <2>1, <2>2
  <2>4. QED
    BY <1>1, <2>2, <2>3, SameCall
<1>3. it.pc # "start"
  BY <1>1 DEF Throws, At
<1>4. CallOK(new)
  BY <1>1, <1>2, <1>3 DEF CallOK
<1>5. QED
  BY <1>2, <1>4, OnlyGoing DEF Throws

----------------------------------------------------------------------------
\* The promise "new" is made, and that of the commit c becomes "it".
Replaces(new, c, it) == promises' = [Append(promises, new) EXCEPT ![c] = it]

\* A commit is given a promise that is made for it just now.
LEMMA Replacing ==
    ASSUME Inv, NEW c \in DOMAIN promises, NEW new \in Promise, NEW it \in Promise,
           Replaces(new, c, it), NEW n, n = NextId
    PROVE  /\ n \in Nat /\ n \notin DOMAIN promises /\ n # 0 /\ n = Len(promises')
           /\ promises' \in Seq(Promise) /\ DOMAIN promises' = DOMAIN promises \cup {n}
           /\ Len(promises') = Len(promises) + 1
           /\ promises'[n] = new /\ promises'[c] = it
           /\ \A p \in DOMAIN promises \ {c} : promises'[p] = promises[p]
<1>1. /\ promises \in Seq(Promise) /\ Len(promises) \in Nat /\ DOMAIN promises = 1 .. Len(promises)
  BY PromisesTyped DEF Inv, Typed
<1>3. PICK s \in Seq(Promise) :
        /\ s = Append(promises, new) /\ Len(s) = Len(promises) + 1
        /\ \A p \in 1 .. Len(promises) : s[p] = promises[p]
        /\ s[Len(promises) + 1] = new
  BY <1>1, AppendProperties
<1>4. c \in 1 .. Len(s)
  BY <1>1, <1>3
<1>5. /\ promises' \in Seq(Promise) /\ Len(promises') = Len(s)
      /\ \A j \in 1 .. Len(s) : promises'[j] = IF j = c THEN it ELSE s[j]
  <2>1. promises' = [s EXCEPT ![c] = it]
    BY <1>3 DEF Replaces
  <2>2. /\ [s EXCEPT ![c] = it] \in Seq(Promise)
        /\ Len([s EXCEPT ![c] = it]) = Len(s)
        /\ \A j \in 1 .. Len(s) : [s EXCEPT ![c] = it][j] = IF j = c THEN it ELSE s[j]
    BY <1>4, ExceptSeq
  <2>3. QED
    BY <2>1, <2>2
<1>6. DOMAIN promises' = 1 .. Len(promises) + 1
  BY <1>3, <1>5, LenProperties
<1>7. QED
  BY <1>1, <1>3, <1>5, <1>6 DEF NextId

\* A commit is asked for its parent.
AsksParent(c) ==
    promises' = [Made(promises[c].parent, "parent", c) EXCEPT ![c].parent = Joined(promises[c].parent)]

\* Who asks a commit for its parent awaits a promise that is about it.
LEMMA AskingParent ==
    ASSUME Inv, NEW c, Is(c, "commit"), promises[c].state = "ok", version' = version,
           AsksParent(c),
           NEW w, w = Joined(promises[c].parent).p
    PROVE  /\ promises' \in Seq(Promise) /\ DOMAIN promises \subseteq DOMAIN promises'
           /\ Kept /\ \A p \in DOMAIN promises' : PromiseOK(p)'
           /\ \A p \in DOMAIN promises :
                /\ promises'[p].kind = promises[p].kind /\ promises'[p].arg = promises[p].arg
                /\ promises'[p].state = promises[p].state
           /\ \A p \in DOMAIN promises' \ DOMAIN promises : promises'[p].kind # "call"
           /\ w \in Nat /\ w \in PromiseNumber' /\ Is(w, "parent")' /\ promises'[w].arg = c
<1>1. /\ promises \in Seq(Promise) /\ Len(promises) \in Nat /\ DOMAIN promises = 1 .. Len(promises)
      /\ \A p \in DOMAIN promises :
            promises[p] \in Promise /\ promises[p].parent.p \in Nat /\ promises[p].state \in States
      /\ version \in [Index -> Nat] /\ \A i \in Index : version[i] <= version'[i]
  BY PromisesTyped DEF Inv, Typed
<1>2. c \in DOMAIN promises /\ promises[c].kind = "commit"
  BY DEF Is
<1>3. CASE Usable(promises[c].parent)
  <2>1. promises' = promises
    BY <1>1, <1>2, <1>3 DEF AsksParent, Made, Joined, Promise
  <2>2. w = promises[c].parent.p /\ w # 0 /\ Is(w, "parent") /\ promises[w].arg = c
    BY <1>2, <1>3 DEF Usable, Joined, Inv, PromiseOK
  <2>3. Kept /\ \A p \in DOMAIN promises' : PromiseOK(p)'
    BY <1>1, <2>1, SamePromises
  <2>4. w \in Nat /\ w \in PromiseNumber' /\ Is(w, "parent")' /\ promises'[w].arg = c
    BY <1>1, <2>1, <2>2 DEF Is, PromiseNumber
  <2>5. QED
    BY <1>1, <2>1, <2>3, <2>4
<1>4. CASE ~Usable(promises[c].parent)
  <2>0. PICK n \in Nat : n = NextId
    BY <1>1 DEF NextId
  <2>12. PICK new \in Promise : new = Promised("parent", c)
    <3>1. "parent" \in Kinds /\ c \in Nat
      BY <1>1, <1>2 DEF Kinds
    <3>2. QED
      BY <3>1, PromisedTyped
  <2>1. PICK it \in Promise :
            /\ Replaces(new, c, it)
            /\ it.kind = promises[c].kind /\ it.arg = promises[c].arg /\ it.state = promises[c].state
            /\ it.val = promises[c].val /\ it.of = promises[c].of /\ it.valid = promises[c].valid
            /\ it.parent = CV(n)
    <3> DEFINE it == [promises[c] EXCEPT !.parent = CV(n)]
    <3>2. CV(n) \in Cached
      BY <2>0 DEF CV, Cached
    <3>3. promises[c] \in Promise
      BY <1>1, <1>2
    <3>4. it \in Promise
      BY <3>2, <3>3 DEF Promise
    <3>5. /\ it.kind = promises[c].kind /\ it.arg = promises[c].arg /\ it.state = promises[c].state
          /\ it.val = promises[c].val /\ it.of = promises[c].of /\ it.valid = promises[c].valid
          /\ it.parent = CV(n)
      BY <3>3 DEF Promise
    <3>6. Append(promises, new)[c] = promises[c]
      BY <1>1, <1>2, AppendProperties
    <3>7. Replaces(new, c, it)
      <4>1. promises' = [Append(promises, new) EXCEPT ![c].parent = CV(n)]
        BY <1>4, <2>0, <2>12 DEF AsksParent, Made, Joined
      <4>2. QED
        BY <3>6, <4>1 DEF Replaces
    <3> HIDE DEF it
    <3>8. QED
      BY <3>4, <3>5, <3>7
  <2>2. /\ n \in Nat /\ n \notin DOMAIN promises /\ n # 0 /\ n = Len(promises')
        /\ promises' \in Seq(Promise) /\ DOMAIN promises' = DOMAIN promises \cup {n}
        /\ Len(promises') = Len(promises) + 1
        /\ promises'[n] = new /\ promises'[c] = it
        /\ \A p \in DOMAIN promises \ {c} : promises'[p] = promises[p]
    <3>1. c \in DOMAIN promises /\ n = NextId /\ Replaces(new, c, it) /\ Inv
      BY <1>2, <2>0, <2>1
    <3>2. n \in Nat /\ n \notin DOMAIN promises /\ n # 0
      BY <3>1, Replacing, ZenonT(60)
    <3>3. /\ promises'[n] = new /\ promises'[c] = it
      BY <3>1, Replacing, ZenonT(60)
    <3>4. /\ \A p \in DOMAIN promises \ {c} : promises'[p] = promises[p]
      BY <3>1, Replacing, ZenonT(60)
    <3>5. /\ promises' \in Seq(Promise) /\ DOMAIN promises' = DOMAIN promises \cup {n}
      BY <3>1, Replacing, ZenonT(60)
    <3>6. Len(promises') = Len(promises) + 1 /\ n = Len(promises')
      BY <3>1, Replacing, ZenonT(60)
    <3> QED BY <3>2, <3>3, <3>4, <3>5, <3>6
  <2>3. /\ new.kind = "parent" /\ new.arg = c
        /\ new.state = "running"
        /\ new.valid.p = 0 /\ new.parent.p = 0
        /\ CV(n).p = n
    BY <2>12 DEF Promised, CV
  <2>4. w = n
    BY <1>4, <2>0, <2>3 DEF Joined
  <2>5. \A p \in DOMAIN promises :
            /\ promises'[p].kind = promises[p].kind /\ promises'[p].arg = promises[p].arg
            /\ promises'[p].state = promises[p].state /\ promises'[p].val = promises[p].val
            /\ promises'[p].of = promises[p].of /\ promises'[p].valid = promises[p].valid
            /\ p = c \/ promises'[p].parent = promises[p].parent
    BY <2>1, <2>2
  <2>6. Kept
    <3>1. /\ promises' \in Seq(Promise) /\ Len(promises') >= Len(promises)
          /\ version' \in [Index -> Nat] /\ \A i \in Index : version[i] <= version'[i]
      BY <1>1, <2>2
    <3>2. QED
      BY <2>5, <3>1 DEF Kept
  <2>7. Is(n, "parent")' /\ promises'[c].parent.p = n /\ promises'[n].arg = c
    BY <2>1, <2>2, <2>3 DEF Is
  <2>8. ASSUME NEW p \in DOMAIN promises PROVE PromiseOK(p)'
    <3>1. \/ promises'[p].parent.p = promises[p].parent.p
          \/ Is(promises[p].parent.p, "parent")' /\ promises'[promises'[p].parent.p].arg = p
      BY <2>2, <2>3, <2>5, <2>7 DEF Is
    <3>2. DOMAIN promises \subseteq DOMAIN promises'
      BY <2>2
    <3>3. QED
      BY <1>1, <2>2, <2>5, <3>1, <3>2, PromiseStays
  <2>9. PromiseOK(n)'
    <3>1. Is(c, "commit")' /\ promises'[c].state = "ok"
      BY <1>2, <2>2, <2>5 DEF Is
    <3>2. QED
      BY <2>2, <2>3, <3>1 DEF PromiseOK
  <2>10. n \in PromiseNumber'
    BY <1>1, <2>2 DEF PromiseNumber
  <2>11. QED
    BY <2>2, <2>3, <2>4, <2>5, <2>6, <2>7, <2>8, <2>9, <2>10
<1>5. QED
  BY <1>3, <1>4

\* A commit is asked for its verdict.
AsksValid(c) ==
    promises' = [Made(promises[c].valid, "valid", c) EXCEPT ![c].valid = Joined(promises[c].valid)]

\* Who asks a commit for its verdict awaits the one it has, or a new one.
LEMMA AskingValid ==
    ASSUME Inv, NEW c, Is(c, "commit"), promises[c].state = "ok", version' = version,
           AsksValid(c), NEW w, w = Joined(promises[c].valid).p
    PROVE  /\ promises' \in Seq(Promise) /\ DOMAIN promises \subseteq DOMAIN promises'
           /\ Kept /\ \A p \in DOMAIN promises' : PromiseOK(p)'
           /\ \A p \in DOMAIN promises :
                /\ promises'[p].kind = promises[p].kind /\ promises'[p].arg = promises[p].arg
                /\ promises'[p].state = promises[p].state
           /\ \A p \in DOMAIN promises' \ DOMAIN promises : promises'[p].kind # "call"
           /\ w \in Nat /\ w \in PromiseNumber' /\ Is(w, "valid")'
           /\ \/ w = promises[c].valid.p /\ promises' = promises /\ Usable(promises[c].valid)
              \/ BadVerdict(w, c)'
<1>1. /\ promises \in Seq(Promise) /\ Len(promises) \in Nat /\ DOMAIN promises = 1 .. Len(promises)
      /\ \A p \in DOMAIN promises :
            promises[p] \in Promise /\ promises[p].valid.p \in Nat /\ promises[p].state \in States
      /\ version \in [Index -> Nat] /\ \A i \in Index : version[i] <= version'[i]
      /\ TruePromise \in DOMAIN promises
  BY PromisesTyped DEF Inv, Typed, CachesOK, Is
<1>2. c \in DOMAIN promises /\ promises[c].kind = "commit"
  BY DEF Is
<1>3. CASE Usable(promises[c].valid)
  <2>1. promises' = promises
    BY <1>1, <1>2, <1>3 DEF AsksValid, Made, Joined, Promise
  <2>2. w = promises[c].valid.p /\ w # 0 /\ Is(w, "valid")
    BY <1>2, <1>3 DEF Usable, Joined, Inv, PromiseOK
  <2>3. Kept /\ \A p \in DOMAIN promises' : PromiseOK(p)'
    BY <1>1, <2>1, SamePromises
  <2>4. w \in Nat /\ w \in PromiseNumber' /\ Is(w, "valid")'
    BY <1>1, <2>1, <2>2 DEF Is, PromiseNumber
  <2>5. QED
    BY <1>1, <1>3, <2>1, <2>2, <2>3, <2>4
<1>4. CASE ~Usable(promises[c].valid)
  <2>1. PICK n \in Nat : n = NextId
    BY <1>1 DEF NextId
  <2>2. PICK new \in Promise : new = Promised("valid", c)
    <3>1. "valid" \in Kinds /\ c \in Nat
      BY <1>1, <1>2 DEF Kinds
    <3>2. QED
      BY <3>1, PromisedTyped
  <2>3. PICK it \in Promise :
            /\ Replaces(new, c, it)
            /\ it.kind = promises[c].kind /\ it.arg = promises[c].arg /\ it.state = promises[c].state
            /\ it.val = promises[c].val /\ it.of = promises[c].of /\ it.parent = promises[c].parent
            /\ it.valid = CV(n)
    <3> DEFINE it == [promises[c] EXCEPT !.valid = CV(n)]
    <3>1. CV(n) \in Cached
      BY <2>1 DEF CV, Cached
    <3>2. promises[c] \in Promise
      BY <1>1, <1>2
    <3>3. it \in Promise
      BY <3>1, <3>2 DEF Promise
    <3>4. /\ it.kind = promises[c].kind /\ it.arg = promises[c].arg /\ it.state = promises[c].state
          /\ it.val = promises[c].val /\ it.of = promises[c].of /\ it.parent = promises[c].parent
          /\ it.valid = CV(n)
      BY <3>2 DEF Promise
    <3>5. Append(promises, new)[c] = promises[c]
      BY <1>1, <1>2, AppendProperties
    <3>6. Replaces(new, c, it)
      <4>1. promises' = [Append(promises, new) EXCEPT ![c].valid = CV(n)]
        BY <1>4, <2>1, <2>2 DEF AsksValid, Made, Joined
      <4>2. QED
        BY <3>5, <4>1 DEF Replaces
    <3> HIDE DEF it
    <3>7. QED
      BY <3>3, <3>4, <3>6
  <2>4. /\ n \in Nat /\ n \notin DOMAIN promises /\ n # 0 /\ n = Len(promises')
        /\ promises' \in Seq(Promise) /\ DOMAIN promises' = DOMAIN promises \cup {n}
        /\ Len(promises') = Len(promises) + 1
        /\ promises'[n] = new /\ promises'[c] = it
        /\ \A p \in DOMAIN promises \ {c} : promises'[p] = promises[p]
    <3>1. c \in DOMAIN promises /\ n = NextId /\ Replaces(new, c, it) /\ Inv
      BY <1>2, <2>1, <2>3
    <3>2. n \in Nat /\ n \notin DOMAIN promises /\ n # 0 /\ n = Len(promises')
      BY <3>1, Replacing, ZenonT(60)
    <3>3. promises'[n] = new /\ promises'[c] = it
      BY <3>1, Replacing, ZenonT(60)
    <3>4. \A p \in DOMAIN promises \ {c} : promises'[p] = promises[p]
      BY <3>1, Replacing, ZenonT(60)
    <3>5. promises' \in Seq(Promise) /\ DOMAIN promises' = DOMAIN promises \cup {n}
      BY <3>1, Replacing, ZenonT(60)
    <3>6. Len(promises') = Len(promises) + 1
      BY <3>1, Replacing, ZenonT(60)
    <3>7. QED
      BY <3>2, <3>3, <3>4, <3>5, <3>6
  <2>5. /\ new.kind = "valid" /\ new.arg = c /\ new.state = "running"
        /\ new.valid.p = 0 /\ new.parent.p = 0 /\ CV(n).p = n
    BY <2>2 DEF Promised, CV
  <2>6. w = n
    BY <1>4, <2>1, <2>5 DEF Joined
  <2>7. \A p \in DOMAIN promises :
            /\ promises'[p].kind = promises[p].kind /\ promises'[p].arg = promises[p].arg
            /\ promises'[p].state = promises[p].state /\ promises'[p].val = promises[p].val
            /\ promises'[p].of = promises[p].of /\ promises'[p].parent = promises[p].parent
            /\ p = c \/ promises'[p].valid = promises[p].valid
    BY <2>3, <2>4
  <2>8. Is(n, "valid")' /\ promises'[c].valid.p = n /\ promises'[n].arg = c
        /\ promises'[n].kind = "valid" /\ promises'[n].state = "running"
    BY <2>3, <2>4, <2>5 DEF Is
  <2>9. Kept
    <3>1. /\ promises' \in Seq(Promise) /\ Len(promises') >= Len(promises)
          /\ version' \in [Index -> Nat] /\ \A i \in Index : version[i] <= version'[i]
      BY <1>1, <2>4
    <3>2. n \in DOMAIN promises' \ DOMAIN promises
      BY <2>4
    <3>3. QED
      BY <2>7, <2>8, <3>1, <3>2 DEF Kept
  <2>10. ASSUME NEW p \in DOMAIN promises PROVE PromiseOK(p)'
    <3>1. \/ promises'[p].valid.p = promises[p].valid.p
          \/ /\ Is(promises[p].valid.p, "valid")' /\ promises'[promises'[p].valid.p].arg = p
             /\ promises'[p].valid.p # 0
      BY <2>4, <2>5, <2>7, <2>8 DEF Is
    <3>2. DOMAIN promises \subseteq DOMAIN promises'
      BY <2>4
    <3>3. QED
      BY <1>1, <2>4, <2>7, <3>1, <3>2, PromiseStays
  <2>11. PromiseOK(n)'
    <3>1. Is(c, "commit")' /\ promises'[c].state = "ok"
      BY <1>2, <2>4, <2>7 DEF Is
    <3>2. QED
      BY <2>4, <2>5, <3>1 DEF PromiseOK
  <2>12. n \in PromiseNumber' /\ BadVerdict(n, c)'
    BY <1>1, <2>4, <2>8 DEF PromiseNumber, BadVerdict
  <2>13. QED
    BY <2>4, <2>5, <2>6, <2>7, <2>8, <2>9, <2>10, <2>11, <2>12
<1>5. QED
  BY <1>3, <1>4

\* A step of the call r that asks a commit for its parent or its verdict, and
\* changes no cache but those of the commit.
LEMMA Asking ==
    ASSUME Inv, NEW r \in Caller, NEW new \in Call, caller' = [caller EXCEPT ![r] = new],
           promises' \in Seq(Promise), DOMAIN promises \subseteq DOMAIN promises',
           Kept, \A p \in DOMAIN promises' : PromiseOK(p)',
           \A p \in DOMAIN promises :
                /\ promises'[p].kind = promises[p].kind /\ promises'[p].arg = promises[p].arg
                /\ promises'[p].state = promises[p].state,
           \A p \in DOMAIN promises' \ DOMAIN promises : promises'[p].kind # "call",
           UNCHANGED <<settings, latest, version, latestCache, pending, cached, calls, expiries>>,
           CallOK(new)'
    PROVE  Inv'
<1>1. Typed'
  BY DEF Inv, Typed
<1>2. Forward
  BY DEF Forward
<1>3. CachesOK'
  BY CachesStay
<1>4. QED
  BY <1>1, <1>2, <1>3, Going

\* The commit that was there is asked for its verdict.
LEMMA PeekedThere ==
    ASSUME Inv, NEW r \in Caller, Peeked(r), caller[r].wait # 0 PROVE Inv'
<1>1. PICK it \in Call : it = caller[r] /\ CallOK(it) /\ 0 \notin it.known /\ it.known \in SUBSET Nat
  BY KnownTyped
<1>2. PICK c \in DOMAIN promises : c = it.wait
  BY <1>1 DEF Peeked, Resumes, At, CallOK, Is
<1>3. /\ it.pc = "peek" /\ Is(c, "commit") /\ promises[c].state = "ok"
      /\ IndexOf(c) = it.arg /\ (c \notin it.known => cached[it.arg] \notin it.known)
      /\ Place(it)
  BY <1>1, <1>2, PromisesTyped
     DEF Peeked, Resumes, At, Settled, Rejected, CallOK, Inv, States, Is
<1>4. PICK w : w = Joined(promises[c].valid).p
  OBVIOUS
<1>5. /\ AsksValid(c) /\ Goes(r, [it EXCEPT !.pc = "valid", !.wait = w])
      /\ UNCHANGED <<settings, latest, version, latestCache, pending, cached, calls, expiries>>
  BY <1>1, <1>2, <1>4 DEF Peeked, AsksValid
<1>6. /\ promises' \in Seq(Promise) /\ DOMAIN promises \subseteq DOMAIN promises'
      /\ Kept /\ \A p \in DOMAIN promises' : PromiseOK(p)'
      /\ \A p \in DOMAIN promises :
            /\ promises'[p].kind = promises[p].kind /\ promises'[p].arg = promises[p].arg
            /\ promises'[p].state = promises[p].state
      /\ \A p \in DOMAIN promises' \ DOMAIN promises : promises'[p].kind # "call"
  BY <1>3, <1>4, <1>5, AskingValid
<1>7. /\ w \in Nat /\ w \in PromiseNumber' /\ Is(w, "valid")'
      /\ \/ w = promises[c].valid.p /\ promises' = promises /\ Usable(promises[c].valid)
         \/ BadVerdict(w, c)'
  BY <1>3, <1>4, <1>5, AskingValid
<1>8. PICK new \in Call :
        /\ caller' = [caller EXCEPT ![r] = new]
        /\ new.pc = "valid" /\ new.arg = it.arg /\ new.for = it.for /\ new.wait = w
        /\ new.next = it.next /\ new.depth = it.depth /\ new.want = it.want
        /\ new.cursor = it.cursor /\ new.known = it.known
  <2> DEFINE new == [it EXCEPT !.pc = "valid", !.wait = w]
  <2>1. caller' = [caller EXCEPT ![r] = new]
    BY <1>5 DEF Goes
  <2>2. new \in Call
    BY <1>7 DEF Call
  <2>3. /\ new.pc = "valid" /\ new.arg = it.arg /\ new.for = it.for /\ new.wait = w
        /\ new.next = it.next /\ new.depth = it.depth /\ new.want = it.want
        /\ new.cursor = it.cursor /\ new.known = it.known
    BY DEF Call
  <2> HIDE DEF new
  <2>4. QED
    BY <2>1, <2>2, <2>3
<1>9. CallOK(it)'
  <2>1. Forward
    BY <1>5 DEF Forward
  <2>2. QED
    BY <1>1, <1>5, <1>6, <2>1, CallStays DEF Inv
<1>10. cached'[it.arg] \notin it.known \/ \E k \in it.known : BadVerdict(w, k)'
  <2>1. CASE c \notin it.known
    BY <1>3, <1>5, <2>1
  <2>2. CASE c \in it.known /\ BadVerdict(w, c)'
    BY <2>2
  <2>3. CASE c \in it.known /\ w = promises[c].valid.p /\ promises' = promises /\ Usable(promises[c].valid)
    <3>1. Suspect(c)
      BY <1>1, <2>3 DEF CallOK
    <3>2. ~(Settled(w) /\ ~promises[c].valid.fresh)
      <4>1. w \in DOMAIN promises
        BY <1>3, <2>3 DEF Inv, PromiseOK, Is, Usable
      <4>2. QED
        BY <2>3, <4>1 DEF Settled, Usable
    <3>3. BadVerdict(w, c)
      BY <2>3, <3>1, <3>2 DEF Suspect
    <3>4. BadVerdict(w, c)'
      BY <2>3, <3>3 DEF BadVerdict, Is
    <3>5. QED
      BY <2>3, <3>4
  <2>4. QED
    BY <1>7, <2>1, <2>2, <2>3
<1>11. CallOK(new)'
  <2>1. Place(new)'
    BY <1>3, <1>5, <1>8 DEF Place
  <2>2. /\ new.cursor \in PromiseNumber' \ new.known /\ new.want \in Index
        /\ \A k \in new.known : Suspect(k)'
    BY <1>3, <1>8, <1>9 DEF CallOK
  <2>3. QED
    BY <1>7, <1>8, <1>10, <2>1, <2>2 DEF CallOK
<1>12. QED
  BY <1>5, <1>6, <1>8, <1>11, Asking

\* A call gets the commit that is there for its index or on its way, or else a
\* new one.  What it gets was not there when the call began, or is not outdated.
LEMMA GettingCommit ==
    ASSUME Inv, NEW r \in Caller, NEW isDeleted \in BOOLEAN, GetCommit(r, isDeleted),
           caller[r].pc \in {"peek", "valid"},
           ~isDeleted => cached[caller[r].arg] \notin caller[r].known
    PROVE  Inv'
<1>1. PICK it \in Call : it = caller[r] /\ CallOK(it) /\ 0 \notin it.known /\ it.known \in SUBSET Nat
                         /\ \A c \in it.known : c \in DOMAIN promises /\ promises[c].state = "ok"
  BY KnownTyped
<1>2. PICK i \in Index : i = it.arg /\ i \in Nat
  BY <1>1, Indices DEF CallOK, Place
<1>3. /\ promises \in Seq(Promise) /\ Len(promises) \in Nat /\ DOMAIN promises = 1 .. Len(promises)
      /\ cached \in [Index -> Nat] /\ pending \in [Index -> Nat]
  BY PromisesTyped DEF Inv, Typed
<1>4. UNCHANGED <<settings, latest, version, latestCache, calls, expiries>>
  BY DEF GetCommit
<1>5. PICK n \in Nat : n = NextId
  BY <1>3 DEF NextId
<1>6. ASSUME NEW w \in Nat, Goes(r, [it EXCEPT !.pc = "commit", !.wait = w])
      PROVE  \E new \in Call :
                /\ caller' = [caller EXCEPT ![r] = new]
                /\ new.pc = "commit" /\ new.arg = it.arg /\ new.for = it.for /\ new.wait = w
                /\ new.next = it.next /\ new.depth = it.depth /\ new.want = it.want
                /\ new.cursor = it.cursor /\ new.known = it.known
  <2> DEFINE new == [it EXCEPT !.pc = "commit", !.wait = w]
  <2>1. caller' = [caller EXCEPT ![r] = new]
    BY <1>6 DEF Goes
  <2>2. new \in Call
    BY DEF Call
  <2>3. /\ new.pc = "commit" /\ new.arg = it.arg /\ new.for = it.for /\ new.wait = w
        /\ new.next = it.next /\ new.depth = it.depth /\ new.want = it.want
        /\ new.cursor = it.cursor /\ new.known = it.known
    BY DEF Call
  <2> HIDE DEF new
  <2>4. QED
    BY <2>1, <2>2, <2>3
<1>7. CASE ~isDeleted /\ PeekCommit(i) # 0
  <2>1. PICK w \in Nat : w = PeekCommit(i)
    BY PeekedCommit
  <2>2. /\ Goes(r, [it EXCEPT !.pc = "commit", !.wait = w])
        /\ UNCHANGED <<promises, pending, cached>>
    BY <1>1, <1>2, <1>7, <2>1 DEF GetCommit
  <2>3. PICK new \in Call :
            /\ caller' = [caller EXCEPT ![r] = new]
            /\ new.pc = "commit" /\ new.arg = it.arg /\ new.for = it.for /\ new.wait = w
            /\ new.next = it.next /\ new.depth = it.depth /\ new.want = it.want
            /\ new.cursor = it.cursor /\ new.known = it.known
    BY <1>6, <2>2
  <2>4. w \in PromiseNumber /\ Is(w, "commit") /\ IndexOf(w) = i
    BY <1>7, <2>1, PeekedCommit
  <2>5. w \notin it.known
    <3>1. cached[i] # 0 => w = cached[i]
      BY <2>1 DEF PeekCommit
    <3>2. cached[i] = 0 => w = pending[i] /\ w # 0
      BY <1>7, <2>1 DEF PeekCommit
    <3>3. cached[i] = 0 => promises[w].state = "running"
      BY <3>2 DEF Inv, CachesOK
    <3>4. QED
      BY <1>1, <1>2, <1>7, <3>1, <3>3
  <2>6. Place(new)
    BY <1>1, <2>3 DEF CallOK, Place
  <2>7. CallOK(new)
    BY <1>1, <1>2, <2>3, <2>4, <2>5, <2>6 DEF CallOK
  <2>8. QED
    BY <1>4, <2>2, <2>3, <2>7, OnlyGoing
<1>8. CASE isDeleted \/ PeekCommit(i) = 0
  <2>1. PICK brief \in BOOLEAN : brief = (it.for = "historical")
    OBVIOUS
  <2>2. /\ Goes(r, [it EXCEPT !.pc = "commit", !.wait = n])
        /\ promises' = Append(promises, [Promised("commit", i) EXCEPT !.brief = brief])
        /\ pending' = [pending EXCEPT ![i] = n]
        /\ cached' = IF isDeleted THEN [cached EXCEPT ![i] = 0] ELSE cached
    BY <1>1, <1>2, <1>5, <1>8, <2>1 DEF GetCommit
  <2>3. PICK made \in Promise :
            /\ promises' = Append(promises, made)
            /\ made.kind = "commit" /\ made.arg = i /\ made.state = "running"
            /\ made.valid.p = 0 /\ made.parent.p = 0
    <3> DEFINE made == [Promised("commit", i) EXCEPT !.brief = brief]
    <3>1. /\ Promised("commit", i) \in Promise
          /\ Promised("commit", i).kind = "commit" /\ Promised("commit", i).arg = i
          /\ Promised("commit", i).state = "running"
          /\ Promised("commit", i).valid.p = 0 /\ Promised("commit", i).parent.p = 0
      <4>1. "commit" \in Kinds
        BY DEF Kinds
      <4>2. QED
        BY <1>2, <4>1, PromisedTyped
    <3>2. made \in Promise
      BY <3>1 DEF Promise
    <3>3. /\ made.kind = "commit" /\ made.arg = i /\ made.state = "running"
          /\ made.valid.p = 0 /\ made.parent.p = 0
      BY <3>1 DEF Promise
    <3>4. promises' = Append(promises, made)
      BY <2>2
    <3> HIDE DEF made
    <3>5. QED
      BY <3>2, <3>3, <3>4
  <2>4. /\ n \notin DOMAIN promises /\ n # 0
        /\ promises' \in Seq(Promise) /\ DOMAIN promises' = DOMAIN promises \cup {n}
        /\ Len(promises') = n /\ promises'[n] = made
        /\ \A p \in DOMAIN promises : promises'[p] = promises[p] /\ PromiseOK(p)'
        /\ Kept
    BY <1>4, <1>5, <2>3, Appending
  <2>5. PromiseOK(n)'
    BY <2>3, <2>4 DEF PromiseOK
  <2>6. \A p \in DOMAIN promises' : PromiseOK(p)'
    BY <2>4, <2>5
  <2>7. PICK new \in Call :
            /\ caller' = [caller EXCEPT ![r] = new]
            /\ new.pc = "commit" /\ new.arg = it.arg /\ new.for = it.for /\ new.wait = n
            /\ new.next = it.next /\ new.depth = it.depth /\ new.want = it.want
            /\ new.cursor = it.cursor /\ new.known = it.known
    BY <1>6, <2>2
  <2>8. \A j \in Index : /\ cached'[j] \in {cached[j], 0}
                         /\ pending'[j] = IF j = i THEN n ELSE pending[j]
    BY <1>3, <2>2
  <2>9. Typed'
    <3>1. cached' \in [Index -> Nat] /\ pending' \in [Index -> Nat]
      BY <1>3, <2>2
    <3>2. caller' \in [Caller -> Call]
      BY <2>7 DEF Inv, Typed
    <3>3. QED
      BY <1>4, <2>4, <3>1, <3>2 DEF Inv, Typed
  <2>10. Is(n, "commit")' /\ IndexOf(n)' = i /\ promises'[n].state = "running"
    BY <2>3, <2>4 DEF Is, IndexOf
  <2>11. CachesOK'
    <3>1. DOMAIN promises \subseteq DOMAIN promises'
      BY <2>4
    <3>2. \A q \in DOMAIN promises' \ DOMAIN promises : promises'[q].kind # "call"
      BY <2>3, <2>4
    <3>3. \A q \in DOMAIN promises :
            /\ promises'[q].kind = promises[q].kind /\ promises'[q].arg = promises[q].arg
            /\ promises'[q].state = promises[q].state
      BY <2>4
    <3>4. \A j \in Index :
            /\ cached'[j] \in {cached[j], 0}
            /\ \/ pending'[j] \in {pending[j], 0}
               \/ /\ Is(pending[j], "commit")' /\ IndexOf(pending[j])' = j
                  /\ promises'[pending'[j]].state = "running"
      BY <2>8, <2>10 DEF Is, IndexOf
    <3>5. latestCache' = latestCache /\ calls' = calls /\ settings' = settings
      BY <1>4
    <3>6. QED
      BY <2>4, <3>1, <3>2, <3>3, <3>4, <3>5, CachesStay
  <2>12. Forward
    BY <2>8 DEF Forward
  <2>13. CallOK(it)'
    BY <1>1, <1>4, <2>4, <2>12, CallStays DEF Inv
  <2>14. CallOK(new)'
    <3>1. Place(new)'
      BY <1>1, <1>4, <2>7 DEF CallOK, Place
    <3>2. n \notin new.known /\ n \in PromiseNumber'
      BY <1>1, <1>3, <2>4, <2>7 DEF PromiseNumber
    <3>3. /\ new.cursor \in PromiseNumber' \ new.known /\ new.want \in Index
          /\ \A k \in new.known : Suspect(k)'
      BY <1>1, <2>7, <2>13 DEF CallOK
    <3>4. QED
      BY <1>2, <2>7, <2>10, <3>1, <3>2, <3>3 DEF CallOK
  <2>15. QED
    BY <1>4, <2>4, <2>6, <2>7, <2>9, <2>11, <2>12, <2>14, Going
<1>9. QED
  BY <1>7, <1>8

\* The commit that was there, if any, is there to be asked for its verdict.
LEMMA PeekedKeeps == ASSUME Inv, NEW r \in Caller, Peeked(r) PROVE Inv'
<1>1. CASE caller[r].wait # 0
  BY <1>1, PeekedThere
<1>2. CASE caller[r].wait = 0
  <2>1. GetCommit(r, FALSE) /\ caller[r].pc = "peek"
    BY <1>2 DEF Peeked, Resumes, At
  <2>2. cached[caller[r].arg] \notin caller[r].known
    BY <1>2, <2>1, KnownTyped DEF CallOK
  <2>3. QED
    BY <2>1, <2>2, GettingCommit
<1>3. QED
  BY <1>1, <1>2

\* The verdict on it is there.
LEMMA ValidatedKeeps == ASSUME Inv, NEW r \in Caller, Validated(r) PROVE Inv'
<1>1. PICK it \in Call : it = caller[r] /\ CallOK(it)
  BY KnownTyped
<1>2. PICK isDeleted \in BOOLEAN : isDeleted = Invalid(it.wait)
  BY DEF Invalid, Rejected
<1>3. GetCommit(r, isDeleted) /\ it.pc = "valid" /\ Settled(it.wait)
  BY <1>1, <1>2 DEF Validated, At
<1>4. ASSUME ~isDeleted PROVE cached[it.arg] \notin it.known
  <2>1. it.wait \in DOMAIN promises
    BY <1>1, <1>3 DEF CallOK, Is
  <2>2. promises[it.wait].state \notin {"running", "err"} /\ promises[it.wait].val # 0
    BY <1>2, <1>3, <1>4, <2>1 DEF Invalid, Settled, Rejected
  <2>3. \A c \in it.known : ~BadVerdict(it.wait, c)
    BY <2>2 DEF BadVerdict
  <2>4. QED
    BY <1>1, <1>3, <2>3 DEF CallOK
<1>5. QED
  BY <1>1, <1>3, <1>4, GettingCommit

\* The commit is there, and old ones are purged.
LEMMA CommitKeeps == ASSUME Inv, NEW r \in Caller, Commit(r) PROVE Inv'
<1>1. PICK it \in Call : it = caller[r] /\ CallOK(it)
  BY KnownTyped
<1>2. /\ it.pc = "commit" /\ Is(it.wait, "commit") /\ promises[it.wait].state = "ok"
      /\ IndexOf(it.wait) = it.arg /\ it.wait \notin it.known /\ Place(it)
      /\ it.wait \in PromiseNumber
  BY <1>1, PromisesTyped
     DEF Commit, Resumes, At, Settled, Rejected, CallOK, Is, Inv, States
<1>3. PICK pc \in {"answer", "walk"} : pc = IF it.for = "historical" THEN "answer" ELSE "walk"
  OBVIOUS
<1>4. PICK new \in Call :
        /\ caller' = [caller EXCEPT ![r] = new]
        /\ new.pc = pc /\ new.cursor = it.wait /\ new.wait = 0
        /\ new.next = it.next /\ new.depth = it.depth /\ new.want = it.want
        /\ new.known = it.known
  <2> DEFINE new == [it EXCEPT !.pc = pc, !.cursor = it.wait, !.wait = 0]
  <2>1. caller' = [caller EXCEPT ![r] = new]
    BY <1>1, <1>3 DEF Commit, Goes
  <2>2. new \in Call
    BY DEF Call
  <2>3. /\ new.pc = pc /\ new.cursor = it.wait /\ new.wait = 0
        /\ new.next = it.next /\ new.depth = it.depth /\ new.want = it.want
        /\ new.known = it.known
    BY DEF Call
  <2> HIDE DEF new
  <2>4. QED
    BY <2>1, <2>2, <2>3
<1>5. UNCHANGED <<settings, latest, version, promises, latestCache, calls, expiries>>
  BY DEF Commit
<1>6. /\ cached' \in [Index -> Nat] /\ pending' \in [Index -> Nat]
      /\ \A i \in Index : cached'[i] \in {cached[i], 0} /\ pending'[i] \in {pending[i], 0}
  <2>1. cached \in [Index -> Nat] /\ pending \in [Index -> Nat]
    BY DEF Inv, Typed
  <2>2. /\ cached' = [i \in Index |-> IF i \in Purged(r) THEN 0 ELSE cached[i]]
        /\ pending' = [i \in Index |-> IF i \in Purged(r) THEN 0 ELSE pending[i]]
    BY DEF Commit
  <2>3. QED
    BY <2>1, <2>2
<1>7. Typed'
  <2>1. caller' \in [Caller -> Call]
    BY <1>4 DEF Inv, Typed
  <2>2. QED
    BY <1>5, <1>6, <2>1 DEF Inv, Typed
<1>8. CachesOK'
  <2>1. promises' \in Seq(Promise)
    BY <1>7 DEF Typed
  <2>2. QED
    BY <1>5, <1>6, <2>1, CachesStay
<1>9. Kept /\ \A p \in DOMAIN promises' : PromiseOK(p)'
  <2>1. version' \in [Index -> Nat] /\ \A i \in Index : version[i] <= version'[i]
    BY <1>5 DEF Inv, Typed
  <2>2. QED
    BY <1>5, <2>1, SamePromises
<1>10. Forward
  BY <1>6 DEF Forward
<1>11. CallOK(new)
  <2>1. HasCursor(new) /\ IndexOf(new.cursor) = it.arg
    BY <1>2, <1>4 DEF HasCursor
  <2>2. it.want \in Nat /\ it.next \in Nat /\ it.depth \in Nat /\ it.arg \in Nat
        /\ settings.commitDepth \in Nat
    BY Indices DEF Call, Inv, Typed
  <2>3. pc = "answer" => IndexOf(new.cursor) = Smaller(new.want, new.next)
    BY <1>2, <1>3, <1>4, <2>1, <2>2 DEF Place, Smaller
  <2>4. pc = "walk" =>
            /\ new.depth \in 0 .. settings.commitDepth
            /\ IndexOf(new.cursor) = new.next - new.depth
            /\ new.depth = 0 \/ new.want <= IndexOf(new.cursor)
    <3> SUFFICES ASSUME pc = "walk" PROVE <2>4!2
      OBVIOUS
    <3>1. it.for \in {"latest", "parent"}
      BY <1>3 DEF Call
    <3>2. QED
      BY <1>2, <1>4, <2>1, <2>2, <3>1 DEF Place
  <2>5. 0 \in PromiseNumber
    BY PromisesTyped DEF Inv, PromiseNumber
  <2>6. /\ new.cursor \in PromiseNumber \ new.known /\ new.want \in Index
        /\ \A k \in new.known : Suspect(k)
    BY <1>1, <1>2, <1>4 DEF CallOK
  <2>7. QED
    BY <1>3, <1>4, <2>1, <2>3, <2>4, <2>5, <2>6 DEF CallOK
<1>12. CallOK(new)'
  BY <1>5, <1>9, <1>10, <1>11, CallStays DEF Inv
<1>13. QED
  BY <1>4, <1>5, <1>7, <1>8, <1>9, <1>10, <1>12, Going

\* The loop of getRecentCommit() goes on to the parent, to the commit asked for
\* by its index, or ends.
LEMMA WalkKeeps == ASSUME Inv, NEW r \in Caller, Walk(r) PROVE Inv'
<1>1. PICK it \in Call : it = caller[r] /\ CallOK(it) /\ 0 \notin it.known /\ it.known \in SUBSET Nat
  BY KnownTyped
<1>2. PICK c \in DOMAIN promises : c = it.cursor
  BY <1>1 DEF Walk, At, CallOK, HasCursor, Is
<1>3. /\ it.pc = "walk" /\ Is(c, "commit") /\ promises[c].state = "ok"
      /\ it.depth \in 0 .. settings.commitDepth /\ IndexOf(c) = it.next - it.depth
      /\ it.depth = 0 \/ it.want <= IndexOf(c)
      /\ it.want \in Index
  BY <1>1, <1>2 DEF Walk, At, CallOK, HasCursor
<1>4. /\ it.want \in Nat /\ it.next \in Nat /\ it.depth \in Nat
      /\ IndexOf(c) \in Index /\ IndexOf(c) \in Nat
      /\ settings.commitDepth \in Nat /\ settings.allowHistorical \in BOOLEAN
  <2>1. IndexOf(c) \in Index
    BY <1>3 DEF Inv, PromiseOK, Is, IndexOf
  <2>2. QED
    BY <2>1, Indices DEF Call, Inv, Typed
<1>5. UNCHANGED <<settings, latest, version, latestCache, pending, cached, calls, expiries>>
  BY DEF Walk
<1>6. CASE it.want >= IndexOf(c)
  <2>1. Goes(r, [caller[r] EXCEPT !.pc = "answer"]) /\ promises' = promises
    BY <1>1, <1>2, <1>6 DEF Walk
  <2>2. PICK pc \in Ended \cup {"walk", "answer"} : pc = "answer"
    OBVIOUS
  <2>3. Goes(r, [caller[r] EXCEPT !.pc = pc])
    BY <2>1, <2>2
  <2>4. PICK new \in Call :
            /\ caller' = [caller EXCEPT ![r] = new]
            /\ new.pc = "answer" /\ new.want = it.want /\ new.wait = it.wait
            /\ new.next = it.next /\ new.depth = it.depth
            /\ new.cursor = it.cursor /\ new.known = it.known
    BY <1>1, <2>2, <2>3, SameCall
  <2>5. HasCursor(new) /\ IndexOf(new.cursor) = Smaller(new.want, new.next)
    BY <1>2, <1>3, <1>4, <1>6, <2>4 DEF HasCursor, Smaller
  <2>6. CallOK(new)
    BY <1>1, <1>3, <2>4, <2>5 DEF CallOK
  <2>7. QED
    BY <1>5, <2>1, <2>4, <2>6, OnlyGoing
<1>7. CASE it.want < IndexOf(c) /\ it.depth + 1 <= settings.commitDepth
  <2>1. PICK w : w = Joined(promises[c].parent).p
    OBVIOUS
  <2>2. PICK depth \in Nat : depth = it.depth + 1
    BY <1>4
  <2>3. AsksParent(c) /\ Goes(r, [it EXCEPT !.pc = "parent", !.depth = depth, !.wait = w])
    BY <1>1, <1>2, <1>4, <1>7, <2>1, <2>2, SMTT(60) DEF Walk, Depth, AsksParent
  <2>4. /\ promises' \in Seq(Promise) /\ DOMAIN promises \subseteq DOMAIN promises'
        /\ Kept /\ \A p \in DOMAIN promises' : PromiseOK(p)'
        /\ \A p \in DOMAIN promises :
                /\ promises'[p].kind = promises[p].kind /\ promises'[p].arg = promises[p].arg
                /\ promises'[p].state = promises[p].state
        /\ \A p \in DOMAIN promises' \ DOMAIN promises : promises'[p].kind # "call"
    BY <1>3, <1>5, <2>1, <2>3, AskingParent
  <2>5. w \in Nat /\ w \in PromiseNumber' /\ Is(w, "parent")' /\ promises'[w].arg = c
    BY <1>3, <1>5, <2>1, <2>3, AskingParent
  <2>6. PICK new \in Call :
            /\ caller' = [caller EXCEPT ![r] = new]
            /\ new.pc = "parent" /\ new.want = it.want /\ new.wait = w
            /\ new.next = it.next /\ new.depth = depth
            /\ new.cursor = it.cursor /\ new.known = it.known
    <3> DEFINE new == [it EXCEPT !.pc = "parent", !.depth = depth, !.wait = w]
    <3>1. caller' = [caller EXCEPT ![r] = new]
      BY <2>3 DEF Goes
    <3>2. new \in Call
      BY <2>5 DEF Call
    <3>3. /\ new.pc = "parent" /\ new.want = it.want /\ new.wait = w
          /\ new.next = it.next /\ new.depth = depth
          /\ new.cursor = it.cursor /\ new.known = it.known
      BY DEF Call
    <3> HIDE DEF new
    <3>4. QED
      BY <3>1, <3>2, <3>3
  <2>7. CallOK(it)'
    <3>1. Forward
      BY <1>5 DEF Forward
    <3>2. QED
      BY <1>1, <1>5, <2>4, <3>1, CallStays DEF Inv
  <2>8. HasCursor(new)' /\ IndexOf(new.cursor)' = IndexOf(c)
    BY <1>2, <1>3, <2>4, <2>6 DEF HasCursor, Is, IndexOf
  <2>9. CallOK(new)'
    <3>1. /\ new.cursor \in PromiseNumber' \ new.known /\ new.want \in Index
          /\ \A k \in new.known : Suspect(k)'
      BY <1>3, <2>6, <2>7 DEF CallOK
    <3>2. /\ new.depth \in 1 .. settings'.commitDepth
          /\ IndexOf(new.cursor)' = new.next - new.depth + 1 /\ new.want < IndexOf(new.cursor)'
      BY <1>3, <1>4, <1>5, <1>7, <2>2, <2>6, <2>8
    <3>3. promises'[new.wait].arg = new.cursor
      BY <1>2, <2>5, <2>6
    <3>4. QED
      BY <2>5, <2>6, <2>8, <3>1, <3>2, <3>3 DEF CallOK
  <2>10. QED
    BY <1>5, <2>4, <2>6, <2>9, Asking
<1>8. CASE it.want < IndexOf(c) /\ ~(it.depth + 1 <= settings.commitDepth) /\ settings.allowHistorical
  <2>1. PICK w \in Nat : w = PeekCommit(it.want)
    BY <1>3, PeekedCommit
  <2>2. /\ Goes(r, [it EXCEPT !.pc = "peek", !.arg = it.want, !.for = "historical", !.wait = w])
        /\ promises' = promises
    BY <1>1, <1>2, <1>4, <1>8, <2>1 DEF Walk, Depth, Peeking
  <2>3. PICK new \in Call :
            /\ caller' = [caller EXCEPT ![r] = new]
            /\ new.pc = "peek" /\ new.arg = it.want /\ new.for = "historical" /\ new.wait = w
            /\ new.next = it.next /\ new.depth = it.depth /\ new.want = it.want
            /\ new.cursor = it.cursor /\ new.known = it.known
    <3> DEFINE new == [it EXCEPT !.pc = "peek", !.arg = it.want, !.for = "historical", !.wait = w]
    <3>1. caller' = [caller EXCEPT ![r] = new]
      BY <2>2 DEF Goes
    <3>2. new \in Call
      BY <1>4 DEF Call
    <3>3. /\ new.pc = "peek" /\ new.arg = it.want /\ new.for = "historical" /\ new.wait = w
          /\ new.next = it.next /\ new.depth = it.depth /\ new.want = it.want
          /\ new.cursor = it.cursor /\ new.known = it.known
      BY DEF Call
    <3> HIDE DEF new
    <3>4. QED
      BY <3>1, <3>2, <3>3
  <2>4. CallOK(new)
    <3>1. Place(new)
      BY <1>3, <1>4, <1>8, <2>3 DEF Place
    <3>2. /\ new.wait \in PromiseNumber
          /\ new.wait # 0 => Is(new.wait, "commit") /\ IndexOf(new.wait) = new.arg
          /\ new.wait \notin new.known => cached[new.arg] \notin new.known
      BY <1>1, <1>3, <2>1, <2>3, PeekedCommit
    <3>3. /\ new.cursor \in PromiseNumber \ new.known /\ new.want \in Index
          /\ \A k \in new.known : Suspect(k)
      BY <1>1, <1>3, <2>3 DEF CallOK
    <3>4. QED
      BY <2>3, <3>1, <3>2, <3>3 DEF CallOK
  <2>5. QED
    BY <1>5, <2>2, <2>3, <2>4, OnlyGoing
<1>9. CASE it.want < IndexOf(c) /\ ~(it.depth + 1 <= settings.commitDepth) /\ ~settings.allowHistorical
  <2>1. Goes(r, [caller[r] EXCEPT !.pc = "tooOld"]) /\ promises' = promises
    BY <1>1, <1>2, <1>4, <1>9 DEF Walk, Depth
  <2>2. PICK pc \in Ended \cup {"walk", "answer"} : pc = "tooOld"
    BY DEF Ended
  <2>3. Goes(r, [caller[r] EXCEPT !.pc = pc])
    BY <2>1, <2>2
  <2>4. PICK new \in Call :
            /\ caller' = [caller EXCEPT ![r] = new]
            /\ new.pc = "tooOld" /\ new.want = it.want /\ new.wait = it.wait
            /\ new.next = it.next /\ new.depth = it.depth
            /\ new.cursor = it.cursor /\ new.known = it.known
    BY <1>1, <2>2, <2>3, SameCall
  <2>5. new.want < new.next - settings.commitDepth
    BY <1>3, <1>4, <1>9, <2>4
  <2>6. CallOK(new)
    BY <1>1, <1>3, <1>9, <2>4, <2>5 DEF CallOK
  <2>7. QED
    BY <1>5, <2>1, <2>4, <2>6, OnlyGoing
<1>10. QED
  BY <1>4, <1>6, <1>7, <1>8, <1>9

\* The previous index is there, and the latest is asked for.
LEMMA PrevKeeps == ASSUME Inv, NEW r \in Caller, Prev(r) PROVE Inv'
<1>1. PICK it \in Call : it = caller[r] /\ CallOK(it)
  BY KnownTyped
<1>2. /\ it.pc = "prev" /\ it.depth = 0 /\ it.want \in Index
      /\ it.wait = 0 \/ it.wait \in DOMAIN promises
  BY <1>1 DEF Prev, At, CallOK, Is
<1>3. PICK prev \in Nat : prev = IF it.wait = 0 \/ Rejected(it.wait) THEN 0 ELSE promises[it.wait].val
  BY <1>2, PromisesTyped DEF Inv
<1>4. /\ promises \in Seq(Promise) /\ Len(promises) \in Nat /\ DOMAIN promises = 1 .. Len(promises)
      /\ latestCache \in Cached /\ latestCache.p \in Nat
      /\ latestCache.p # 0 => Is(latestCache.p, "latest")
  BY PromisesTyped DEF Inv, Typed, CachesOK, Cached
<1>5. PICK n \in Nat : n = NextId
  BY <1>4 DEF NextId
<1>6. PICK w \in Nat : w = Joined(latestCache).p
  BY <1>4, <1>5 DEF Joined, CV
<1>7. /\ UNCHANGED <<settings, latest, version, pending, cached, calls, expiries>>
      /\ Goes(r, [it EXCEPT !.pc = "next", !.wait = w, !.prev = prev])
      /\ latestCache' = Joined(latestCache) /\ promises' = Made(latestCache, "latest", 0)
  BY <1>1, <1>3, <1>6 DEF Prev
<1>8. PICK new \in Call :
        /\ caller' = [caller EXCEPT ![r] = new]
        /\ new.pc = "next" /\ new.wait = w /\ new.depth = it.depth /\ new.want = it.want
        /\ new.cursor = it.cursor /\ new.known = it.known
  <2> DEFINE new == [it EXCEPT !.pc = "next", !.wait = w, !.prev = prev]
  <2>1. caller' = [caller EXCEPT ![r] = new]
    BY <1>7 DEF Goes
  <2>2. new \in Call
    BY DEF Call
  <2>3. /\ new.pc = "next" /\ new.wait = w /\ new.depth = it.depth /\ new.want = it.want
        /\ new.cursor = it.cursor /\ new.known = it.known
    BY DEF Call
  <2> HIDE DEF new
  <2>4. QED
    BY <2>1, <2>2, <2>3
<1>9. CASE Usable(latestCache)
  <2>1. promises' = promises /\ latestCache' = latestCache
    BY <1>7, <1>9 DEF Made, Joined
  <2>2. Is(w, "latest")
    BY <1>4, <1>6, <1>9 DEF Joined, Usable
  <2>3. w \in PromiseNumber
    BY <1>4, <2>2 DEF Is, PromiseNumber
  <2>4. CallOK(new)
    BY <1>1, <1>2, <1>8, <2>2, <2>3 DEF CallOK
  <2>5. QED
    BY <1>7, <1>8, <2>1, <2>4, OnlyGoing
<1>10. CASE ~Usable(latestCache)
  <2>1. PICK made \in Promise : made = Promised("latest", 0)
    <3>1. "latest" \in Kinds
      BY DEF Kinds
    <3>2. QED
      BY <3>1, PromisedTyped
  <2>2. /\ made.kind = "latest" /\ made.state = "running"
        /\ made.valid.p = 0 /\ made.parent.p = 0
    BY <2>1 DEF Promised, CV
  <2>3. promises' = Append(promises, made) /\ latestCache' = CV(n) /\ w = n
    BY <1>5, <1>6, <1>7, <1>10, <2>1 DEF Made, Joined, CV
  <2>4. /\ n \notin DOMAIN promises /\ n # 0
        /\ promises' \in Seq(Promise) /\ DOMAIN promises' = DOMAIN promises \cup {n}
        /\ Len(promises') = n /\ promises'[n] = made
        /\ \A p \in DOMAIN promises : promises'[p] = promises[p] /\ PromiseOK(p)'
        /\ Kept
    BY <1>5, <1>7, <2>3, Appending
  <2>5. PromiseOK(n)'
    BY <2>2, <2>4 DEF PromiseOK
  <2>6. \A p \in DOMAIN promises' : PromiseOK(p)'
    BY <2>4, <2>5
  <2>7. Typed'
    <3>1. caller' \in [Caller -> Call] /\ latestCache' \in Cached
      BY <1>8, <2>3 DEF Inv, Typed, Cached, CV
    <3>2. QED
      BY <1>7, <2>4, <3>1 DEF Inv, Typed
  <2>8. Is(n, "latest")' /\ latestCache'.p = n
    BY <2>2, <2>3, <2>4 DEF Is, CV
  <2>9. CachesOK'
    <3>1. DOMAIN promises \subseteq DOMAIN promises'
      BY <2>4
    <3>2. \A q \in DOMAIN promises' \ DOMAIN promises : promises'[q].kind # "call"
      BY <2>2, <2>4
    <3>3. \A q \in DOMAIN promises :
            /\ promises'[q].kind = promises[q].kind /\ promises'[q].arg = promises[q].arg
            /\ promises'[q].state = promises[q].state
      BY <2>4
    <3>4. Is(latestCache.p, "latest")'
      BY <2>8 DEF Is
    <3>5. QED
      BY <1>7, <2>4, <3>1, <3>2, <3>3, <3>4, CachesStay
  <2>10. Forward
    BY <1>7 DEF Forward
  <2>11. CallOK(it)'
    BY <1>1, <1>7, <2>4, <2>10, CallStays DEF Inv
  <2>12. CallOK(new)'
    <3>1. n \in PromiseNumber'
      BY <2>4 DEF PromiseNumber
    <3>2. /\ new.cursor \in PromiseNumber' \ new.known /\ new.want \in Index
          /\ \A k \in new.known : Suspect(k)'
      BY <1>2, <1>8, <2>11 DEF CallOK
    <3>3. QED
      BY <1>2, <1>8, <2>3, <2>8, <3>1, <3>2 DEF CallOK
  <2>13. QED
    BY <1>7, <1>8, <2>4, <2>6, <2>7, <2>9, <2>10, <2>12, Going
<1>11. QED
  BY <1>9, <1>10

\* The request is evaluated, unless an answer is there or on its way.
LEMMA AnswerKeeps == ASSUME Inv, NEW r \in Caller, Answer(r) PROVE Inv'
<1>1. PICK it \in Call : it = caller[r] /\ CallOK(it)
  BY KnownTyped
<1>2. PICK c \in DOMAIN promises : c = it.cursor
  BY <1>1 DEF Answer, At, CallOK, HasCursor, Is
<1>3. /\ it.pc = "answer" /\ Is(c, "commit") /\ promises[c].state = "ok"
      /\ IndexOf(c) = Smaller(it.want, it.next) /\ it.want \in Index
  BY <1>1, <1>2 DEF Answer, At, CallOK, HasCursor
<1>4. PICK i \in Index : i = IndexOf(c)
  BY <1>3 DEF Inv, PromiseOK, Is, IndexOf
<1>5. /\ promises \in Seq(Promise) /\ Len(promises) \in Nat /\ DOMAIN promises = 1 .. Len(promises)
  BY PromisesTyped DEF Inv, Typed
<1>6. PICK n \in Nat : n = NextId
  BY <1>5 DEF NextId
<1>7. UNCHANGED <<settings, latest, version, latestCache, pending, cached, expiries>>
  BY DEF Answer
<1>8. ASSUME NEW w \in Nat, Goes(r, [it EXCEPT !.pc = "call", !.wait = w])
      PROVE  \E new \in Call :
                /\ caller' = [caller EXCEPT ![r] = new]
                /\ new.pc = "call" /\ new.wait = w /\ new.next = it.next /\ new.want = it.want
                /\ new.cursor = it.cursor /\ new.known = it.known
  <2> DEFINE new == [it EXCEPT !.pc = "call", !.wait = w]
  <2>1. caller' = [caller EXCEPT ![r] = new]
    BY <1>8 DEF Goes
  <2>2. new \in Call
    BY DEF Call
  <2>3. /\ new.pc = "call" /\ new.wait = w /\ new.next = it.next /\ new.want = it.want
        /\ new.cursor = it.cursor /\ new.known = it.known
    BY DEF Call
  <2> HIDE DEF new
  <2>4. QED
    BY <2>1, <2>2, <2>3
<1>9. caller \in [Caller -> Call]
  BY DEF Inv, Typed
<1>10. CASE CallOf(i) # {}
  <2>1. PICK p \in CallOf(i) : Calls(r, i, p, ~Settled(p)) /\ UNCHANGED promises
    BY <1>1, <1>2, <1>4, <1>10 DEF Answer
  <2>2. PICK m \in DOMAIN calls : calls[m].key = i /\ calls[m].from = p
    BY <2>1 DEF CallOf, EntryOf
  <2>3. /\ p \in DOMAIN promises /\ p \in Nat /\ promises[p].kind = "call"
        /\ promises[promises[p].arg].arg = i
    BY <1>5, <2>2, HeldCalls
  <2>4. PICK new \in Call :
            /\ caller' = [caller EXCEPT ![r] = new]
            /\ new.pc = "call" /\ new.wait = p /\ new.next = it.next /\ new.want = it.want
            /\ new.cursor = it.cursor /\ new.known = it.known
    BY <1>1, <1>8, <2>1, <2>3 DEF Calls
  <2>5. p \in PromiseNumber /\ Is(p, "call") /\ IndexOf(promises[p].arg) = i
    BY <1>5, <2>3 DEF Is, PromiseNumber, IndexOf
  <2>6. CallOK(new)
    BY <1>1, <1>3, <1>4, <2>4, <2>5 DEF CallOK
  <2>7. \A k \in DOMAIN calls : calls[k].key = i => calls[k].from = p
    BY <2>2 DEF Inv, Typed, KeysDiffer
  <2>8. ~Settled(p) <=> promises'[p].state = "running"
    BY <2>1, <2>3 DEF Settled
  <2>9. calls' = Put(calls, settings.callMax, i, p, ~Settled(p))
    BY <2>1 DEF Calls
  <2>10. /\ calls' \in Seq(Entries(Index, Nat)) /\ KeysDiffer(calls')
         /\ Len(calls') <= settings'.callMax /\ CallsOK'
    <3>1. PICK b \in BOOLEAN : b = ~Settled(p)
      OBVIOUS
    <3>2. QED
      BY <1>7, <2>1, <2>3, <2>7, <2>8, <2>9, <3>1, PuttingCall
  <2>11. Typed'
    BY <1>7, <1>9, <2>1, <2>4, <2>10 DEF Inv, Typed
  <2>12. CachesOK'
    BY <1>7, <2>1, <2>10 DEF Inv, CachesOK, Is, IndexOf
  <2>13. Kept /\ \A q \in DOMAIN promises' : PromiseOK(q)'
    <3>1. version' \in [Index -> Nat] /\ \A j \in Index : version[j] <= version'[j]
      BY <1>7 DEF Inv, Typed
    <3>2. QED
      BY <2>1, <3>1, SamePromises
  <2>14. Forward
    BY <1>7 DEF Forward
  <2>15. CallOK(new)'
    BY <1>7, <2>6, <2>13, <2>14, CallStays DEF Inv
  <2>16. QED
    BY <1>7, <2>4, <2>11, <2>12, <2>13, <2>14, <2>15, Going
<1>11. CASE CallOf(i) = {}
  <2>1. PICK made \in Promise : made = Promised("call", c)
    <3>1. "call" \in Kinds /\ c \in Nat
      BY <1>5 DEF Kinds
    <3>2. QED
      BY <3>1, PromisedTyped
  <2>2. /\ made.kind = "call" /\ made.arg = c /\ made.state = "running"
        /\ made.valid.p = 0 /\ made.parent.p = 0
    BY <2>1 DEF Promised, CV
  <2>3. promises' = Append(promises, made) /\ Calls(r, i, n, TRUE)
    BY <1>1, <1>2, <1>4, <1>6, <1>11, <2>1 DEF Answer
  <2>4. /\ n \notin DOMAIN promises /\ n # 0
        /\ promises' \in Seq(Promise) /\ DOMAIN promises' = DOMAIN promises \cup {n}
        /\ Len(promises') = n /\ promises'[n] = made
        /\ \A p \in DOMAIN promises : promises'[p] = promises[p] /\ PromiseOK(p)'
        /\ Kept
    BY <1>6, <1>7, <2>3, Appending
  <2>5. Is(c, "commit")' /\ promises'[c].state = "ok" /\ promises'[c].arg = i
    BY <1>3, <1>4, <2>4 DEF Is, IndexOf
  <2>6. PromiseOK(n)'
    BY <2>2, <2>4, <2>5 DEF PromiseOK
  <2>7. \A p \in DOMAIN promises' : PromiseOK(p)'
    BY <2>4, <2>6
  <2>8. PICK new \in Call :
            /\ caller' = [caller EXCEPT ![r] = new]
            /\ new.pc = "call" /\ new.wait = n /\ new.next = it.next /\ new.want = it.want
            /\ new.cursor = it.cursor /\ new.known = it.known
    BY <1>1, <1>8, <2>3 DEF Calls
  <2>9. Is(n, "call")' /\ promises'[n].arg = c
    BY <2>2, <2>4 DEF Is
  <2>10. \A m \in DOMAIN calls : calls[m].key # i
    BY <1>11 DEF CallOf, EntryOf
  <2>11. /\ calls' \in Seq(Entries(Index, Nat)) /\ KeysDiffer(calls')
         /\ Len(calls') <= settings'.callMax /\ CallsOK'
    <3>1. calls' = Put(calls, settings.callMax, i, n, TRUE)
      BY <2>3 DEF Calls
    <3>2. /\ DOMAIN promises \subseteq DOMAIN promises' /\ n \in DOMAIN promises'
          /\ \A q \in DOMAIN promises :
                promises'[q].kind = promises[q].kind /\ promises'[q].arg = promises[q].arg
          /\ \A q \in DOMAIN promises' : q # n =>
                q \in DOMAIN promises /\ promises'[q].state = promises[q].state
      BY <2>4
    <3>3. /\ promises'[n].kind = "call" /\ promises'[promises'[n].arg].arg = i
          /\ TRUE <=> promises'[n].state = "running"
      BY <2>2, <2>4, <2>5
    <3>4. QED
      BY <1>7, <2>10, <3>1, <3>2, <3>3, PuttingCall
  <2>12. Typed'
    BY <1>7, <1>9, <2>4, <2>8, <2>11 DEF Inv, Typed
  <2>13. CachesOK'
    <3>1. Is(TruePromise, "valid")' /\ promises'[TruePromise].state = "ok"
      BY <2>4 DEF Inv, CachesOK, Is
    <3>2. latestCache'.p # 0 => Is(latestCache.p, "latest")'
      BY <1>7, <2>4 DEF Inv, CachesOK, Is
    <3>3. \A j \in Index :
            /\ pending'[j] # 0 => /\ Is(pending[j], "commit")' /\ IndexOf(pending[j])' = j
                                  /\ promises'[pending'[j]].state = "running"
            /\ cached'[j] # 0 => /\ Is(cached[j], "commit")' /\ IndexOf(cached[j])' = j
                                 /\ promises'[cached'[j]].state # "running"
      BY <1>7, <2>4 DEF Inv, CachesOK, Is, IndexOf
    <3>4. QED
      BY <2>11, <3>1, <3>2, <3>3 DEF CachesOK, IndexOf
  <2>14. Forward
    BY <1>7 DEF Forward
  <2>15. CallOK(it)'
    BY <1>1, <1>7, <2>4, <2>14, CallStays DEF Inv
  <2>16. CallOK(new)'
    <3>1. n \in PromiseNumber'
      BY <2>4 DEF PromiseNumber
    <3>2. /\ new.cursor \in PromiseNumber' \ new.known /\ new.want \in Index
          /\ \A k \in new.known : Suspect(k)'
      BY <1>3, <2>8, <2>15 DEF CallOK
    <3>3. IndexOf(promises[new.wait].arg)' = i /\ i = Smaller(new.want, new.next)
      BY <1>3, <1>4, <2>5, <2>8, <2>9 DEF IndexOf
    <3>4. QED
      BY <2>8, <2>9, <3>1, <3>2, <3>3 DEF CallOK
  <2>17. QED
    BY <1>7, <2>4, <2>7, <2>8, <2>12, <2>13, <2>14, <2>16, Going
<1>12. QED
  BY <1>10, <1>11

----------------------------------------------------------------------------
\* How a promise may end: what it resolves to, or that it is rejected.
Outcome(p, new) ==
    LET it == promises[p]
    IN  /\ new.kind = it.kind /\ new.arg = it.arg /\ new.parent = it.parent
        /\ \/ /\ new.state = "err" /\ new.val = it.val /\ new.of = it.of /\ new.valid = it.valid
           \/ /\ new.state = "ok"
              /\ it.kind = "commit" => new.of = version[it.arg] /\ new.valid = CV(TruePromise)
              /\ it.kind # "commit" => new.valid = it.valid
              /\ it.kind = "latest" => new.val = latest
              /\ it.kind = "valid" => \/ new.val = 0
                                      \/ promises[it.arg].of = version[IndexOf(it.arg)]
              /\ it.kind = "parent" => IndexOf(it.arg) > First /\ new.val = IndexOf(it.arg) - 1
              /\ it.kind = "call" => new.val = it.arg

\* A fetch ends with one of its outcomes.
LEMMA Outcomes ==
    ASSUME Inv, NEW p \in DOMAIN promises, Settle(p)
    PROVE  \E new \in Promise : promises' = [promises EXCEPT ![p] = new] /\ Outcome(p, new)
<1>1. PICK it \in Promise : it = promises[p] /\ PromiseOK(p) /\ it.state = "running" /\ p # TruePromise
  BY PromisesTyped DEF Inv, Settle, CachesOK
<1>2. /\ it.kind \in Kinds /\ it.arg \in Nat /\ it.val \in Nat /\ it.of \in Nat
      /\ it.valid \in Cached /\ it.parent \in Cached /\ it.brief \in BOOLEAN
  BY DEF Promise
<1>3. version \in [Index -> Nat] /\ latest \in First .. Last
  BY DEF Inv, Typed
<1>4. CASE promises' = [promises EXCEPT ![p] = [promises[p] EXCEPT !.state = "err"]]
  <2> DEFINE new == [it EXCEPT !.state = "err"]
  <2>1. new \in Promise
    BY <1>2 DEF Promise, States
  <2>2. Outcome(p, new)
    BY <1>1, <1>2 DEF Outcome, Promise
  <2>3. promises' = [promises EXCEPT ![p] = new]
    BY <1>1, <1>4
  <2> HIDE DEF new
  <2>4. QED
    BY <2>1, <2>2, <2>3
<1>5. CASE CanResolve(p) /\ promises' = [promises EXCEPT ![p] = Resolved(p)]
  <2>1. CASE it.kind = "latest"
    <3> DEFINE new == [it EXCEPT !.state = "ok", !.val = latest]
    <3>1. new \in Promise
      BY <1>2, <1>3, Indices DEF Promise, States
    <3>2. Outcome(p, new)
      BY <1>1, <2>1 DEF Outcome, Promise
    <3>3. Resolved(p) = new
      BY <1>1, <2>1 DEF Resolved
    <3> HIDE DEF new
    <3>4. QED
      BY <1>5, <3>1, <3>2, <3>3
  <2>2. CASE it.kind = "commit"
    <3> DEFINE new == [it EXCEPT !.state = "ok", !.of = version[it.arg], !.valid = CV(TruePromise)]
    <3>1. version[it.arg] \in Nat /\ CV(TruePromise) \in Cached
      BY <1>1, <1>3, <2>2 DEF PromiseOK, CV, Cached, TruePromise
    <3>2. new \in Promise
      BY <1>2, <3>1 DEF Promise, States
    <3>3. Outcome(p, new)
      BY <1>1, <2>2 DEF Outcome, Promise
    <3>4. Resolved(p) = new
      BY <1>1, <2>2 DEF Resolved
    <3> HIDE DEF new
    <3>5. QED
      BY <1>5, <3>2, <3>3, <3>4
  <2>3. CASE it.kind = "valid"
    <3> DEFINE val == IF promises[it.arg].of = version[IndexOf(it.arg)] THEN 1 ELSE 0
               new == [it EXCEPT !.state = "ok", !.val = val]
    <3>1. new \in Promise
      BY <1>2 DEF Promise, States
    <3>2. Outcome(p, new)
      BY <1>1, <2>3 DEF Outcome, Promise
    <3>3. Resolved(p) = new
      BY <1>1, <2>3 DEF Resolved
    <3> HIDE DEF new
    <3>4. QED
      BY <1>5, <3>1, <3>2, <3>3
  <2>4. CASE it.kind = "parent"
    <3>1. IndexOf(it.arg) > First /\ IndexOf(it.arg) \in Index
      BY <1>1, <1>5, <2>4 DEF CanResolve, Inv, PromiseOK, Is, IndexOf
    <3>2. PICK val \in Nat : val = IndexOf(it.arg) - 1
      <4>1. PICK i \in Nat : i = IndexOf(it.arg) /\ i > First /\ First \in Nat
        BY <3>1, Indices
      <4>2. i - 1 \in Nat
        BY <4>1
      <4>3. QED
        BY <4>1, <4>2
    <3> DEFINE new == [it EXCEPT !.state = "ok", !.val = val]
    <3>3. new \in Promise
      BY <1>2 DEF Promise, States
    <3>4. Outcome(p, new)
      BY <1>1, <2>4, <3>1, <3>2 DEF Outcome, Promise
    <3>5. Resolved(p) = new
      BY <1>1, <2>4, <3>2 DEF Resolved
    <3> HIDE DEF new
    <3>6. QED
      BY <1>5, <3>3, <3>4, <3>5
  <2>5. CASE it.kind = "call"
    <3> DEFINE new == [it EXCEPT !.state = "ok", !.val = it.arg]
    <3>1. new \in Promise
      BY <1>2 DEF Promise, States
    <3>2. Outcome(p, new)
      BY <1>1, <2>5 DEF Outcome, Promise
    <3>3. Resolved(p) = new
      BY <1>1, <2>5 DEF Resolved
    <3> HIDE DEF new
    <3>4. QED
      BY <1>5, <3>1, <3>2, <3>3
  <2>6. QED
    BY <1>2, <2>1, <2>2, <2>3, <2>4, <2>5 DEF Kinds
<1>6. QED
  BY <1>4, <1>5 DEF Settle, Settling

\* A fetch ends, and a commit that was pending is a cached one.
LEMMA SettleKeeps == ASSUME Inv, NEW p \in DOMAIN promises, Settle(p) PROVE Inv'
<1>1. PICK new \in Promise : promises' = [promises EXCEPT ![p] = new] /\ Outcome(p, new)
  BY Outcomes
<1>2. PICK it \in Promise : it = promises[p] /\ PromiseOK(p) /\ it.state = "running"
  BY PromisesTyped DEF Inv, Settle
<1>3. /\ promises \in Seq(Promise) /\ Len(promises) \in Nat /\ DOMAIN promises = 1 .. Len(promises)
      /\ version \in [Index -> Nat] /\ latest \in First .. Last
      /\ pending \in [Index -> Nat] /\ cached \in [Index -> Nat]
      /\ \A q \in DOMAIN promises : promises[q].state \in States
  BY PromisesTyped DEF Inv, Typed
<1>4. UNCHANGED <<settings, latest, version, latestCache, caller, expiries>>
  BY DEF Settle
<1>5. /\ promises' \in Seq(Promise) /\ Len(promises') = Len(promises)
      /\ DOMAIN promises' = DOMAIN promises /\ promises'[p] = new
      /\ \A q \in DOMAIN promises \ {p} : promises'[q] = promises[q]
  BY <1>1, <1>3, LenProperties, ExceptSeq
<1>6. /\ new.kind = it.kind /\ new.arg = it.arg /\ new.parent = it.parent
      /\ new.state \in {"ok", "err"} /\ (it.kind # "commit" => new.valid = it.valid)
  BY <1>1, <1>2 DEF Outcome
<1>7. \A q, kind : Is(q, kind) <=> Is(q, kind)'
  BY <1>2, <1>5, <1>6 DEF Is
<1>8. \A q \in DOMAIN promises : promises'[q].kind = promises[q].kind /\ promises'[q].arg = promises[q].arg
  BY <1>2, <1>5, <1>6
<1>9. Kept
  <2>1. ASSUME NEW q \in DOMAIN promises
        PROVE  /\ promises[q].state # "running" => promises'[q] = promises[q]
               /\ promises[q].kind = "valid" /\ promises[q].state = "running" =>
                    \/ promises'[q].state \in {"running", "err"} \/ promises'[q].val = 0
                    \/ promises[promises[q].arg].of = version[IndexOf(promises[q].arg)]
    <3>1. CASE q = p
      BY <1>1, <1>2, <1>5, <3>1 DEF Outcome
    <3>2. CASE q # p
      BY <1>5, <3>2
    <3>3. QED
      BY <3>1, <3>2
  <2>2. /\ promises' \in Seq(Promise) /\ Len(promises') >= Len(promises)
        /\ version' \in [Index -> Nat] /\ \A i \in Index : version[i] <= version'[i]
    BY <1>3, <1>4, <1>5
  <2>3. QED
    BY <1>8, <2>1, <2>2 DEF Kept
<1>10. TruePromise \in DOMAIN promises /\ TruePromise # p /\ promises[TruePromise].kind = "valid"
       /\ promises[TruePromise].state = "ok"
  BY <1>2 DEF Inv, CachesOK, Is
<1>11. ASSUME NEW q \in DOMAIN promises PROVE PromiseOK(q)'
  <2>1. CASE q # p
    <3>1. \A o \in DOMAIN promises : promises[o].state = "ok" => promises'[o].state = "ok"
      BY <1>2, <1>5
    <3>2. version' \in [Index -> Nat] /\ \A i \in Index : version[i] <= version'[i]
      BY <1>3, <1>4
    <3>3. promises'[q] = promises[q] /\ DOMAIN promises \subseteq DOMAIN promises'
      BY <1>5, <2>1
    <3>4. QED
      BY <1>5, <1>8, <3>1, <3>2, <3>3, PromiseStays
  <2>2. CASE q = p
    <3>1. it.kind \in {"valid", "parent", "call"} =>
            /\ Is(it.arg, "commit") /\ Is(it.arg, "commit")' /\ promises'[it.arg].state = "ok"
            /\ IndexOf(it.arg)' = IndexOf(it.arg)
      <4> SUFFICES ASSUME it.kind \in {"valid", "parent", "call"} PROVE <3>1!2
        OBVIOUS
      <4>1. Is(it.arg, "commit") /\ promises[it.arg].state = "ok"
        BY <1>2, <1>10 DEF PromiseOK
      <4>2. it.arg # p /\ it.arg \in DOMAIN promises
        BY <1>2, <4>1 DEF Is
      <4>3. QED
        BY <1>5, <1>7, <4>1, <4>2 DEF IndexOf
    <3>2. it.kind = "commit" => it.arg \in Index /\ version'[it.arg] = version[it.arg]
                                /\ version[it.arg] \in Nat
      BY <1>2, <1>3, <1>4 DEF PromiseOK
    <3>3. it.kind = "commit" /\ new.state = "ok" => new.valid.p = TruePromise /\ new.of = version[it.arg]
      BY <1>1, <1>2 DEF Outcome, CV
    <3>4. new.valid.p # 0 =>
            /\ Is(new.valid.p, "valid")'
            /\ new.valid.p = TruePromise \/ promises'[new.valid.p].arg = p
      <4>1. new.valid = it.valid \/ new.valid = CV(TruePromise)
        BY <1>1, <1>2 DEF Outcome, Promise, Kinds
      <4>2. CASE new.valid = it.valid
        <5>1. it.valid.p # 0 => /\ Is(it.valid.p, "valid")
                                /\ it.valid.p = TruePromise \/ promises[it.valid.p].arg = p
          BY <1>2 DEF PromiseOK
        <5>2. it.valid.p # 0 => it.valid.p \in DOMAIN promises
          BY <5>1 DEF Is
        <5>3. QED
          BY <1>7, <1>8, <4>2, <5>1, <5>2
      <4>3. CASE new.valid = CV(TruePromise)
        <5>1. new.valid.p = TruePromise /\ Is(TruePromise, "valid")
          BY <1>10, <4>3 DEF CV, Is
        <5>2. QED
          BY <1>7, <5>1
      <4>4. QED
        BY <4>1, <4>2, <4>3
    <3>5. new.parent.p # 0 => Is(new.parent.p, "parent")' /\ promises'[new.parent.p].arg = p
      <4>1. new.parent.p # 0 => Is(new.parent.p, "parent") /\ promises[new.parent.p].arg = p
        BY <1>2, <1>6 DEF PromiseOK
      <4>2. new.parent.p # 0 => new.parent.p \in DOMAIN promises
        BY <4>1 DEF Is
      <4>3. QED
        BY <1>7, <1>8, <4>1, <4>2
    <3>6. /\ new.kind = "latest" /\ new.state = "ok" => new.val \in First .. Last
          /\ new.kind = "parent" /\ new.state = "ok" =>
                IndexOf(it.arg)' > First /\ new.val = IndexOf(it.arg)' - 1
          /\ new.kind = "call" /\ new.state = "ok" => new.val = new.arg
      BY <1>1, <1>2, <1>3, <1>6, <3>1 DEF Outcome
    <3>7. promises'[q] = new
      BY <1>5, <2>2
    <3>8. /\ new.kind \in {"valid", "parent", "call"} /\ p # TruePromise =>
                Is(new.arg, "commit")' /\ promises'[new.arg].state = "ok"
          /\ new.kind = "commit" => new.arg \in Index
          /\ new.kind = "commit" /\ new.state = "ok" => new.valid.p # 0 /\ new.of <= version'[new.arg]
      BY <1>6, <3>1, <3>2, <3>3 DEF TruePromise
    <3>9. QED
      BY <1>6, <2>2, <3>4, <3>5, <3>6, <3>7, <3>8 DEF PromiseOK
  <2>3. QED
    BY <2>1, <2>2
<1>12. /\ pending' \in [Index -> Nat] /\ cached' \in [Index -> Nat]
       /\ \A i \in Index :
            \/ pending'[i] = pending[i] /\ cached'[i] = cached[i]
               /\ ~(it.kind = "commit" /\ it.arg = i /\ pending[i] = p)
            \/ pending'[i] = 0 /\ cached'[i] = p /\ it.kind = "commit" /\ it.arg = i
  <2>1. CASE it.kind = "commit" /\ pending[it.arg] = p
    <3>1. /\ pending' = [pending EXCEPT ![it.arg] = 0] /\ cached' = [cached EXCEPT ![it.arg] = p]
          /\ p \in Nat /\ it.arg \in Index
      BY <1>2, <1>3, <2>1 DEF Settle, PromiseOK
    <3>2. QED
      BY <1>3, <2>1, <3>1
  <2>2. CASE ~(it.kind = "commit" /\ pending[it.arg] = p)
    <3>1. pending' = pending /\ cached' = cached
      BY <1>2, <2>2 DEF Settle
    <3>2. QED
      BY <1>3, <2>2, <3>1
  <2>3. QED
    BY <2>1, <2>2
<1>13. /\ calls' \in Seq(Entries(Index, Nat)) /\ KeysDiffer(calls')
       /\ Len(calls') <= settings'.callMax
       /\ CallsOK'
  <2>1. /\ calls' = SettledCalls(p)
        /\ calls \in Seq(Entries(Index, Nat)) /\ KeysDiffer(calls) /\ Len(calls) <= settings.callMax
        /\ settings.callMax \in Nat
    BY Indices DEF Settle, Inv, Typed
  <2>2. ASSUME NEW q \in DOMAIN promises', q # p
        PROVE  q \in DOMAIN promises /\ promises'[q].state = promises[q].state
    BY <1>5, <2>2
  <2>3. CASE it.kind # "call" \/ ~Holds(p)
    <3>1. calls' = calls
      BY <1>2, <2>1, <2>3 DEF SettledCalls
    <3>2. \A n \in DOMAIN calls : calls[n].from # p /\ calls[n].from \in DOMAIN promises
      BY <1>2, <2>3, HeldCalls DEF Holds
    <3>3. \A n \in DOMAIN calls : promises'[calls[n].from].state = promises[calls[n].from].state
      BY <1>5, <2>2, <3>2
    <3>4. \A q \in DOMAIN promises' : promises'[q].kind = "call" /\ promises'[q].state = "running" =>
            q \in DOMAIN promises /\ promises[q].state = "running"
      BY <1>5, <1>6, <2>2
    <3>5. CallsOK'
      BY <1>4, <1>5, <1>8, <3>1, <3>3, <3>4, CallsStay
    <3>6. QED
      BY <1>4, <2>1, <3>1, <3>5
  <2>4. CASE it.kind = "call" /\ Holds(p)
    <3>1. PICK h \in DOMAIN calls : calls[h].from = p
      BY <2>4 DEF Holds
    <3>2. PICK i \in Index : i = calls[h].key
      BY <3>1, HeldCalls
    <3>3. /\ promises[it.arg].arg = i /\ it.arg \in DOMAIN promises /\ IndexOf(it.arg) = i
      BY <1>2, <3>1, <3>2, HeldCalls DEF IndexOf
    <3>4. \A n \in DOMAIN calls : calls[n].key = i => calls[n].from = p
      BY <2>1, <3>1, <3>2 DEF KeysDiffer
    <3>5. CASE new.state = "err"
      <4>1. calls' = Without(calls, i)
        BY <1>2, <1>5, <2>1, <2>4, <3>3, <3>5 DEF SettledCalls
      <4>2. /\ calls' \in Seq(Entries(Index, Nat)) /\ KeysDiffer(calls')
            /\ Len(calls') <= Len(calls)
            /\ \A n \in DOMAIN calls' : calls'[n].key # i
            /\ \A n \in DOMAIN calls' : \E m \in DOMAIN calls : calls'[n] = calls[m]
            /\ \A m \in DOMAIN calls : calls[m].key # i => \E n \in DOMAIN calls' : calls'[n] = calls[m]
        <5>1. calls \in Seq(Entries(Index, Nat)) /\ KeysDiffer(calls) /\ i \in Index
          BY <2>1
        <5> DEFINE r == Without(calls, i)
        <5>2. /\ r \in Seq(Entries(Index, Nat)) /\ KeysDiffer(r)
              /\ Len(r) <= Len(calls)
              /\ \A n \in DOMAIN r : r[n].key # i
              /\ \A n \in DOMAIN r : \E m \in DOMAIN calls : r[n] = calls[m]
              /\ \A m \in DOMAIN calls : calls[m].key # i => \E n \in DOMAIN r : r[n] = calls[m]
          BY ONLY <5>1, WithoutKey
        <5>3. QED
          BY ONLY <4>1, <5>2
      <4>3. Len(calls') <= settings'.callMax
        BY <1>4, <2>1, <4>2, LenProperties
      <4>4. ASSUME NEW n \in DOMAIN calls'
            PROVE  /\ calls'[n].from \in DOMAIN promises' /\ promises'[calls'[n].from].kind = "call"
                   /\ promises'[promises'[calls'[n].from].arg].arg = calls'[n].key
                   /\ calls'[n].pending <=> promises'[calls'[n].from].state = "running"
        <5>1. PICK m \in DOMAIN calls : calls'[n] = calls[m] /\ calls[m].key # i
          BY <4>2
        <5>2. /\ calls[m].from \in DOMAIN promises /\ promises[calls[m].from].kind = "call"
              /\ promises[calls[m].from].arg \in DOMAIN promises
              /\ promises[promises[calls[m].from].arg].arg = calls[m].key
              /\ calls[m].pending <=> promises[calls[m].from].state = "running"
          BY HeldCalls
        <5>3. calls[m].from # p
          BY <1>2, <3>3, <5>1, <5>2
        <5>4. QED
          BY <1>5, <1>8, <2>2, <5>1, <5>2, <5>3
      <4>5. ASSUME NEW q \in DOMAIN promises', promises'[q].kind = "call",
                   promises'[q].state = "running", Cardinality(Index) <= settings.callMax
            PROVE  \E n \in DOMAIN calls' : calls'[n].from = q
        <5>1. q # p /\ q \in DOMAIN promises /\ promises[q].kind = "call" /\ promises[q].state = "running"
          BY <1>5, <1>8, <2>2, <3>5, <4>5
        <5>2. PICK m \in DOMAIN calls : calls[m].from = q
          BY <4>5, <5>1 DEF Inv, CachesOK, CallsOK, Roomy, Holds
        <5>3. calls[m].key # i
          BY <3>4, <5>1, <5>2
        <5>4. QED
          BY <4>2, <5>2, <5>3
      <4>6. CallsOK'
        BY <1>4, <4>4, <4>5 DEF CallsOK, Is, IndexOf, Roomy, Holds
      <4>7. QED
        BY <4>2, <4>3, <4>6
    <3>6. CASE new.state = "ok"
      <4>1. calls' = Put(calls, settings.callMax, i, p, FALSE)
        BY <1>2, <1>5, <2>1, <2>4, <3>3, <3>6 DEF SettledCalls
      <4>2. /\ p \in Nat /\ p \in DOMAIN promises' /\ promises'[p].kind = "call"
            /\ promises'[promises'[p].arg].arg = i
            /\ FALSE <=> promises'[p].state = "running"
        BY <1>2, <1>3, <1>5, <1>6, <1>8, <2>4, <3>3, <3>6
      <4>3. QED
        BY <1>4, <1>5, <1>8, <2>2, <3>4, <4>1, <4>2, PuttingCall
    <3>7. QED
      BY <1>6, <3>5, <3>6
  <2>5. QED
    BY <2>3, <2>4
<1>14. Typed'
  BY <1>4, <1>5, <1>12, <1>13 DEF Inv, Typed
<1>15. CachesOK'
  <2>1. Is(TruePromise, "valid")' /\ promises'[TruePromise].state = "ok"
    BY <1>5, <1>10 DEF Is
  <2>2. latestCache'.p # 0 => Is(latestCache.p, "latest")'
    <3>1. latestCache.p # 0 => latestCache.p \in DOMAIN promises /\ promises[latestCache.p].kind = "latest"
      BY DEF Inv, CachesOK, Is
    <3>2. QED
      BY <1>4, <1>5, <1>8, <3>1 DEF Is
  <2>3. ASSUME NEW i \in Index
        PROVE  /\ pending'[i] # 0 => /\ Is(pending[i], "commit")' /\ IndexOf(pending[i])' = i
                                     /\ promises'[pending'[i]].state = "running"
               /\ cached'[i] # 0 => /\ Is(cached[i], "commit")' /\ IndexOf(cached[i])' = i
                                    /\ promises'[cached'[i]].state # "running"
    <3>1. CASE pending'[i] = 0 /\ cached'[i] = p /\ it.kind = "commit" /\ it.arg = i
      BY <1>5, <1>6, <3>1 DEF Is, IndexOf
    <3>2. CASE /\ pending'[i] = pending[i] /\ cached'[i] = cached[i]
               /\ ~(it.kind = "commit" /\ it.arg = i /\ pending[i] = p)
      <4>1. /\ pending[i] # 0 =>
                /\ pending[i] \in DOMAIN promises /\ promises[pending[i]].kind = "commit"
                /\ promises[pending[i]].arg = i /\ promises[pending[i]].state = "running"
            /\ cached[i] # 0 =>
                /\ cached[i] \in DOMAIN promises /\ promises[cached[i]].kind = "commit"
                /\ promises[cached[i]].arg = i /\ promises[cached[i]].state # "running"
        BY DEF Inv, CachesOK, Is, IndexOf
      <4>2. (pending[i] # 0 => pending[i] # p) /\ (cached[i] # 0 => cached[i] # p)
        BY <1>2, <3>2, <4>1
      <4>3. QED
        BY <1>5, <3>2, <4>1, <4>2 DEF Is, IndexOf
    <3>3. QED
      BY <1>12, <3>1, <3>2
  <2>4. QED
    BY <1>13, <2>1, <2>2, <2>3 DEF CachesOK, IndexOf
<1>16. Forward
  BY <1>2, <1>12 DEF Forward, Is
<1>17. QED
  BY <1>4, <1>5, <1>9, <1>11, <1>14, <1>15, <1>16, Waiting

\* The cached verdict or parent of a commit expires.
LEMMA CommitExpires ==
    ASSUME Inv, NEW c \in DOMAIN promises, NEW it \in Promise,
           promises[c].kind = "commit", promises[c].state = "ok",
           promises' = [promises EXCEPT ![c] = it],
           it.kind = promises[c].kind, it.arg = promises[c].arg, it.state = promises[c].state,
           it.val = promises[c].val, it.of = promises[c].of,
           it.valid.p = promises[c].valid.p, it.parent.p = promises[c].parent.p,
           it.valid = promises[c].valid \/ (Settled(promises[c].valid.p) /\ ~it.valid.fresh),
           UNCHANGED <<settings, latest, version, latestCache, pending, cached, calls, caller>>,
           expiries' \in Nat
    PROVE  Inv'
<1>1. /\ promises \in Seq(Promise) /\ Len(promises) \in Nat /\ DOMAIN promises = 1 .. Len(promises)
      /\ version \in [Index -> Nat]
  BY PromisesTyped DEF Inv, Typed
<1>2. /\ promises' \in Seq(Promise) /\ Len(promises') = Len(promises)
      /\ DOMAIN promises' = DOMAIN promises /\ promises'[c] = it
      /\ \A q \in DOMAIN promises \ {c} : promises'[q] = promises[q]
  BY <1>1, LenProperties, ExceptSeq
<1>3. \A q \in DOMAIN promises :
        /\ promises'[q].kind = promises[q].kind /\ promises'[q].arg = promises[q].arg
        /\ promises'[q].state = promises[q].state /\ promises'[q].val = promises[q].val
        /\ promises'[q].of = promises[q].of
        /\ promises'[q].valid.p = promises[q].valid.p /\ promises'[q].parent.p = promises[q].parent.p
        /\ \/ promises'[q].valid = promises[q].valid
           \/ Settled(promises[q].valid.p) /\ ~promises'[q].valid.fresh
  BY <1>2
<1>4. version' \in [Index -> Nat] /\ \A i \in Index : version[i] <= version'[i]
  BY <1>1
<1>5. Kept
  <2>1. Len(promises') >= Len(promises)
    BY <1>1, <1>2
  <2>2. QED
    BY <1>2, <1>3, <1>4, <2>1 DEF Kept
<1>6. \A q \in DOMAIN promises' : PromiseOK(q)'
  BY <1>2, <1>3, <1>4, PromiseStays
<1>7. Typed'
  BY <1>2 DEF Inv, Typed
<1>8. CachesOK'
  <2>1. \A i \in Index : cached'[i] \in {cached[i], 0} /\ pending'[i] \in {pending[i], 0}
    OBVIOUS
  <2>2. QED
    BY <1>2, <1>3, <2>1, CachesStay
<1>9. Forward
  BY DEF Forward
<1>10. QED
  BY <1>5, <1>6, <1>7, <1>8, <1>9, Waiting

\* Time passes.
LEMMA ExpireKeeps == ASSUME Inv, Expire PROVE Inv'
<1>1. /\ UNCHANGED <<settings, latest, version, pending, calls, caller>> /\ expiries' \in Nat
      /\ promises \in Seq(Promise) /\ Len(promises) \in Nat /\ DOMAIN promises = 1 .. Len(promises)
      /\ version \in [Index -> Nat] /\ latestCache \in Cached /\ cached \in [Index -> Nat]
  <2>1. /\ UNCHANGED <<settings, latest, version, pending, calls, caller>> /\ expiries' = expiries + 1
    BY DEF Expire
  <2>2. QED
    BY <2>1, PromisesTyped DEF Inv, Typed
<1>2. ASSUME UNCHANGED promises, latestCache' \in Cached, latestCache'.p = latestCache.p,
             cached' \in [Index -> Nat], \A i \in Index : cached'[i] \in {cached[i], 0}
      PROVE  Inv'
  <2>1. Typed'
    BY <1>1, <1>2 DEF Inv, Typed
  <2>2. CachesOK'
    <3>1. latestCache'.p # 0 => Is(latestCache.p, "latest")'
      BY <1>2 DEF Inv, CachesOK, Is
    <3>2. Is(TruePromise, "valid")' /\ promises'[TruePromise].state = "ok"
      BY <1>2 DEF Inv, CachesOK, Is
    <3>3. \A i \in Index :
            /\ pending'[i] # 0 => /\ Is(pending[i], "commit")' /\ IndexOf(pending[i])' = i
                                  /\ promises'[pending'[i]].state = "running"
            /\ cached'[i] # 0 => /\ Is(cached[i], "commit")' /\ IndexOf(cached[i])' = i
                                 /\ promises'[cached'[i]].state # "running"
      BY <1>1, <1>2 DEF Inv, CachesOK, Is, IndexOf
    <3>4. CallsOK'
      BY <1>1, <1>2, CallsStay
    <3>5. QED
      BY <3>1, <3>2, <3>3, <3>4 DEF CachesOK, IndexOf
  <2>3. Kept /\ \A p \in DOMAIN promises' : PromiseOK(p)'
    <3>1. version' \in [Index -> Nat] /\ \A i \in Index : version[i] <= version'[i]
      BY <1>1
    <3>2. QED
      BY <1>2, <3>1, SamePromises
  <2>4. Forward
    BY <1>2 DEF Forward
  <2>5. QED
    BY <1>1, <2>1, <2>2, <2>3, <2>4, Waiting
<1>3. CASE latestCache' = [latestCache EXCEPT !.fresh = FALSE] /\ UNCHANGED <<promises, cached>>
  <2>1. latestCache' \in Cached /\ latestCache'.p = latestCache.p
    BY <1>1, <1>3 DEF Cached
  <2>2. QED
    BY <1>1, <1>2, <1>3, <2>1
<1>4. ASSUME NEW i \in Index, cached' = [cached EXCEPT ![i] = 0], UNCHANGED <<latestCache, promises>>
      PROVE  Inv'
  <2>1. cached' \in [Index -> Nat] /\ \A j \in Index : cached'[j] \in {cached[j], 0}
    BY <1>1, <1>4
  <2>2. QED
    BY <1>1, <1>2, <1>4, <2>1
<1>5. ASSUME NEW c \in DOMAIN promises, promises[c].kind = "commit", promises[c].state = "ok",
             UNCHANGED <<latestCache, cached>>,
             \/ /\ Settled(promises[c].valid.p)
                /\ promises' = [promises EXCEPT ![c].valid.fresh = FALSE]
             \/ promises' = [promises EXCEPT ![c].parent.fresh = FALSE]
      PROVE  Inv'
  <2>1. PICK was \in Promise : was = promises[c] /\ was.valid \in Cached /\ was.parent \in Cached
    BY PromisesTyped DEF Inv
  <2>2. CASE Settled(was.valid.p) /\ promises' = [promises EXCEPT ![c].valid.fresh = FALSE]
    <3> DEFINE cv == [was.valid EXCEPT !.fresh = FALSE]
               it == [was EXCEPT !.valid = cv]
    <3>1. cv \in Cached /\ cv.p = was.valid.p /\ ~cv.fresh
      BY <2>1 DEF Cached
    <3>2. promises' = [promises EXCEPT ![c] = it]
      BY <2>1, <2>2
    <3> HIDE DEF cv
    <3>3. /\ it \in Promise /\ it.valid = cv
          /\ it.kind = was.kind /\ it.arg = was.arg /\ it.state = was.state
          /\ it.val = was.val /\ it.of = was.of /\ it.parent = was.parent
      BY <3>1 DEF Promise
    <3> HIDE DEF it
    <3>4. /\ it.valid.p = was.valid.p /\ it.parent.p = was.parent.p
          /\ it.valid = was.valid \/ (Settled(was.valid.p) /\ ~it.valid.fresh)
      BY <2>2, <3>1, <3>3
    <3>5. QED
      BY <1>1, <1>5, <2>1, <3>2, <3>3, <3>4, CommitExpires
  <2>3. CASE promises' = [promises EXCEPT ![c].parent.fresh = FALSE]
    <3> DEFINE cv == [was.parent EXCEPT !.fresh = FALSE]
               it == [was EXCEPT !.parent = cv]
    <3>1. cv \in Cached /\ cv.p = was.parent.p /\ ~cv.fresh
      BY <2>1 DEF Cached
    <3>2. promises' = [promises EXCEPT ![c] = it]
      BY <2>1, <2>3
    <3> HIDE DEF cv
    <3>3. /\ it \in Promise /\ it.parent = cv
          /\ it.kind = was.kind /\ it.arg = was.arg /\ it.state = was.state
          /\ it.val = was.val /\ it.of = was.of /\ it.valid = was.valid
      BY <3>1 DEF Promise
    <3> HIDE DEF it
    <3>4. /\ it.valid.p = was.valid.p /\ it.parent.p = was.parent.p
          /\ it.valid = was.valid
      BY <3>1, <3>3
    <3>5. /\ it.kind = promises[c].kind /\ it.arg = promises[c].arg /\ it.state = promises[c].state
          /\ it.val = promises[c].val /\ it.of = promises[c].of /\ it.valid = promises[c].valid
          /\ it.valid.p = promises[c].valid.p /\ it.parent.p = promises[c].parent.p
      BY <2>1, <3>3, <3>4
    <3>6. it.valid = promises[c].valid \/ (Settled(promises[c].valid.p) /\ ~it.valid.fresh)
      BY <3>5
    <3>7. UNCHANGED <<settings, latest, version, latestCache, pending, cached, calls, caller>>
      BY <1>1, <1>5
    <3>8. QED
      BY <1>1, <1>5, <3>2, <3>3, <3>5, <3>6, <3>7, CommitExpires
  <2>4. QED
    BY <1>5, <2>1, <2>2, <2>3
<1>6. QED
  BY <1>3, <1>4, <1>5 DEF Expire

\* The rollup goes on, or replaces a commit.
LEMMA RollupKeeps ==
    ASSUME Inv, Advance \/ Replace
    PROVE  Inv'
<1>1. /\ UNCHANGED <<settings, promises, latestCache, pending, cached, calls, caller, expiries>>
      /\ latest' \in First .. Last
      /\ version' \in [Index -> Nat] /\ \A i \in Index : version[i] <= version'[i]
  <2>1. CASE Advance
    BY <2>1, Indices DEF Advance, Inv, Typed
  <2>2. CASE Replace
    <3>1. PICK i \in First .. latest : version' = [version EXCEPT ![i] = @ + 1]
      BY <2>2 DEF Replace
    <3>2. version \in [Index -> Nat] /\ latest \in First .. Last
      BY DEF Inv, Typed
    <3>3. i \in Index /\ version[i] \in Nat
      BY <3>1, <3>2, Indices
    <3>4. QED
      BY <2>2, <3>1, <3>2, <3>3 DEF Replace
  <2>3. QED
    BY <2>1, <2>2
<1>2. Typed'
  BY <1>1 DEF Inv, Typed
<1>3. CachesOK'
  <2>1. CachesOK /\ \A p \in DOMAIN promises' : promises'[p] = promises[p]
    BY <1>1 DEF Inv
  <2>2. QED
    BY <1>1, <2>1 DEF CachesOK, CallsOK, Roomy, Holds, Is, IndexOf
<1>4. Kept /\ \A p \in DOMAIN promises' : PromiseOK(p)'
  BY <1>1, SamePromises
<1>5. Forward
  BY <1>1 DEF Forward
<1>6. QED
  BY <1>1, <1>2, <1>3, <1>4, <1>5, Waiting

----------------------------------------------------------------------------
\* The invariant holds in the initial states.
LEMMA InvInit == Init => Inv
<1> SUFFICES ASSUME Init PROVE Inv
  OBVIOUS
<1>1. PICK first \in Promise : promises = <<first>> /\ first.kind = "valid" /\ first.state = "ok"
                               /\ first.valid.p = 0 /\ first.parent.p = 0
  <2> DEFINE first == [Promised("valid", 0) EXCEPT !.state = "ok", !.val = 1]
  <2>1. Promised("valid", 0) \in Promise
    BY PromisedTyped DEF Kinds
  <2>2. first \in Promise
    BY <2>1 DEF Promise, States
  <2>3. first.kind = "valid" /\ first.state = "ok" /\ first.valid.p = 0 /\ first.parent.p = 0
    BY DEF Promised, CV
  <2>4. promises = <<first>>
    BY DEF Init
  <2> HIDE DEF first
  <2>5. QED
    BY <2>2, <2>3, <2>4
<1>2. promises \in Seq(Promise) /\ Len(promises) = 1 /\ DOMAIN promises = {1} /\ promises[1] = first
  BY <1>1
<1>3. Idle \in Call
  BY DEF Idle, Call
<1>a. /\ calls = <<>> /\ calls \in Seq(Entries(Index, Nat)) /\ DOMAIN calls = {} /\ Len(calls) = 0
      /\ KeysDiffer(calls)
  <2>1. calls = <<>>
    BY DEF Init
  <2>2. QED
    BY <2>1, EmptySeq DEF KeysDiffer
<1>b. settings \in Settings /\ settings.callMax \in Nat /\ Len(calls) <= settings.callMax
  BY <1>a, Indices DEF Init
<1>4. Typed
  BY <1>2, <1>3, <1>a, <1>b, Indices DEF Init, Typed, Cached, CV
<1>c. CallsOK
  BY <1>1, <1>2, <1>a DEF CallsOK
<1>5. CachesOK
  BY <1>1, <1>2, <1>c DEF Init, CachesOK, Is, TruePromise, CV
<1>6. PromiseOK(1)
  BY <1>1, <1>2 DEF PromiseOK, TruePromise
<1>7. CallOK(Idle)
  BY <1>2 DEF CallOK, Idle, PromiseNumber, Ended
<1>8. \A r \in Caller : CallOK(caller[r])
  BY <1>7 DEF Init
<1>9. QED
  BY <1>2, <1>4, <1>5, <1>6, <1>8 DEF Inv

\* Every step keeps the invariant.
LEMMA InvNext == Inv /\ [Next]_vars => Inv'
<1> SUFFICES ASSUME Inv, [Next]_vars PROVE Inv'
  OBVIOUS
<1>1. ASSUME NEW r \in Caller, Step(r) PROVE Inv'
  BY <1>1, StartKeeps, PrevKeeps, NextKeeps, PeekedKeeps, ValidatedKeeps, CommitKeeps, WalkKeeps,
     ParentKeeps, AnswerKeeps, RespondKeeps, ThrowsKeeps DEF Step
<1>2. ASSUME NEW p \in DOMAIN promises, Settle(p) PROVE Inv'
  BY <1>2, SettleKeeps
<1>3. CASE UNCHANGED vars
  <2>1. Typed' /\ CachesOK'
    BY <1>3 DEF vars, Inv, Typed, CachesOK, CallsOK, Roomy, Holds, Is, IndexOf
  <2>2. \A p \in DOMAIN promises : PromiseOK(p)'
    BY <1>3 DEF vars, Inv, PromiseOK, Is, IndexOf, Suspect, BadVerdict, Settled, PromiseNumber
  <2>3. \A r \in Caller : CallOK(caller[r])'
    <3> SUFFICES ASSUME NEW r \in Caller PROVE CallOK(caller[r])'
      OBVIOUS
    <3>1. CallOK(caller[r])
      BY DEF Inv
    <3>2. PICK it : it = caller[r]
      OBVIOUS
    <3>3. /\ UNCHANGED <<settings, promises, cached, version>> /\ caller'[r] = it
          /\ PromiseNumber' = PromiseNumber
      BY <1>3, <3>2 DEF vars, PromiseNumber
    <3>4. \A c : Suspect(c)' <=> Suspect(c)
      BY <3>3 DEF Suspect, BadVerdict, Settled, Is, IndexOf
    <3>5. Place(it)' <=> Place(it)
      BY <3>3 DEF Place, Suspect, BadVerdict, Settled, Is, IndexOf
    <3>6. QED
      BY <3>1, <3>2, <3>3, <3>4, <3>5 DEF CallOK, Is, IndexOf, BadVerdict, HasCursor
  <2>4. promises' = promises /\ caller' = caller
    BY <1>3 DEF vars
  <2>5. QED
    BY <2>1, <2>2, <2>3, <2>4 DEF Inv
<1>4. QED
  BY <1>1, <1>2, <1>3, ExpireKeeps, RollupKeeps DEF Next

LEMMA InvHolds == Spec => []Inv
BY InvInit, InvNext, PTL DEF Spec

\* Every variable keeps its type: what the caches hold is of its kind, and what
\* a call awaits was made.
THEOREM TypeCorrect == Spec => []TypeOK
<1>1. Inv => TypeOK
  <2> SUFFICES ASSUME Inv PROVE TypeOK
    OBVIOUS
  <2>1. /\ Len(promises) \in Nat /\ DOMAIN promises = 1 .. Len(promises)
    BY PromisesTyped DEF Inv
  <2>2. latest \in Index /\ version \in [Index -> Nat] /\ expiries \in Nat
    BY Indices DEF Inv, Typed
  <2>3. \A p \in DOMAIN promises :
            /\ promises[p].kind \in Kinds /\ promises[p].state \in States
            /\ promises[p].valid \in CVs /\ promises[p].parent \in CVs
            /\ promises[p].kind \in {"valid", "parent", "call"} /\ p # TruePromise =>
                /\ promises[p].arg \in DOMAIN promises
                /\ promises[promises[p].arg].kind = "commit"
                /\ promises[promises[p].arg].state = "ok"
    BY <2>1, PromisesTyped DEF Inv, PromiseOK, Is, CVs, PromiseNumber, Cached
  <2>4. latestCache \in CVs
    BY <2>1 DEF Inv, Typed, CachesOK, Is, CVs, PromiseNumber, Cached
  <2>5. \A i \in Index :
        /\ pending[i] # 0 => /\ promises[pending[i]].state = "running"
                            /\ promises[pending[i]].kind = "commit" /\ IndexOf(pending[i]) = i
        /\ cached[i] # 0 => /\ promises[cached[i]].state # "running"
                           /\ promises[cached[i]].kind = "commit" /\ IndexOf(cached[i]) = i
    BY DEF Inv, CachesOK, Is
  <2>6. \A r \in Caller :
            /\ caller[r].pc \in Ended \cup {"start", "prev", "next", "peek", "valid", "commit",
                                            "walk", "parent", "answer", "call"}
            /\ caller[r].wait \in PromiseNumber /\ caller[r].cursor \in PromiseNumber
    BY KnownTyped DEF CallOK, Call
  <2>7. calls \in Seq(Entries(Index, DOMAIN promises))
    <3>1. calls \in Seq(Entries(Index, Nat)) /\ Len(calls) \in Nat /\ DOMAIN calls = 1 .. Len(calls)
      BY LenProperties DEF Inv, Typed
    <3>2. \A n \in 1 .. Len(calls) : calls[n] \in Entries(Index, DOMAIN promises)
      BY <3>1, HeldCalls DEF Entries
    <3>3. calls = [n \in 1 .. Len(calls) |-> calls[n]]
      BY <3>1
    <3>4. QED
      BY <3>1, <3>2, <3>3, SeqDef
  <2>8. \A n \in DOMAIN calls :
            /\ promises[calls[n].from].kind = "call"
            /\ IndexOf(promises[calls[n].from].arg) = calls[n].key
            /\ calls[n].pending <=> promises[calls[n].from].state = "running"
    BY HeldCalls DEF IndexOf
  <2>9. QED
    BY <2>2, <2>3, <2>4, <2>5, <2>6, <2>7, <2>8 DEF TypeOK, States
<1>2. QED
  BY <1>1, InvHolds, PTL

\* Whoever is answered is answered at the commit asked for, or at the latest
\* there was when the call looked if that is older.
THEOREM EveryoneAnsweredAsAsked == Spec => []AnsweredAsAsked
<1>1. Inv => AnsweredAsAsked
  <2> SUFFICES ASSUME Inv, NEW r \in Caller, caller[r].pc = "done"
               PROVE  IndexOf(promises[caller[r].wait].val) = Smaller(caller[r].want, caller[r].next)
    BY DEF AnsweredAsAsked
  <2>1. PICK it \in Call : it = caller[r] /\ CallOK(it)
    BY KnownTyped
  <2>2. /\ it.wait \in DOMAIN promises /\ promises[it.wait].kind = "call"
        /\ promises[it.wait].state = "ok" /\ IndexOf(promises[it.wait].arg) = Smaller(it.want, it.next)
    BY <2>1 DEF CallOK, Is
  <2>3. promises[it.wait].val = promises[it.wait].arg
    BY <2>2 DEF Inv, PromiseOK
  <2>4. QED
    BY <2>1, <2>2, <2>3
<1>2. QED
  BY <1>1, InvHolds, PTL

\* Whoever is refused as too old asked for a commit beyond commitDepth.
THEOREM RefusedAreTooOld == Spec => []TooOldIsTooOld
<1>1. Inv => TooOldIsTooOld
  BY KnownTyped DEF TooOldIsTooOld, CallOK
<1>2. QED
  BY <1>1, InvHolds, PTL

\* Nobody is answered at a commit known to be replaced when the call began.
THEOREM AnswersAreCurrent == Spec => []NoOutdatedCommit
<1>1. Inv => NoOutdatedCommit
  BY KnownTyped DEF NoOutdatedCommit, CallOK
<1>2. QED
  BY <1>1, InvHolds, PTL

\* With room in callLRU for the answers of all indices, a request is evaluated
\* once at a time for each commit index.
THEOREM EvaluatesOnce == Spec => []OneEvaluation
<1>1. Inv => OneEvaluation
  <2> SUFFICES ASSUME Inv, Roomy, NEW p \in DOMAIN promises, NEW q \in DOMAIN promises,
                      promises[p].kind = "call", promises[p].state = "running",
                      promises[q].kind = "call", promises[q].state = "running",
                      IndexOf(promises[p].arg) = IndexOf(promises[q].arg)
               PROVE  p = q
    BY DEF OneEvaluation
  <2>1. PICK m \in DOMAIN calls : calls[m].from = p
    BY DEF Inv, CachesOK, CallsOK, Holds
  <2>2. PICK n \in DOMAIN calls : calls[n].from = q
    BY DEF Inv, CachesOK, CallsOK, Holds
  <2>3. calls[m].key = calls[n].key
    BY <2>1, <2>2, HeldCalls DEF IndexOf
  <2>4. m = n
    BY <2>3 DEF Inv, Typed, KeysDiffer
  <2>5. QED
    BY <2>1, <2>2, <2>4
<1>2. QED
  BY <1>1, InvHolds, PTL
=============================================================================
