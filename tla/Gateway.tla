------------------------------- MODULE Gateway -------------------------------
(***************************************************************************)
(* The gateway of src/gateway.ts: concurrent proveRequest() calls, each of *)
(* them cut into steps at its awaits, over three shared caches: the latest *)
(* commit index, the commits by index (each with a cached verdict whether  *)
(* it is still valid and a cached parent index), and the answers by commit *)
(* index and request.  The caches are those of CachedValue, CachedMap and  *)
(* LRU; here, what the first two keep may expire at any time, and the third*)
(* drops its oldest entry for room.  Every promise ever made stays in      *)
(* "promises", and whoever awaits one holds its number.                    *)
(*                                                                         *)
(* The rollup is external: commits follow each other by one, the latest    *)
(* advances, a commit may be deleted and replaced, a fetch may fail.       *)
(***************************************************************************)
EXTENDS LRUMap, FiniteSets, Functions

CONSTANTS
    Caller,             \* the proveRequest() calls; all send the same program
    First, Last,        \* the commit indices there may be
    Settings,           \* the values of commitDepth, allowHistorical, callLRU.max
    MaxTrouble          \* bound on the commits replaced, the fetches that fail
                        \* and the cache entries that expire, together

ASSUME GatewayAssumption ==
    /\ First \in Nat \ {0} /\ Last \in Nat /\ First <= Last
    /\ Settings \subseteq [commitDepth : Nat, allowHistorical : BOOLEAN, callMax : Nat]
    /\ MaxTrouble \in Nat

VARIABLES
    settings,       \* commitDepth, allowHistorical and callLRU.max
    latest,         \* rollup: the latest finalized commit index
    version,        \* rollup: how often the commit at an index was replaced
    promises,       \* every promise made so far
    latestCache,    \* latestCache
    pending,        \* commitCacheMap.pending: index -> promise, or 0
    cached,         \* commitCacheMap.cached: index -> promise, or 0
    calls,          \* callLRU: the promises by index, the oldest first
    caller,         \* the state of each call
    expiries        \* how many entries expired so far

vars == <<settings, latest, version, promises, latestCache, pending, cached, calls, caller, expiries>>

\* The indices a call may ask for: those of commits, and one before them.
Index == First - 1 .. Last

\* A CachedValue: its promise (0: none), and whether it has not expired.
CV(p) == [p |-> p, fresh |-> TRUE]

\* A promise: what it is for, its state, and what it resolves to.  A commit
\* resolves to an object, which is its promise's number; "of" is then the
\* version fetched, "valid" and "parent" are the object's caches.
Promised(kind, arg) ==
    [kind |-> kind, arg |-> arg, state |-> "running", val |-> 0, of |-> 0,
     valid |-> CV(0), parent |-> CV(0), brief |-> FALSE]

TruePromise == 1        \* valid.set(true)

Idle == [pc |-> "start", want |-> 0, wait |-> 0, prev |-> 0, next |-> 0,
         for |-> "latest", arg |-> 0, cursor |-> 0, depth |-> 0, known |-> {}]

Init ==
    /\ settings \in Settings
    /\ latest = First
    /\ version = [i \in Index |-> 0]
    /\ promises = << [Promised("valid", 0) EXCEPT !.state = "ok", !.val = 1] >>
    /\ latestCache = CV(0)
    /\ pending = [i \in Index |-> 0]
    /\ cached = [i \in Index |-> 0]
    /\ calls = <<>>
    /\ caller = [r \in Caller |-> Idle]
    /\ expiries = 0

----------------------------------------------------------------------------
\* CachedValue.get(): the promise already there if it is pending or fresh, or
\* else a new one.
Usable(cv) == cv.p # 0 /\ (promises[cv.p].state = "running" \/ cv.fresh)
NextId     == Len(promises) + 1
Joined(cv) == IF Usable(cv) THEN cv ELSE CV(NextId)
Made(cv, kind, arg) == IF Usable(cv) THEN promises ELSE Append(promises, Promised(kind, arg))

\* CachedMap.peek()
PeekCommit(i) == IF cached[i] # 0 THEN cached[i] ELSE pending[i]

Settled(p)  == p \notin {q \in DOMAIN promises : promises[q].state = "running"}
Rejected(p) == p \in {q \in DOMAIN promises : promises[q].state = "err"}
IndexOf(c) == promises[c].arg

At(r, pc) == caller[r].pc = pc /\ Settled(caller[r].wait)
Goes(r, new) == caller' = [caller EXCEPT ![r] = new]

\* Mutant: a call that failed starts over at once.  What failed is still kept,
\* and no timer fires while promises that have settled are awaited.
ThrowsAndRetries(r, pc) ==
    /\ At(r, pc) /\ Rejected(caller[r].wait)
    /\ Goes(r, [caller[r] EXCEPT !.pc = "prev", !.wait = latestCache.p, !.depth = 0])
    /\ UNCHANGED <<settings, latest, version, promises, latestCache, pending, cached, calls, expiries>>

\* An await that throws ends the call, as does "too old".
Throws(r, pc) ==
    /\ At(r, pc) /\ Rejected(caller[r].wait)
    /\ Goes(r, [caller[r] EXCEPT !.pc = "failed"])
    /\ UNCHANGED <<settings, latest, version, promises, latestCache, pending, cached, calls, expiries>>

Resumes(r, pc) == At(r, pc) /\ ~Rejected(caller[r].wait)

\* The commits that are no longer what the rollup has, and whose verdict was
\* asked for and has expired since: what the caller should not be given.
Outdated ==
    {c \in DOMAIN promises :
        /\ promises[c].kind = "commit" /\ promises[c].state = "ok"
        /\ promises[c].of # version[IndexOf(c)]
        /\ Settled(promises[c].valid.p) /\ ~promises[c].valid.fresh}

----------------------------------------------------------------------------
\* getRecentCommit(index), _updateLatest(): the previous value is awaited.
Start(r) ==
    /\ caller[r].pc = "start"
    /\ \E want \in Index :
        Goes(r, [Idle EXCEPT !.pc = "prev", !.want = want, !.wait = latestCache.p,
                             !.known = Outdated])
    /\ UNCHANGED <<settings, latest, version, promises, latestCache, pending, cached, calls, expiries>>

\* "const prev = await ...catch(() => {})", then latestCache.get()
Prev(r) ==
    /\ At(r, "prev")
    /\ LET p == caller[r].wait
       IN  Goes(r, [caller[r] EXCEPT !.pc = "next", !.wait = Joined(latestCache).p,
                !.prev = IF p = 0 \/ Rejected(p) THEN 0 ELSE promises[p].val])
    /\ latestCache' = Joined(latestCache)
    /\ promises' = Made(latestCache, "latest", 0)
    /\ UNCHANGED <<settings, latest, version, pending, cached, calls, expiries>>

\* cachedCommit(index): await commitCacheMap.peek(index).
Peeking(r, i, for) ==
    [caller[r] EXCEPT !.pc = "peek", !.arg = i, !.for = for, !.wait = PeekCommit(i)]

Next_(r) ==
    /\ Resumes(r, "next")
    /\ LET next == promises[caller[r].wait].val
       IN  Goes(r, [Peeking(r, next, "latest") EXCEPT !.next = next])
    /\ UNCHANGED <<settings, latest, version, promises, latestCache, pending, cached, calls, expiries>>

\* commitCacheMap.get(index, ...), once it is deleted there or was not valid.
GetCommit(r, isDeleted) ==
    LET i     == caller[r].arg
        brief == caller[r].for = "historical"
        there == IF isDeleted THEN 0 ELSE PeekCommit(i)
        held  == IF isDeleted THEN [cached EXCEPT ![i] = 0] ELSE cached
    IN  /\ Goes(r, [caller[r] EXCEPT !.pc = "commit",
                        !.wait = IF there # 0 THEN there ELSE NextId])
        /\ cached' = held
        /\ IF there # 0 THEN UNCHANGED <<promises, pending>>
           ELSE /\ promises' = Append(promises, [Promised("commit", i) EXCEPT !.brief = brief])
                /\ pending' = [pending EXCEPT ![i] = NextId]
        /\ UNCHANGED <<settings, latest, version, latestCache, calls, expiries>>

\* The commit that was there: ask for its verdict; if none was, fetch it.
Peeked(r) ==
    /\ Resumes(r, "peek")
    /\ LET c == caller[r].wait
       IN  IF c = 0 THEN GetCommit(r, FALSE)
           ELSE LET valid == promises[c].valid
                IN  /\ Goes(r, [caller[r] EXCEPT !.pc = "valid", !.wait = Joined(valid).p])
                    /\ promises' = [Made(valid, "valid", c) EXCEPT ![c].valid = Joined(valid)]
                    /\ UNCHANGED <<settings, latest, version, latestCache, pending, cached, calls, expiries>>

\* Mutant: only a verdict that could not be had counts as a bad one.
InvalidIfFailed(p) == Rejected(p)

\* "!(await cached.valid.get().catch(() => {}))"
Invalid(p) == Rejected(p) \/ promises[p].val = 0

\* Whatever is there by now is deleted if the one peeked at was not valid.
Validated(r) ==
    /\ At(r, "valid")
    /\ GetCommit(r, Invalid(caller[r].wait))

----------------------------------------------------------------------------
\* How [...keys].sort() orders bigints: by their decimal digits.
Digits(n) ==
    LET digits[m \in Nat] == IF m < 10 THEN <<m>> ELSE Append(digits[m \div 10], m % 10)
    IN  digits[n]
SortsBefore(m, n) ==
    LET a == Digits(m)
        b == Digits(n)
    IN  \/ \E i \in DOMAIN a : i \in DOMAIN b /\ a[i] < b[i] /\ \A j \in 1 .. i - 1 : a[j] = b[j]
        \/ Len(a) < Len(b) /\ \A i \in DOMAIN a : a[i] = b[i]

\* slice(0, -max) of the sorted keys
Old(keys, max) ==
    {i \in keys : Cardinality({j \in keys : SortsBefore(i, j)}) >= max}

\* The commits _updateLatest() purges, if the latest has changed.
Purged(r) ==
    LET keys == {i \in Index : cached[i] # 0}
        max  == settings.commitDepth + 1
    IN  IF caller[r].for = "latest" /\ caller[r].prev # caller[r].next /\ Cardinality(keys) > max
        THEN Old(keys, max) ELSE {}

\* The commit is there: it is the answer if it was asked for by its index, and
\* else the cursor.
Commit(r) ==
    /\ Resumes(r, "commit")
    /\ cached' = [i \in Index |-> IF i \in Purged(r) THEN 0 ELSE cached[i]]
    /\ pending' = [i \in Index |-> IF i \in Purged(r) THEN 0 ELSE pending[i]]
    /\ Goes(r, [caller[r] EXCEPT !.pc = IF caller[r].for = "historical" THEN "answer" ELSE "walk",
                                 !.cursor = caller[r].wait, !.wait = 0])
    /\ UNCHANGED <<settings, latest, version, promises, latestCache, calls, expiries>>

\* Mutant: the depth is counted twice.
DepthTwice(r) == 2 * (caller[r].depth + 1)

\* How many commits before the latest the loop of getRecentCommit() is at.
Depth(r) == caller[r].depth + 1

\* The loop of getRecentCommit()
Walk(r) ==
    /\ At(r, "walk")
    /\ LET c == caller[r].cursor
           parent == promises[c].parent
           depth == Depth(r)
       IN  IF caller[r].want >= IndexOf(c)
           THEN Goes(r, [caller[r] EXCEPT !.pc = "answer"]) /\ UNCHANGED promises
           ELSE IF depth <= settings.commitDepth
           THEN /\ Goes(r, [caller[r] EXCEPT !.pc = "parent", !.depth = depth,
                                             !.wait = Joined(parent).p])
                /\ promises' = [Made(parent, "parent", c) EXCEPT ![c].parent = Joined(parent)]
           ELSE IF settings.allowHistorical
           THEN Goes(r, Peeking(r, caller[r].want, "historical")) /\ UNCHANGED promises
           ELSE Goes(r, [caller[r] EXCEPT !.pc = "tooOld"]) /\ UNCHANGED promises
    /\ UNCHANGED <<settings, latest, version, latestCache, pending, cached, calls, expiries>>

Parent(r) ==
    /\ Resumes(r, "parent")
    /\ Goes(r, Peeking(r, promises[caller[r].wait].val, "parent"))
    /\ UNCHANGED <<settings, latest, version, promises, latestCache, pending, cached, calls, expiries>>

\* The call awaits the evaluation p, which callLRU keeps for the commit index i;
\* nothing is kept if it keeps nothing.
Calls(r, i, p, running) ==
    /\ Goes(r, [caller[r] EXCEPT !.pc = "call", !.wait = p])
    /\ calls' = Put(calls, settings.callMax, i, p, running)

\* callLRU.touch(): the evaluation that is kept for an index, if one is.
CallOf(i) == {e.from : e \in EntryOf(calls, i)}

\* Mutant: the answer is kept under the index the caller asked for.
AnswerByWant(r) ==
    /\ At(r, "answer")
    /\ LET i == caller[r].want
       IN  IF CallOf(i) # {}
           THEN \E p \in CallOf(i) : Calls(r, i, p, ~Settled(p)) /\ UNCHANGED promises
           ELSE /\ Calls(r, i, NextId, TRUE)
                /\ promises' = Append(promises, Promised("call", caller[r].cursor))
    /\ UNCHANGED <<settings, latest, version, latestCache, pending, cached, expiries>>

\* Mutant: an answer still being made is not waited for.
AnswerAgain(r) ==
    /\ At(r, "answer")
    /\ LET i     == IndexOf(caller[r].cursor)
           there == {p \in CallOf(i) : Settled(p)}
       IN  IF there # {}
           THEN \E p \in there : Calls(r, i, p, FALSE) /\ UNCHANGED promises
           ELSE /\ Calls(r, i, NextId, TRUE)
                /\ promises' = Append(promises, Promised("call", caller[r].cursor))
    /\ UNCHANGED <<settings, latest, version, latestCache, pending, cached, expiries>>

\* callLRU.cache(hash(commit.index, req), ...): evaluates the request with the
\* commit at hand, unless an answer is kept or on its way.  What is touched or
\* new is the newest, and takes the place of the oldest if there is no room.
Answer(r) ==
    /\ At(r, "answer")
    /\ LET i == IndexOf(caller[r].cursor)
       IN  IF CallOf(i) # {}
           THEN \E p \in CallOf(i) : Calls(r, i, p, ~Settled(p)) /\ UNCHANGED promises
           ELSE /\ Calls(r, i, NextId, TRUE)
                /\ promises' = Append(promises, Promised("call", caller[r].cursor))
    /\ UNCHANGED <<settings, latest, version, latestCache, pending, cached, expiries>>

Respond(r) ==
    /\ Resumes(r, "call")
    /\ Goes(r, [caller[r] EXCEPT !.pc = "done"])
    /\ UNCHANGED <<settings, latest, version, promises, latestCache, pending, cached, calls, expiries>>

----------------------------------------------------------------------------
\* A fetch ends.  What is fetched is what the rollup has at that moment.
Settling(p, new) == promises' = [promises EXCEPT ![p] = new]

Trouble == FoldFunction(+, expiries, version)
           + Cardinality({p \in DOMAIN promises : promises[p].state = "err"})

Resolved(p) ==
    LET it == promises[p]
    IN  CASE it.kind = "latest" -> [it EXCEPT !.state = "ok", !.val = latest]
          [] it.kind = "commit" -> [it EXCEPT !.state = "ok", !.of = version[it.arg],
                                              !.valid = CV(TruePromise)]
          [] it.kind = "valid"  -> [it EXCEPT !.state = "ok",
                !.val = IF promises[it.arg].of = version[IndexOf(it.arg)] THEN 1 ELSE 0]
          [] it.kind = "parent" -> [it EXCEPT !.state = "ok", !.val = IndexOf(it.arg) - 1]
          [] it.kind = "call"   -> [it EXCEPT !.state = "ok", !.val = it.arg]

\* There is no commit before the first or after the latest.
CanResolve(p) ==
    CASE promises[p].kind = "commit" -> promises[p].arg \in First .. latest
      [] promises[p].kind = "parent" -> IndexOf(promises[p].arg) > First
      [] OTHER -> TRUE

\* The continuation of callLRU.setPending(): if the LRU still holds the promise,
\* its answer is put in its place, as the newest, or its rejection is forgotten.
Holds(p) == \E n \in DOMAIN calls : calls[n].from = p
SettledCalls(p) ==
    LET i == IndexOf(promises[p].arg)
    IN  IF promises[p].kind # "call" \/ ~Holds(p) THEN calls
        ELSE IF promises'[p].state = "err" THEN Without(calls, i)
        ELSE Put(calls, settings.callMax, i, p, FALSE)

\* setPending() of the commits moves a promise that is still pending to the
\* cached ones.
Settle(p) ==
    /\ promises[p].state = "running"
    /\ \/ CanResolve(p) /\ Settling(p, Resolved(p))
       \/ /\ ~CanResolve(p) \/ Trouble < MaxTrouble
          /\ Settling(p, [promises[p] EXCEPT !.state = "err"])
    /\ LET i == promises[p].arg
       IN  IF promises[p].kind = "commit" /\ pending[i] = p
           THEN pending' = [pending EXCEPT ![i] = 0] /\ cached' = [cached EXCEPT ![i] = p]
           ELSE UNCHANGED <<pending, cached>>
    /\ calls' = SettledCalls(p)
    /\ UNCHANGED <<settings, latest, version, latestCache, caller, expiries>>

\* Time passes: pollMs for the latest, the verdicts and the parents, errorMs for
\* rejected commits, 250 ms for historical ones; other commits are kept.
Expire ==
    /\ Trouble < MaxTrouble
    /\ expiries' = expiries + 1
    /\ \/ /\ latestCache.p # 0 /\ Settled(latestCache.p) /\ latestCache.fresh
          /\ latestCache' = [latestCache EXCEPT !.fresh = FALSE]
          /\ UNCHANGED <<promises, cached>>
       \/ /\ \E c \in DOMAIN promises :
                /\ promises[c].kind = "commit" /\ promises[c].state = "ok"
                /\ \/ /\ Settled(promises[c].valid.p) /\ promises[c].valid.fresh
                      /\ promises' = [promises EXCEPT ![c].valid.fresh = FALSE]
                   \/ /\ promises[c].parent.p # 0 /\ Settled(promises[c].parent.p)
                      /\ promises[c].parent.fresh
                      /\ promises' = [promises EXCEPT ![c].parent.fresh = FALSE]
          /\ UNCHANGED <<latestCache, cached>>
       \/ /\ \E i \in Index :
                /\ cached[i] # 0
                /\ promises[cached[i]].brief \/ Rejected(cached[i])
                /\ cached' = [cached EXCEPT ![i] = 0]
          /\ UNCHANGED <<latestCache, promises>>
    /\ UNCHANGED <<settings, latest, version, pending, calls, caller>>

\* The rollup goes on.
Advance ==
    /\ latest < Last
    /\ latest' = latest + 1
    /\ UNCHANGED <<settings, version, promises, latestCache, pending, cached, calls, caller, expiries>>

Replace ==
    /\ \E i \in First .. latest :
        /\ Trouble < MaxTrouble
        /\ version' = [version EXCEPT ![i] = @ + 1]
    /\ UNCHANGED <<settings, latest, promises, latestCache, pending, cached, calls, caller, expiries>>

Step(r) ==
    \/ Start(r) \/ Prev(r) \/ Next_(r) \/ Peeked(r) \/ Validated(r) \/ Commit(r)
    \/ Walk(r) \/ Parent(r) \/ Answer(r) \/ Respond(r)
    \/ \E pc \in {"next", "peek", "commit", "parent", "call"} : Throws(r, pc)

Next ==
    \/ \E r \in Caller : Step(r)
    \/ \E p \in DOMAIN promises : Settle(p)
    \/ Expire \/ Advance \/ Replace

Spec == Init /\ [][Next]_vars

\* A call goes on when what it awaits is there, and every fetch ends.
FairSpec ==
    /\ Spec
    /\ \A r \in Caller : WF_vars(Step(r))
    /\ WF_vars(\E p \in DOMAIN promises : Settle(p))
----------------------------------------------------------------------------
Kinds == {"latest", "commit", "valid", "parent", "call"}
Ended == {"done", "tooOld", "failed"}

PromiseNumber == 0 .. Len(promises)
CVs == [p : PromiseNumber, fresh : BOOLEAN]

TypeOK ==
    /\ latest \in Index /\ version \in [Index -> Nat] /\ expiries \in Nat
    /\ \A p \in DOMAIN promises :
        /\ promises[p].kind \in Kinds /\ promises[p].state \in {"running", "ok", "err"}
        /\ promises[p].valid \in CVs /\ promises[p].parent \in CVs
        /\ promises[p].kind \in {"valid", "parent", "call"} /\ p # TruePromise =>
            /\ promises[p].arg \in DOMAIN promises
            /\ promises[promises[p].arg].kind = "commit"
            /\ promises[promises[p].arg].state = "ok"
    /\ latestCache \in CVs
    /\ \A i \in Index :
        /\ pending[i] # 0 => /\ promises[pending[i]].state = "running"
                            /\ promises[pending[i]].kind = "commit" /\ IndexOf(pending[i]) = i
        /\ cached[i] # 0 => /\ promises[cached[i]].state # "running"
                           /\ promises[cached[i]].kind = "commit" /\ IndexOf(cached[i]) = i
    /\ calls \in Seq(Entries(Index, DOMAIN promises))
    /\ \A n \in DOMAIN calls :
        /\ promises[calls[n].from].kind = "call"
        /\ IndexOf(promises[calls[n].from].arg) = calls[n].key
        /\ calls[n].pending <=> promises[calls[n].from].state = "running"
    /\ \A r \in Caller :
        /\ caller[r].pc \in Ended \cup {"start", "prev", "next", "peek", "valid", "commit",
                                        "walk", "parent", "answer", "call"}
        /\ caller[r].wait \in PromiseNumber /\ caller[r].cursor \in PromiseNumber

Smaller(m, n) == IF m <= n THEN m ELSE n

\* A request is answered at min(requested, latest), as the comment in
\* proveRequest() says: at the commit asked for, or at the latest there was
\* when the call looked if that is older, whatever other calls, purges and
\* deletions do to the commits while the call is on its way there.
AnsweredAsAsked ==
    \A r \in Caller : caller[r].pc = "done" =>
        IndexOf(promises[caller[r].wait].val) = Smaller(caller[r].want, caller[r].next)

\* A call is refused as too old only if it asks for a commit more than
\* commitDepth before the latest that it saw, and historical commits are off.
TooOldIsTooOld ==
    \A r \in Caller : caller[r].pc = "tooOld" =>
        /\ ~settings.allowHistorical
        /\ caller[r].want < caller[r].next - settings.commitDepth

\* No call is answered at a commit that was already replaced, and whose good
\* verdict had already expired, when the call began: it is asked for again and
\* the commit is fetched anew, even if the verdict cannot be had.
NoOutdatedCommit ==
    \A r \in Caller : caller[r].pc = "done" => caller[r].cursor \notin caller[r].known

\* The answers for all commits have room in callLRU.
Roomy == Cardinality(Index) <= settings.callMax

\* At most one evaluation of the same request at the same commit runs at a time,
\* as long as callLRU has room: it drops running evaluations as it drops answers.
OneEvaluation ==
    Roomy => \A p, q \in DOMAIN promises :
        /\ promises[p].kind = "call" /\ promises[p].state = "running"
        /\ promises[q].kind = "call" /\ promises[q].state = "running"
        /\ IndexOf(promises[p].arg) = IndexOf(promises[q].arg)
        => p = q

\* "purge the oldest if we have too many": no commit purged is newer than one
\* that stays.
PurgesOldest ==
    [][\A r \in Caller : Commit(r) =>
        \A i, j \in Index : cached[i] # 0 /\ cached'[i] = 0 /\ cached'[j] # 0 => i < j]_vars

\* Every call ends, with an answer or an error.
Finishes == \A r \in Caller : caller[r].pc # "start" ~> caller[r].pc \in Ended
=============================================================================
