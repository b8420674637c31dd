------------------------------- MODULE Prover -------------------------------
(***************************************************************************)
(* The provers of src/eth, src/linea, src/zksync, src/polygon (zkEVM) and  *)
(* src/starknet: concurrent getProofs(), getStorage(), isContract() and    *)
(* _proveNeed() calls of one prover, that is, of one block.  Each is cut   *)
(* into steps at its awaits.  A getProofs() puts a future into the LRU for *)
(* every proof it misses before it fetches them, so that the calls after   *)
(* it wait for these instead of fetching; all futures of a call hang on    *)
(* its blocker.  The common text is EthProver's; what the others do        *)
(* differently is in a record for each.                                    *)
(*                                                                         *)
(* The node is external: it answers each request, rightly, or with one     *)
(* storage proof less if "short" allows it, or the request fails (an error *)
(* or a null answer: both end in the same catch).  At one block there is   *)
(* one proof of a key, so a proof is written as the key it proves: <<t>>   *)
(* of an account, <<t, s>> of a slot.                                      *)
(***************************************************************************)
EXTENDS LRUMap, FiniteSets

CONSTANTS
    Call,           \* the calls made of the prover
    None,           \* no question, no future
    Asks,           \* what they ask: operation, target and slots
    Full, Empty,    \* contracts with and without storage
    Eoa,            \* targets that are no contracts
    CodeHash,       \* ZKSYNC_ACCOUNT_CODEHASH, whose slots are the targets
    Slot,
    Settings,       \* the provers tried
    MaxTrouble      \* bound on the failed and short answers

Target == Full \cup Empty \cup Eoa \cup {CodeHash}

ASSUME ProverAssumption ==
    /\ Full \cap Empty = {} /\ Full \cap Eoa = {} /\ Empty \cap Eoa = {}
    /\ None \notin Call \X Nat
    /\ CodeHash \notin Full \cup Empty \cup Eoa
    /\ IsFiniteSet(Target) /\ IsFiniteSet(Slot)
    /\ Asks \subseteq [op : {"getProofs", "getStorage", "isContract", "proveNeed"},
                       target : Target, slots : Seq(Slot), required : BOOLEAN]
    /\ \A a \in Asks :
        /\ a.op = "getStorage" => Len(a.slots) = 1
        /\ a.op = "isContract" => a.slots = <<>>
    /\ Settings \subseteq [kind : {"eth", "linea", "zksync", "zkevm", "starknet"},
                           fast : BOOLEAN, short : BOOLEAN, batch : Nat \ {0}, max : Nat]
    /\ MaxTrouble \in Nat

\* Where the provers are known not to do what is stated here: ZKSync ("assume that
\* the rpc is correct") with a proof too few, and a proof too few in a batch that
\* is not the last.
ASSUME KnownLimits ==
    \A s \in Settings :
        s.short => s.kind # "zksync" /\ \A a \in Asks : Len(a.slots) <= s.batch

VARIABLES
    settings,   \* which prover this is; fast, proofBatchSize, the LRU's max
    rules,      \* what is particular to this prover
    map,        \* proofLRU
    call,       \* the state of each call
    told,       \* the futures whose setPending() handler has run
    unread,     \* cache.cached: the keys whose fast read has failed lately
    trouble     \* answers that failed or were short

vars == <<settings, rules, map, call, told, unread, trouble>>

Null == <<>>                        \* undefined, and the value zero

Key   == {<<t>> : t \in Target} \cup (Target \X Slot) \cup {<<CodeHash, t>> : t \in Target}
Write == Call \X Nat                \* a call's future of its i-th key

(* The accounts, and the five provers. *)

Contracts == Target \ Eoa           \* isContract(a)
Stores    == Full \cup {CodeHash}   \* isContract(a, true)

\* The value in a slot; those of a contract with storage are not zero.
ValueOf(k) ==
    IF IF k[1] = CodeHash THEN k[2] \in Contracts ELSE k[1] \in Full THEN <<k>> ELSE Null

\* What a prover's own text says:
\*   accounts   account proofs are kept in the LRU
\*   shared     getProofs() goes through the LRU
\*   answers    the targets whose slots the node proves
\*   known      those not told to be without storage by their account proof
\*   checked    those all of whose storage proofs must be there
\*   proven     those whose storage proofs are used
EthRules ==
    [accounts |-> TRUE, shared |-> TRUE, answers |-> Target,
     known |-> Contracts, checked |-> Contracts, proven |-> Stores]

LineaRules ==
    [accounts |-> TRUE, shared |-> TRUE, answers |-> Stores,
     known |-> Stores, checked |-> Stores, proven |-> Stores]

ZKSyncRules ==                      \* every account is in one global tree
    [accounts |-> FALSE, shared |-> TRUE, answers |-> Target,
     known |-> Target, checked |-> {}, proven |-> Target]

ZKEVMRules ==
    [accounts |-> TRUE, shared |-> FALSE, answers |-> Target,
     known |-> Contracts, checked |-> Contracts, proven |-> Contracts]

StarknetRules ==
    [accounts |-> TRUE, shared |-> TRUE, answers |-> Contracts,
     known |-> Contracts, checked |-> Contracts, proven |-> Contracts]

RulesOf(kind) ==
    CASE kind = "eth"      -> EthRules
      [] kind = "linea"    -> LineaRules
      [] kind = "zksync"   -> ZKSyncRules
      [] kind = "zkevm"    -> ZKEVMRules
      [] kind = "starknet" -> StarknetRules

Is(kind) == settings.kind = kind

----------------------------------------------------------------------------
\* A call: what it asks; the future it awaits; of its getProofs() the keys, the
\* future each is taken from, the ones it fetches, the batches that are not in
\* and those that were short, its blocker and what came; the fast read it awaits,
\* as <<the call that makes it, its key>>, and its own; the result.
Idle == [pc |-> "idle", ask |-> None, target |-> CodeHash, slots |-> <<>>, on |-> None,
         keys |-> <<>>, src |-> <<>>, miss |-> {}, todo |-> {}, shorts |-> {},
         blocker |-> "none", got |-> <<>>,
         awaits |-> None, read |-> "none", out |-> <<>>]

Init ==
    /\ settings \in Settings
    /\ rules = RulesOf(settings.kind)
    /\ map = <<>>
    /\ call = [c \in Call |-> Idle]
    /\ told = {}
    /\ unread = {}
    /\ trouble = 0

----------------------------------------------------------------------------
(* Awaiting a future. *)

Goes(c, new) == call' = [call EXCEPT ![c] = new]
Ends(c, pc, out) == Goes(c, [call[c] EXCEPT !.pc = pc, !.out = out])

Rejected(w) == call[w[1]].blocker = "rejected"
Proof(w)    == call[w[1]].got[w[2]]

\* The call awaits what it touched or peeked at: a future, or undefined.
Awaited(c)   == call[c].on = None \/ call[c].on \in told
Known(c)     == IF call[c].on = None THEN Null ELSE Proof(call[c].on)
Unproven(c)  == call[c].on # None /\ Rejected(call[c].on)

HeldBy(k) ==
    LET held == EntryOf(map, k) IN IF held = {} THEN None ELSE (CHOOSE e \in held : TRUE).from

\* touch(k): an entry moves to the end.
Touched(m, k) ==
    LET held == EntryOf(m, k)
        e    == CHOOSE e \in held : TRUE
    IN  IF held = {} THEN m ELSE Put(m, settings.max, k, e.from, e.pending)

----------------------------------------------------------------------------
(* getProofs(target, slots), up to its first await. *)

SlotKeys(t, slots) == [i \in DOMAIN slots |-> <<t, slots[i]>>]
ProofKeys(t, slots) ==
    IF rules.accounts THEN <<<<t>>>> \o SlotKeys(t, slots) ELSE SlotKeys(t, slots)

\* One key after another is touched; what is not there becomes a future of this
\* call.  The i-th source is the future whose proof is used: its own if it was
\* missing.
TouchedOrOwn(c, done, k) ==
    LET held == EntryOf(done.map, k)
        own  == <<c, Len(done.src) + 1>>
    IN  IF held = {}
        THEN [map |-> Put(done.map, settings.max, k, own, TRUE),
              src |-> Append(done.src, own)]
        ELSE [map |-> Touched(done.map, k),
              src |-> Append(done.src, (CHOOSE e \in held : TRUE).from)]

\* Mutant: nothing is blocked before the await.
JoinedUnblocked(c, m, keys) ==
    [map |-> m,
     src |-> [i \in DOMAIN keys |-> IF HeldBy(keys[i]) = None THEN <<c, i>> ELSE HeldBy(keys[i])]]

Joined(c, m, keys) ==
    LET after[n \in 0 .. Len(keys)] ==
            IF n = 0 THEN [map |-> m, src |-> <<>>]
            ELSE TouchedOrOwn(c, after[n - 1], keys[n])
    IN  after[Len(keys)]

Fresh(c, m, keys) == [map |-> m, src |-> [i \in DOMAIN keys |-> <<c, i>>]]

\* What the call fetches: the storage proofs it has no source for.
IsMissing(c, src, i) == src[i] = <<c, i>>
FirstSlot == IF rules.accounts THEN 2 ELSE 1
Missing(c, src) == {i \in DOMAIN src : i >= FirstSlot /\ IsMissing(c, src, i)}

\* fetchProofs(): one request for each batch, at least one.
Batches(n) == 1 .. (IF n = 0 THEN 1 ELSE (n + settings.batch - 1) \div settings.batch)

\* A call that misses nothing only gathers.
GetProofs(c, r, t, slots) ==
    \E join \in {IF rules.shared THEN Joined(c, map, ProofKeys(t, slots))
                 ELSE Fresh(c, map, ProofKeys(t, slots))} :
        LET lack == \E i \in DOMAIN join.src : IsMissing(c, join.src, i)
            miss == Missing(c, join.src)
            new  == [r EXCEPT !.target = t, !.slots = slots, !.on = None,
                              !.keys = ProofKeys(t, slots), !.src = join.src, !.miss = miss]
        IN  /\ map' = join.map
            /\ Goes(c, IF lack THEN [new EXCEPT !.pc = "fetch", !.blocker = "waiting",
                                                !.todo = Batches(Cardinality(miss))]
                       ELSE [new EXCEPT !.pc = "gather"])
            /\ UNCHANGED <<settings, rules, told, unread, trouble>>

\* cache.get(key, fn), which keeps a failure for a while but no value.
\* The call that reads a key is the one others wait for; Starknet's read of a
\* slot goes straight to the node.
Cached(k)  == ~(Is("starknet") /\ Len(k) = 2)
Reading(k) == {d \in Call : Cached(k) /\ call[d].read = "out" /\ call[d].awaits[2] = k}
FastRead(c, r, k) ==
    /\ Goes(c, IF Cached(k) /\ k \in unread THEN [r EXCEPT !.pc = "failed"]
               ELSE IF Reading(k) # {}
               THEN [r EXCEPT !.pc = "fast", !.on = None, !.awaits = <<CHOOSE d \in Reading(k) : TRUE, k>>]
               ELSE [r EXCEPT !.pc = "fast", !.on = None, !.awaits = <<c, k>>, !.read = "out"])
    /\ UNCHANGED <<settings, rules, map, told, unread, trouble>>

----------------------------------------------------------------------------
(* The calls. *)

Asked(c, op, a) == call[c].pc = "idle" /\ a.op = op
New(c, a, pc) == [Idle EXCEPT !.ask = a, !.pc = pc, !.target = a.target, !.slots = a.slots]

AskProofs(c, a) ==
    /\ Asked(c, "getProofs", a)
    /\ GetProofs(c, New(c, a, "fetch"), a.target, a.slots)

\* isContract(target); ZKSync looks for a proof that is never there, then reads
\* the code hash.
AskContract(c, a) ==
    /\ Asked(c, "isContract", a)
    /\ IF Is("zksync")
       THEN /\ Goes(c, [New(c, a, "account") EXCEPT !.target = CodeHash, !.slots = <<a.target>>])
            /\ UNCHANGED <<settings, rules, map, told, unread, trouble>>
       ELSE IF settings.fast THEN FastRead(c, New(c, a, "fast"), <<a.target>>)
       ELSE GetProofs(c, New(c, a, "fetch"), a.target, <<>>)

\* getStorage(target, slot): touch the account, or with ZKSync the slot.
AskStorage(c, a) ==
    LET pc == IF rules.accounts THEN "account" ELSE "slot"
        k  == IF rules.accounts THEN <<a.target>> ELSE <<a.target, a.slots[1]>>
    IN  /\ Asked(c, "getStorage", a)
        /\ Goes(c, [New(c, a, pc) EXCEPT !.on = HeldBy(k)])
        /\ map' = Touched(map, k)
        /\ UNCHANGED <<settings, rules, told, unread, trouble>>

\* _proveNeed(need, ...): peek at the account; a bucket of ZKSync's prove() is
\* a getStorageProofs().  Starknet has no prove().
AskNeed(c, a) ==
    /\ Asked(c, "proveNeed", a)
    /\ ~Is("starknet")
    /\ IF Is("zksync") THEN GetProofs(c, New(c, a, "fetch"), a.target, a.slots)
       ELSE /\ Goes(c, [New(c, a, "need") EXCEPT !.on = HeldBy(<<a.target>>)])
            /\ UNCHANGED <<settings, rules, map, told, unread, trouble>>

\* An await of a future that was rejected throws.
Throws(c) ==
    /\ call[c].pc \in {"account", "slot", "need"}
    /\ Awaited(c) /\ Unproven(c)
    /\ Ends(c, "failed", <<>>)
    /\ UNCHANGED <<settings, rules, map, told, unread, trouble>>

At(c, pc) == call[c].pc = pc /\ Awaited(c) /\ ~Unproven(c)

\* getStorage() has the account proof: zero, or touch the slot.
AccountKnown(c) ==
    LET r == call[c]
        k == <<r.target, r.slots[1]>>
    IN  /\ At(c, "account")
        /\ IF Known(c) # Null /\ r.target \notin rules.known
           THEN Ends(c, "ok", Null) /\ UNCHANGED map
           ELSE /\ Goes(c, [r EXCEPT !.pc = "slot", !.on = HeldBy(k)])
                /\ map' = Touched(map, k)
        /\ UNCHANGED <<settings, rules, told, unread, trouble>>

\* Whether Starknet's getStorage() takes the value from a proof: the path of its
\* last edge, that is, the end of the key it proves, and not the value there.  A
\* proof that ends in no edge is an error.
ReadsEdge(c) ==
    /\ Is("starknet") /\ call[c].ask.op = "getStorage" /\ call[c].target \in Contracts
    /\ call[c].awaits = None
PathOf(k) == <<k[Len(k)]>>

\* The value read; for ZKSync's isContract(), whether the code hash is not zero.
ReadAs(c, value) ==
    IF call[c].ask.op = "isContract" /\ value # Null THEN <<call[c].ask.target>> ELSE value

\* getStorage() has the storage proof, or reads or proves the slot.
SlotKnown(c) ==
    LET r == call[c]
        k == <<r.target, r.slots[1]>>
    IN  /\ At(c, "slot")
        /\ IF Known(c) # Null
           THEN /\ \/ Ends(c, "ok", IF ReadsEdge(c) THEN PathOf(Known(c))
                                    ELSE ReadAs(c, ValueOf(Known(c))))
                   \/ ReadsEdge(c) /\ Ends(c, "failed", <<>>)
                /\ UNCHANGED <<settings, rules, map, told, unread, trouble>>
           ELSE IF settings.fast /\ ~Is("zksync") THEN FastRead(c, r, k)
           ELSE GetProofs(c, r, r.target, r.slots)

\* _proveNeed() knows whether there is anything in the slots.
NeedKnown(c) ==
    LET r     == call[c]
        slots == IF Known(c) # Null /\ r.target \notin rules.proven THEN <<>> ELSE r.slots
    IN  /\ At(c, "need")
        /\ IF Is("zkevm") /\ slots = <<>> /\ ~r.ask.required
           THEN /\ Ends(c, "ok", <<>>)
                /\ UNCHANGED <<settings, rules, map, told, unread, trouble>>
           ELSE GetProofs(c, r, r.target, slots)

----------------------------------------------------------------------------
(* The node's answers. *)

\* The place of x among the numbers in S.
Place(S, x) == Cardinality({y \in S : y <= x})

\* The batch that asks for the x-th proof, and whether it is the last of it.
BatchOf(c, x) == (Place(call[c].miss, x) - 1) \div settings.batch + 1
IsLast(c, x) ==
    LET place == Place(call[c].miss, x)
    IN  place % settings.batch = 0 \/ place = Cardinality(call[c].miss)

\* What the node has proofs for; a short answer lacks the last.
Answered(c, shorts) == {x \in call[c].miss : ~(BatchOf(c, x) \in shorts /\ IsLast(c, x))}

ProofOf(c, x) == IF call[c].target \in rules.answers THEN call[c].keys[x] ELSE Null

\* Mutant: the batches are put together from the last to the first.
FetchedBackwards(c, shorts) ==
    LET came == Answered(c, shorts)
        upTo(x) == {y \in came : \/ BatchOf(c, y) > BatchOf(c, x)
                                 \/ BatchOf(c, y) = BatchOf(c, x) /\ y <= x}
    IN  [i \in 1 .. Cardinality(came) |->
            ProofOf(c, CHOOSE x \in came : Cardinality(upTo(x)) = i)]

\* fetchProofs(): the proofs of all batches, in the order of the requests.
Fetched(c, shorts) ==
    LET came == Answered(c, shorts)
    IN  [i \in 1 .. Cardinality(came) |-> ProofOf(c, CHOOSE x \in came : Place(came, x) = i)]

\* Mutant: the x-th proof is taken for the x-th slot, missing or not.
FilledByPlace(c, v) ==
    [i \in DOMAIN call[c].src |->
        IF i < FirstSlot THEN <<call[c].target>>
        ELSE IF i - FirstSlot + 1 \in DOMAIN v THEN v[i - FirstSlot + 1] ELSE Null]

\* "missing.forEach((x, i) => (storageProofs[x] = v[i]))" and the account
Filled(c, v) ==
    LET miss == call[c].miss
    IN  [x \in DOMAIN call[c].src |->
            IF x < FirstSlot THEN <<call[c].target>>
            ELSE IF x \in miss /\ Place(miss, x) \in DOMAIN v THEN v[Place(miss, x)] ELSE Null]

\* A batch arrives; the last one fills in the proofs and resolves the blocker.
Answer(c, b) ==
    /\ call[c].pc = "fetch" /\ b \in call[c].todo
    /\ \E shorts \in {call[c].shorts, call[c].shorts \cup {b}} :
        /\ b \in shorts => settings.short /\ trouble < MaxTrouble /\ call[c].miss # {}
        /\ trouble' = IF b \in shorts THEN trouble + 1 ELSE trouble
        /\ IF call[c].todo # {b}
           THEN Goes(c, [call[c] EXCEPT !.todo = @ \ {b}, !.shorts = shorts])
           ELSE \E v \in {Fetched(c, shorts)} :
                    Goes(c, [call[c] EXCEPT !.pc = "gather", !.blocker = "resolved",
                                !.todo = {}, !.shorts = {}, !.got = Filled(c, v)])
    /\ UNCHANGED <<settings, rules, map, told, unread>>

\* Mutant: the blocker is left to those who wait on it.
FailQuietly(c) ==
    /\ call[c].pc = "fetch" /\ trouble < MaxTrouble
    /\ trouble' = trouble + 1
    /\ Goes(c, [call[c] EXCEPT !.pc = "failed", !.todo = {}, !.shorts = {}])
    /\ UNCHANGED <<settings, rules, map, told, unread>>

\* A request fails: so does the call, and the blocker with it.
Fail(c) ==
    /\ call[c].pc = "fetch" /\ trouble < MaxTrouble
    /\ trouble' = trouble + 1
    /\ Goes(c, [call[c] EXCEPT !.pc = "failed", !.todo = {}, !.shorts = {}, !.blocker = "rejected"])
    /\ UNCHANGED <<settings, rules, map, told, unread>>

\* Mutant: a future that fails stays in the LRU.
TellStuck(w) ==
    LET k == call[w[1]].keys[w[2]]
    IN  /\ call[w[1]].blocker \in {"resolved", "rejected"}
        /\ told' = told \cup {w}
        /\ map' = IF HeldBy(k) # w \/ Rejected(w) THEN map
                  ELSE Put(map, settings.max, k, w, FALSE)
        /\ UNCHANGED <<settings, rules, call, unread, trouble>>

\* The handler setPending() attached to a future of the call.
Tell(w) ==
    LET k == call[w[1]].keys[w[2]]
    IN  /\ call[w[1]].blocker \in {"resolved", "rejected"}
        /\ told' = told \cup {w}
        /\ map' = IF HeldBy(k) # w THEN map
                  ELSE IF Rejected(w) THEN Without(map, k)
                  ELSE Put(map, settings.max, k, w, FALSE)
        /\ UNCHANGED <<settings, rules, call, unread, trouble>>

\* The futures put into the LRU whose handler has not run.
Futures(c) == {<<c, i>> : i \in {j \in DOMAIN call[c].src : IsMissing(c, call[c].src, j)}}
Untold == IF rules.shared THEN (UNION {Futures(c) : c \in Call}) \ told ELSE {}

----------------------------------------------------------------------------
(* getProofs() after its fetch, and what its caller makes of it. *)

\* A proof the call fetched itself: what it missed, and the account anyway.
IsOwn(c, i) ==
    /\ call[c].blocker = "resolved"
    /\ i < FirstSlot \/ IsMissing(c, call[c].src, i)

ProofFor(c, i) == IF IsOwn(c, i) THEN call[c].got[i] ELSE Proof(call[c].src[i])

StorageProofs(c) ==
    [i \in DOMAIN call[c].slots |-> ProofFor(c, FirstSlot + i - 1)]

Lacks(v) == \E i \in DOMAIN v : v[i] = Null

\* Mutant: a slot that was asked for twice is counted once.
CountedOnce(c, v) ==
    Is("zksync") \/ call[c].target \notin rules.checked
    \/ Cardinality({v[i] : i \in DOMAIN v} \ {Null}) = Len(call[c].slots)

\* checkStorageProofs(): are proofs missing, and which are given?
Counted(c, v) == Is("zksync") \/ call[c].target \notin rules.checked \/ ~Lacks(v)
Given(c, v) ==
    IF Is("zksync") THEN IF Lacks(v) THEN <<>> ELSE v
    ELSE IF call[c].target \in rules.checked THEN v ELSE <<>>

\* The value getStorage() reads from the proofs it has fetched.  Starknet's takes
\* the account's proof, contract_proof, in place of the slot's.
ReadOf(c, v) ==
    IF v = <<>> \/ call[c].target \notin rules.proven THEN ReadAs(c, Null)
    ELSE IF ReadsEdge(c) THEN PathOf(<<call[c].target>>)
    ELSE ReadAs(c, ValueOf(v[1]))

\* The proofs of the slots in _proveNeed(); the others stay "0x".
ProvenOf(c, v) == IF call[c].target \in rules.proven THEN v ELSE <<>>

\* ZKSync's prove() encodes every proof of a bucket, also one it was not given.
Encodable(c, v) ==
    Is("zksync") /\ call[c].ask.op = "proveNeed" => Len(v) = Len(call[c].slots)

OutOf(c, v) ==
    CASE call[c].ask.op = "getProofs" -> v
      [] call[c].ask.op = "proveNeed" -> ProvenOf(c, v)
      [] call[c].ask.op = "isContract" /\ ~Is("zksync") ->
            IF call[c].target \in Contracts THEN <<call[c].target>> ELSE Null
      [] OTHER -> ReadOf(c, v)

\* "await Promise.all([accountProof, Promise.all(storageProofs)])"
Gather(c) ==
    /\ call[c].pc = "gather"
    /\ \A i \in DOMAIN call[c].src :
        IsOwn(c, i) \/ (call[c].src[i] \in told /\ ~Rejected(call[c].src[i]))
    /\ LET all   == StorageProofs(c)
           given == Given(c, all)
           right == Counted(c, all) /\ Encodable(c, given)
       IN  \/ right /\ Ends(c, "ok", OutOf(c, given))
           \/ (~right \/ ReadsEdge(c)) /\ Ends(c, "failed", <<>>)
    /\ UNCHANGED <<settings, rules, map, told, unread, trouble>>

\* The first source that rejects is enough.
GatherFails(c) ==
    /\ call[c].pc = "gather"
    /\ \E i \in DOMAIN call[c].src :
        ~IsOwn(c, i) /\ call[c].src[i] \in told /\ Rejected(call[c].src[i])
    /\ Ends(c, "failed", <<>>)
    /\ UNCHANGED <<settings, rules, map, told, unread, trouble>>

----------------------------------------------------------------------------
(* Fast reads. *)

\* The node answers a fast read, and the cache forgets it or keeps the failure.
FastAnswer(c) ==
    /\ call[c].read = "out"
    /\ \E state \in {"ok", "err"} :
        LET k == call[c].awaits[2]
        IN  /\ state = "err" => trouble < MaxTrouble
            /\ trouble' = IF state = "err" THEN trouble + 1 ELSE trouble
            /\ Goes(c, [call[c] EXCEPT !.read = state])
            /\ unread' = IF Cached(k) /\ state = "err" THEN unread \cup {k} ELSE unread
    /\ UNCHANGED <<settings, rules, map, told>>

\* All calls that share the read end with it.
FastDone(c) ==
    /\ call[c].pc = "fast"
    /\ LET k     == call[c].awaits[2]
           state == call[call[c].awaits[1]].read
       IN  /\ state # "out"
           /\ IF state = "err" THEN Ends(c, "failed", <<>>)
              ELSE Ends(c, "ok", IF Len(k) = 2 THEN ValueOf(k)
                                 ELSE IF k[1] \in Contracts THEN k ELSE Null)
    /\ UNCHANGED <<settings, rules, map, told, unread, trouble>>

Expire(k) ==
    /\ unread' = unread \ {k}
    /\ UNCHANGED <<settings, rules, map, call, told, trouble>>

\* Queued continuations run, and the node answers every request or fails it;
\* that something goes on is enough.
Progress ==
    \/ \E c \in Call :
        \/ Throws(c) \/ AccountKnown(c) \/ SlotKnown(c) \/ NeedKnown(c)
        \/ \E b \in call[c].todo : Answer(c, b)
        \/ Gather(c) \/ GatherFails(c)
        \/ FastAnswer(c) \/ FastDone(c)
    \/ \E w \in Untold : Tell(w)

Next ==
    \/ \E c \in Call, a \in Asks :
        AskProofs(c, a) \/ AskContract(c, a) \/ AskStorage(c, a) \/ AskNeed(c, a)
    \/ Progress
    \/ \E c \in Call : Fail(c)
    \/ \E k \in unread : Expire(k)

Fairness == WF_vars(Progress)

Spec == Init /\ [][Next]_vars /\ Fairness

----------------------------------------------------------------------------
CallRecord ==
    [pc : {"idle", "account", "slot", "need", "fetch", "gather", "fast", "ok", "failed"},
     ask : Asks \cup {None}, target : Target, slots : Seq(Slot \cup Target),
     on : {None} \cup Write, awaits : {None} \cup (Call \X Key),
     keys : Seq(Key), src : Seq(Write), miss : SUBSET Nat, todo : SUBSET Nat, shorts : SUBSET Nat,
     blocker : {"none", "waiting", "resolved", "rejected"}, got : Seq(Key \cup {Null}),
     read : {"none", "out", "ok", "err"}, out : Seq(Key) \cup Seq(Target \cup Slot)]

TypeOK ==
    /\ settings \in Settings
    /\ map \in Seq(Entries(Key, Write))
    /\ call \in [Call -> CallRecord]
    /\ told \subseteq Write
    /\ unread \subseteq Key
    /\ trouble \in 0 .. MaxTrouble

\* Whatever else is in flight, fetched in batches, shared or evicted, a call that
\* returns has what it asked for: the value in the state, or the proofs of the
\* slots it named, in its order (getStorage(), isContract(), getProofs(),
\* _proveNeed()).  Only a target without storage is left without proofs.  What
\* Starknet's getStorage() takes from a proof is not the value.
AnswersTheQuestion ==
    \A c \in {d \in Call : call[d].pc = "ok" /\ ~ReadsEdge(d)} :
        LET a == call[c].ask
        IN  CASE a.op = "getStorage" -> call[c].out = ValueOf(<<a.target, a.slots[1]>>)
              [] a.op = "isContract" -> call[c].out = IF a.target \in Eoa THEN Null ELSE <<a.target>>
              [] OTHER -> \/ call[c].out = SlotKeys(a.target, a.slots)
                          \/ call[c].out = <<>> /\ a.target \notin Full

\* What the LRU keeps under a key is the proof of that key; it is empty only if
\* the node gave none (the futures of getProofs()).
KeepsItsProof ==
    \A i \in DOMAIN map : ~map[i].pending =>
        \/ Proof(map[i].from) = map[i].key
        \/ /\ Proof(map[i].from) = Null
           /\ trouble > 0 \/ map[i].key[1] \notin rules.answers

Roomy == settings.max >= Cardinality(Key)

\* "must setup blocks before await": as long as the LRU has room for all keys, no
\* two calls of getProofs() find the same proof missing, unless the first fails.
FetchedOnce ==
    rules.shared /\ Roomy =>
        \A c, d \in {e \in Call : call[e].blocker \in {"waiting", "resolved"}} :
            \A i \in DOMAIN call[c].keys, j \in DOMAIN call[d].keys :
                /\ call[c].keys[i] = call[d].keys[j]
                /\ IsMissing(c, call[c].src, i) /\ IsMissing(d, call[d].src, j)
                => c = d /\ i = j

\* A failed request is asked again: once its handlers have run, no key holds its
\* rejection, and none is still thought to be on its way.
FailureForgotten ==
    \A i \in DOMAIN map : map[i].from \in told => ~Rejected(map[i].from) /\ ~map[i].pending

\* While the node answers everything, no call fails: neither the count of
\* storage proofs nor another call's future gets in its way.  Only Starknet's
\* getStorage() may, where it takes the value from a proof.
FailsForCause ==
    trouble = 0 => \A c \in Call : call[c].pc = "failed" => ReadsEdge(c)

\* Every call ends.  Calls wait for the futures of each other, but resolve their
\* own before they do, and a failure reaches all who wait.
EveryCallEnds ==
    \A c \in Call : call[c].pc # "idle" ~> call[c].pc \in {"ok", "failed"}
=============================================================================
