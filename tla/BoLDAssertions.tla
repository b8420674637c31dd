--------------------------- MODULE BoLDAssertions ---------------------------
(***************************************************************************)
(* BoLD rollups of Arbitrum: src/arbitrum/BoLDRollup.ts and                *)
(* ArbitrumRollup.ts, contracts/arbitrum/BoLDVerifierLib.sol and           *)
(* ArbitrumVerifier.sol.  The state s has the block number, the latest     *)
(* confirmed assertion, the assertions by their hash, here 1, 2, ...       *)
(* with 1 the genesis, and the log of events.  The rollup remembers what   *)
(* it read of the log in mem.                                              *)
(***************************************************************************)
EXTENDS AbstractRollup, SequencesExt

(* The rollup contract: an assertion is made after a pending or the latest *)
(* confirmed one, in a later block, and rivals share a parent; one is      *)
(* confirmed when it is old enough and its parent the latest confirmed.    *)
Event(name, a, block) == [name |-> name, hash |-> a, block |-> block]
Start(r) ==
    [now |-> r.start, confirmed |-> 1,
     nodes |-> <<[parent |-> 0, made |-> 1, status |-> "confirmed",
                  rivalled |-> FALSE, finished |-> TRUE]>>,
     log |-> <<Event("created", 1, 1), Event("confirmed", 1, 1)>>]

Hashes(s) == DOMAIN s.nodes
Made(s, p, f) ==
    [s EXCEPT
        !.nodes = Append([@ EXCEPT ![p].rivalled =
                            \E a \in Hashes(s) : s.nodes[a].parent = p],
                         [parent |-> p, made |-> s.now, status |-> "pending",
                          rivalled |-> FALSE, finished |-> f]),
        !.log = Append(@, Event("created", Len(s.nodes) + 1, s.now))]
Settled(s, a) ==
    [s EXCEPT !.nodes[a].status = "confirmed", !.confirmed = a,
              !.log = Append(@, Event("confirmed", a, s.now))]
Moves(r, s) ==
    {Made(s, p, f) :
        p \in {p \in Hashes(s) : /\ Len(s.nodes) < r.max
                                 /\ s.nodes[p].made < s.now
                                 /\ s.nodes[p].finished
                                 /\ s.nodes[p].status = "pending" \/ p = s.confirmed},
        f \in r.finishes}
    \cup {Settled(s, a) :
            a \in {a \in Hashes(s) : /\ s.nodes[a].status = "pending"
                                     /\ s.nodes[a].parent = s.confirmed
                                     /\ s.nodes[a].made + r.confirmation <= s.now}}

LatestConfirmed(s, block) ==
    SelectLastInSeq(s.log, LAMBDA e : e.name = "confirmed" /\ e.block <= block)

(* BoLDRollup.  The map is a sequence, in the order of insertion.          *)
Unfinalized(r) == r.minAge # 0
NoMemory == [lastBlock |-> -1, map |-> << >>, guarded |-> FALSE]

Known(map, hash) == {i \in DOMAIN map : map[i].hash = hash}
KnownFromCreatedEvent(s, e) ==
    [hash |-> e.hash, parent |-> s.nodes[e.hash].parent, created |-> e.block,
     finished |-> s.nodes[e.hash].finished, confirmed |-> FALSE, children |-> 0]

Put(map, known) ==
    IF Known(map, known.hash) = {} THEN Append(map, known)
    ELSE [i \in DOMAIN map |-> IF map[i].hash = known.hash THEN known ELSE map[i]]

OnCreated(map, known) ==
    Put([i \in DOMAIN map |->
            [map[i] EXCEPT !.children =
                IF map[i].hash = known.parent THEN @ + 1 ELSE @]], known)
\* Mutant: the loop deletes before it looks, and so the confirmed one too.
OnConfirmedDropped(map, hash) ==
    LET at == Known(map, hash)
    IN IF at = {} THEN map ELSE SubSeq(map, (CHOOSE i \in at : TRUE) + 1, Len(map))

OnConfirmed(map, hash) ==
    LET at == Known(map, hash)
    IN IF at = {} THEN map
       ELSE LET i == CHOOSE i \in at : TRUE
            IN SubSeq([map EXCEPT ![i].confirmed = TRUE], i, Len(map))

SyncAssertions(s, map, block0, block1) ==
    LET sync[n \in 0..Len(s.log)] ==
          LET e == s.log[n]
          IN IF n = 0 THEN map
             ELSE IF e.block < block0 \/ e.block > block1 THEN sync[n - 1]
             ELSE IF e.name = "created"
                  THEN OnCreated(sync[n - 1], KnownFromCreatedEvent(s, e))
                  ELSE OnConfirmed(sync[n - 1], e.hash)
    IN sync[Len(s.log)]

(* What the guard may leave.  The events are asked for r.step blocks at a  *)
(* time; a request may fail, and what those before it brought stays.       *)
(* Before the genesis no assertion is confirmed, and the guard fails.      *)
Guarded(r, view, s, mem) ==
    LET block1 == view.now - r.minAge
        confirmed == s.log[LatestConfirmed(s, block1)].hash
        block0 == IF mem.lastBlock + 1 = 0 THEN s.nodes[confirmed].made
                  ELSE mem.lastBlock + 1
        failed == {b \in block0 - 1..block1 - 1 : (b - block0 + 1) % r.step = 0}
    IN IF mem.guarded \/ ~Unfinalized(r) \/ LatestConfirmed(s, block1) = 0 THEN {mem}
       ELSE {[lastBlock |-> block1, guarded |-> TRUE,
              map |-> SyncAssertions(s, mem.map, block0, block1)]}
            \cup {[mem EXCEPT !.map = SyncAssertions(s, mem.map, block0, b)] :
                    b \in IF r.fails THEN failed ELSE {}}

UnfinalizedAssertionChain(mem, hash) ==
    LET chain[h \in 0..hash] ==
          LET at == Known(mem.map, h)
              known == mem.map[CHOOSE i \in at : TRUE]
          IN IF at = {} THEN << >>
             ELSE IF known.confirmed THEN <<known>>
             ELSE Append(chain[known.parent], known)
    IN chain[hash]

IsValidAssertionChain(chain) ==
    /\ Len(chain) >= 2
    /\ chain[1].confirmed /\ chain[Len(chain)].finished
    /\ \A i \in 1..Len(chain) - 1 : chain[i].children < 2

(* The newest entry of the map, of those made in the blocks from first to  *)
(* last, that has a valid chain.                                           *)
LatestAssertion(mem, first, last) ==
    SelectLastInSeq(mem.map, LAMBDA x : first <= x.created /\ x.created <= last
        /\ IsValidAssertionChain(UnfinalizedAssertionChain(mem, x.hash)))

FetchLatestCommitIndex(r, view, s, mem) ==
    LET i == LatestAssertion(mem, 0, mem.lastBlock)
        block == IF Unfinalized(r) THEN mem.lastBlock ELSE view.now
    IN CASE Unfinalized(r) /\ ~mem.guarded -> NoIndex
         [] Unfinalized(r) /\ mem.guarded /\ i # 0 -> mem.map[i].created
         [] OTHER -> IF LatestConfirmed(s, block) = 0 THEN NoIndex
                     ELSE s.nodes[s.log[LatestConfirmed(s, block)].hash].made

FetchParentCommitIndex(r, s, commit) ==
    s.nodes[commit.assertions[Len(commit.assertions) - 1]].made

(* Hashes, oldest first; none if there is no valid chain. *)
FindAssertionChainAtIndex(r, s, mem, index) ==
    LET i == IF Unfinalized(r) THEN LatestAssertion(mem, index, index) ELSE 0
        known == UnfinalizedAssertionChain(mem, mem.map[i].hash)
        made == SelectLastInSeq(s.nodes, LAMBDA a :
                    /\ a.made = index /\ a.finished
                    /\ a.status = "confirmed" /\ a.parent # 0)
    IN IF Unfinalized(r) /\ ~mem.guarded THEN << >>
       ELSE IF i # 0 THEN [k \in DOMAIN known |-> known[k].hash]
       ELSE IF made = 0 THEN << >>
       ELSE <<s.nodes[made].parent, made>>

FetchCommit(r, s, mem, index) ==
    LET chain == FindAssertionChainAtIndex(r, s, mem, index)
    IN IF chain = << >> THEN NoCommit
       ELSE [index |-> index, assertions |-> chain,
             confirmed |-> s.nodes[chain[Len(chain)]].status = "confirmed"]

(* The chain there is now has no other assertion where both have one. *)
IsCommitStillValid(r, s, mem, commit) ==
    LET chain == FindAssertionChainAtIndex(r, s, mem, commit.index)
    IN \/ commit.confirmed
       \/ /\ chain # << >> /\ Len(chain) <= Len(commit.assertions)
          /\ \A i \in DOMAIN chain : chain[i] = commit.assertions[i]
EncodeWitness(commit) == [assertions |-> commit.assertions]

(* BoLDVerifierLib and ArbitrumVerifier *)
GetLatestContext(r, s) ==
    IF Unfinalized(r) THEN s.now - r.minAge ELSE s.nodes[s.confirmed].made

VerifyAssertionChain(r, s, chain) ==
    LET Sure(i) == s.nodes[chain[i]].status = "confirmed"
    IN IF chain[1] \notin Hashes(s) \/ Len(chain) < 2 THEN "bad chain"
       ELSE IF ~Sure(1) THEN "parent unfinalized"
       ELSE IF \E i \in 2..Len(chain) : chain[i] \notin Hashes(s)
                    \/ s.nodes[chain[i]].parent # chain[i - 1] THEN "no assertion"
       ELSE IF \E i \in 2..Len(chain) : ~Sure(i) /\ ~Unfinalized(r) THEN "unfinalized"
       ELSE IF \E i \in 2..Len(chain) :
                    ~Sure(i) /\ s.nodes[chain[i - 1]].rivalled THEN "challenged"
       ELSE "ok"

GetStorageValues(r, s, context, p) ==
    LET chain == VerifyAssertionChain(r, s, p.assertions)
        last == p.assertions[Len(p.assertions)]
    IN IF chain # "ok" THEN chain
       ELSE IF ~s.nodes[last].finished THEN "not finished"
       ELSE CheckWindow(r, context, s.nodes[last].made)

(* For the properties. *)
Witnesses(r, s) ==
    [assertions : UNION {[1..n -> 1..r.max] : n \in 1..r.longest}]

ConfirmedBy(s, block) ==
    {s.log[k].hash : k \in {k \in DOMAIN s.log :
                        s.log[k].name = "confirmed" /\ s.log[k].block <= block}}

Rivalled(s, block, a) ==
    \E x, y \in {x \in Hashes(s) : s.nodes[x].parent = a /\ s.nodes[x].made <= block} :
        x # y

(* By block: confirmed, or of pending ones without rivals from there on.   *)
Standing(s, block, a) ==
    LET stands[x \in 0..a] ==
          \/ x \in ConfirmedBy(s, block)
          \/ x # 0 /\ ~Rivalled(s, block, s.nodes[x].parent) /\ stands[s.nodes[x].parent]
    IN s.nodes[a].finished /\ stands[a]

Usable(r, s, mem) ==
    LET block == IF Unfinalized(r) THEN mem.lastBlock ELSE s.now
    IN {s.nodes[a].made : a \in {a \in Hashes(s) \ {1} :
            s.nodes[a].made <= block /\ Standing(s, block, a)
            /\ (Unfinalized(r) \/ s.nodes[a].status = "confirmed")}}

Promised(r, asked, s, context, p) ==
    LET a == p.assertions[Len(p.assertions)]
    IN /\ Standing(s, s.now, a)
       /\ Unfinalized(r) => s.nodes[a].made + r.minAge <= asked.now
       /\ ~Unfinalized(r) => s.nodes[a].status = "confirmed"
Recent(r, asked, s, context, p) ==
    s.nodes[p.assertions[Len(p.assertions)]].made + r.window >= context

Spoiled(r, asked, s, context, commit) ==
    ~Standing(s, s.now, commit.assertions[Len(commit.assertions)])
=============================================================================
