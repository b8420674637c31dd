------------------------------ MODULE Commits -------------------------------
(***************************************************************************)
(* A question from the chain of the verifier to its gateway and back: the  *)
(* context the verifier asks with (getLatestContext), the commit the       *)
(* gateway picks for it (getRecentCommit() of src/gateway.ts, over the     *)
(* rollup's fetchLatestCommitIndex(), fetchCommit() and                    *)
(* fetchParentCommitIndex()), and the answer the verifier accepts or       *)
(* refuses (getStorageValues), for every rollup of Rollups.tla.  Between   *)
(* any two steps the chain goes on, and a part of it becomes final.  What  *)
(* the gateway caches is in Gateway.tla; here it asks the rollup each time.*)
(***************************************************************************)
EXTENDS Rollups, FiniteSets

CONSTANT Settings       \* the rollups with the settings to check them with

ASSUME SettingsAssumption == \A setting \in Settings : IsSetting(setting)

VARIABLES
    r,          \* the settings of the rollup and its verifier
    chain,      \* the chain of the verifier
    final,      \* the part of it that is final, latestBlockTag
    moved,      \* how often it moved, r.moves at most
    memory,     \* what the rollup remembers
    call        \* the question that is open and where the gateway is with it

vars == <<r, chain, final, moved, memory, call>>

Idle(asks) ==
    [stage |-> "idle", asks |-> asks, context |-> NoIndex, asked |-> << >>,
     latest |-> NoIndex, index |-> NoIndex, depth |-> 0, commit |-> NoCommit]

Init ==
    /\ r \in Settings
    /\ chain = Start(r)
    /\ final = chain
    /\ moved = 0
    /\ memory = NoMemory(r)
    /\ call = Idle(r.asks)

Ticks(s) == IF "now" \in DOMAIN s THEN {[s EXCEPT !.now = @ + 1]} ELSE {}

Advance ==
    /\ moved < r.moves
    /\ chain' \in Moves(r, chain) \cup Ticks(chain)
    /\ moved' = moved + 1
    /\ UNCHANGED <<r, final, memory, call>>

Finalize ==
    /\ final # chain
    /\ final' = chain
    /\ UNCHANGED <<r, chain, moved, memory, call>>

\* What the rollup keeps for a while expires.
Forget ==
    /\ memory # Forgotten(r, memory)
    /\ memory' = Forgotten(r, memory)
    /\ UNCHANGED <<r, chain, final, moved, call>>

\* getLatestContext(): there is nothing to ask if it reverts.
Ask ==
    /\ call.stage = "idle" /\ call.asks > 0
    /\ GetLatestContext(r, chain) # NoIndex
    /\ call' = [call EXCEPT !.stage = "asked", !.asks = @ - 1, !.asked = chain,
                            !.context = GetLatestContext(r, chain)]
    /\ UNCHANGED <<r, chain, final, moved, memory>>

\* getRecentCommit(): the index of the latest commit.
FindLatest ==
    /\ call.stage = "asked"
    /\ memory' \in Remembered(r, final, chain, memory)
    /\ \E index \in {FetchLatestCommitIndex(r, final, chain, memory')} :
        call' = IF index = NoIndex THEN Idle(call.asks)
                ELSE [call EXCEPT !.stage = "found", !.latest = index, !.index = index]
    /\ UNCHANGED <<r, chain, final, moved>>

\* Mutants: whatever is found is served; the commit of the context is not.
FetchAnyway ==
    /\ call.stage = "found"
    /\ memory' \in Remembered(r, final, chain, memory)
    /\ \E commit \in {FetchCommit(r, chain, memory', call.index)} :
        call' = IF commit = NoCommit THEN Idle(call.asks)
                ELSE [call EXCEPT !.commit = commit, !.stage = "served"]
    /\ UNCHANGED <<r, chain, final, moved>>
FetchOlder ==
    /\ call.stage = "found"
    /\ memory' \in Remembered(r, final, chain, memory)
    /\ \E commit \in {FetchCommit(r, chain, memory', call.index)} :
        call' = IF commit = NoCommit THEN Idle(call.asks)
                ELSE [call EXCEPT
                        !.commit = commit,
                        !.stage = IF call.context > commit.index THEN "served"
                                  ELSE "walking"]
    /\ UNCHANGED <<r, chain, final, moved>>

\* The commit is served if it is not newer than the context; the commit of
\* the context itself, if historical ones are allowed, is served as it is.
Fetch ==
    /\ call.stage = "found"
    /\ memory' \in Remembered(r, final, chain, memory)
    /\ \E commit \in {FetchCommit(r, chain, memory', call.index)} :
        call' = IF commit = NoCommit THEN Idle(call.asks)
                ELSE [call EXCEPT
                        !.commit = commit,
                        !.stage = IF call.context >= commit.index THEN "served"
                                  ELSE "walking"]
    /\ UNCHANGED <<r, chain, final, moved>>

FindParent ==
    /\ call.stage = "walking" /\ call.depth < r.commitDepth
    /\ \E index \in {FetchParentCommitIndex(r, chain, call.commit)} :
        call' = IF index = NoIndex THEN Idle(call.asks)
                ELSE [call EXCEPT !.stage = "found", !.index = index, !.depth = @ + 1]
    /\ UNCHANGED <<r, chain, final, moved, memory>>

\* Too old for the depth: a commit of its own if that is allowed.
TooDeep ==
    /\ call.stage = "walking" /\ call.depth = r.commitDepth
    /\ call' = IF r.allowHistorical
               THEN [call EXCEPT !.stage = "found", !.index = call.context]
               ELSE Idle(call.asks)
    /\ UNCHANGED <<r, chain, final, moved, memory>>

\* The verifier gets the answer, and the question is closed.
Verify ==
    /\ call.stage = "served"
    /\ call' = Idle(call.asks)
    /\ UNCHANGED <<r, chain, final, moved, memory>>

Next ==
    \/ Advance \/ Finalize \/ Forget
    \/ Ask \/ FindLatest \/ Fetch \/ FindParent \/ TooDeep \/ Verify

Spec == Init /\ [][Next]_vars

-----------------------------------------------------------------------------
\* The rollup may have read some events twice, and counted children twice.
Fails == r.rollup = "bold" /\ r.fails

Verdict(p) == GetStorageValues(r, chain, memory, call.context, p)

\* Whatever a gateway sends (its own or anybody's, of any witness there can
\* be), while the chain goes on: what the verifier accepts was on the chain as
\* the rollup promises: proposed and old enough, confirmed, unchallenged...
AcceptedAsPromised ==
    call.stage = "asked" =>
        \A p \in Witnesses(r, chain) :
            Verdict(p) = "ok" => Promised(r, memory, call.asked, chain, call.context, p)

\* And it is no older than the window allows, by the clock of that rollup.
AcceptedIsRecent ==
    call.stage = "asked" =>
        \A p \in Witnesses(r, chain) :
            Verdict(p) = "ok" => Recent(r, call.asked, chain, call.context, p)

\* The gateway and the verifier agree: what the gateway serves is accepted,
\* whatever happened since it looked, unless it is older than the window or
\* what it rests on is gone from the chain.
HonestAccepted ==
    call.stage = "served" =>
        \E p \in {EncodeWitness(r, call.commit)} :
            \/ Verdict(p) \in {"ok", "CommitTooOld"}
            \/ Spoiled(r, call.asked, chain, call.context, call.commit)

\* A commit can be made of every index that is usable, so that the search
\* for the latest or the parent does not end at one that is not.
UsableIsFetched ==
    call.stage = "asked" /\ r.rollup # "shnarfs" /\ ~Fails =>
        \A index \in Usable(r, chain, memory) :
            \A m \in Remembered(r, final, chain, memory) :
                index \in Usable(r, chain, m) => FetchCommit(r, chain, m, index) # NoCommit

\* The latest is the latest: of what was usable when it became final and still
\* is, nothing newer is skipped, and if the chain has not gone on, a commit
\* can be made of what is found.
LatestIsLatest ==
    [][call.stage = "asked" /\ call'.stage # "asked" /\ ~Fails =>
        \E usable \in {Usable(r, chain, memory')} :
            /\ \A i \in usable \cap Usable(r, final, memory') : i <= call'.latest
            /\ final = chain /\ usable # {} => call'.latest \in usable]_vars

\* No usable commit is between a commit and its parent; only where several
\* batches became final in one block, the parent is of a block before.
ParentIsNext ==
    [][call.stage = "walking" /\ call'.stage \in {"idle", "found"}
            /\ call.depth < r.commitDepth
            /\ IsCommitStillValid(r, chain, memory, call.commit) =>
        \A i \in Usable(r, chain, memory) \ Skipped(r, chain, call.commit) :
            i < call.commit.index => i <= call'.index]_vars

\* The gateway serves the newest commit it may: if the chain stands still,
\* every usable one between it and the context was not final when the latest
\* was found.
ServesNewest ==
    call.stage = "served" =>
        /\ call.commit.index <= call.context
        /\ chain = call.asked /\ ~Fails =>
                \A i \in Usable(r, chain, memory) :
                    i > call.commit.index /\ i <= call.context => i > call.latest

\* What a BoLD rollup keeps of the events, if no request for them failed, says
\* what the chain says of the assertions up to the block it read to: the
\* children and the confirmation of each, and none is missing that follows the
\* latest confirmed.
SyncedAsOnChain ==
    r.rollup = "bold" /\ ~Fails /\ memory.lastBlock >= 0 =>
        LET old == {a \in DOMAIN chain.nodes : chain.nodes[a].made <= memory.lastBlock}
            Confirmed(a) == \E k \in DOMAIN chain.log :
                /\ chain.log[k].name = "confirmed" /\ chain.log[k].hash = a
                /\ chain.log[k].block <= memory.lastBlock
            last == CHOOSE a \in old : /\ Confirmed(a)
                        /\ \A b \in old : Confirmed(b) => b <= a
        IN /\ \A k \in DOMAIN memory.map :
                \E x \in {memory.map[k]} :
                    /\ x.hash \in old
                    /\ x.confirmed <=> Confirmed(x.hash)
                    /\ x.children = Cardinality({a \in old : chain.nodes[a].parent = x.hash})
           /\ \A a \in old : a >= last => \E k \in DOMAIN memory.map : memory.map[k].hash = a
=============================================================================
