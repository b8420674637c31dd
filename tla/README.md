# Unruggable Gateways in TLA+

Models, model-checking runs and machine-checked proofs about
`ensdomains/unruggable-gateways`: a gateway that evaluates small programs
("requests") against the state of another chain and answers with Merkle proofs,
and the contracts that replay those programs against the proofs.

Paths below are relative to the repository, which is expected in `src/`
(`src/vm.ts` of the repository is `src/src/vm.ts` in `PROJECT.json`).

## 1. The system

    client contract -- OffchainLookup (CCIP read, EIP-3668) --> gateway (TypeScript)
         |                                                        |
         | callback(witness)                                      | Gateway
         v                                                        |   rollup: which commits exist, their proof
    verifier contract (one per kind of rollup)                    |   caches: latest index, commits, answers
         | getStorageValues(): checks the commit,                 |   prover: eth_getProof, through an LRU
         | then GatewayVM.evalRequest()                           |   vm: evaluates the request, lists the needs
         v                                                        v
    GatewayVM (Solidity) replays the program,  <---- witness ---- BlockProver.prove(): proofs and order
    taking the proofs in the order of the witness

| Component | State | Operations | Correct if |
|---|---|---|---|
| `CachedValue` (`cached.ts`) | one promise, its expiry, the observer object its generator can look at | `get`, `set`, `clear`, `force`; the continuation of a generator | one generator that has not been told to stop; expiry belongs to the promise held; a pending value ends |
| `CachedMap` (`cached.ts`) | pending promises and cached rows by key, a timer | `get`, `set`, `setPending`, `delete`, `clear`, `peek`; continuation; timer | no stale row replaces a newer one; never above `maxCached`; rows live exactly as long as they should; there is always room for one more |
| `LRU` (`cached.ts`) | an insertion-ordered map | `setValue`, `setPending`, `touch`, `cache`, `delete`, `clear`, `max=` | bounded; order is recency; a late promise does not overwrite |
| `Gateway` (`gateway.ts`) | latest index, commits by index (with verdict and parent index), answers | `proveRequest`: `getRecentCommit`, `_updateLatest`, `cachedCommit`, `callLRU.cache` | a call is answered at the commit it asks for or the latest; only too old ones are refused; the caches never give what they should have dropped; every call ends |
| request machine, gateway half (`vm.ts`) | stack of lazy values, target, slot, needs, budgets, frames | every opcode; `prove` | the witness it makes is the one the contract accepts; budget is exact |
| request machine, contract half (`GatewayVM.sol`) | stack and its raw bits, buffer, proofs and cursor | every opcode; the three proof readers | same answer from the same program; no other answer from other proofs |
| rollups (`op/`, `arbitrum/`, `linea/`, ...) | mostly none: they read the chain; `BoLDRollup` keeps assertions read from events, `TrustedRollup` the commit it signed | `fetchLatestCommitIndex`, `_fetchCommit`, `_fetchParentCommitIndex`, `isCommitStillValid` | the latest is the latest, the parent the next below; commits can be made of them; agreeing with the verifier |
| provers (`eth/EthProver.ts`, ...) | an LRU of account and slot proofs | `getProofs`, `_proveNeed` | each key fetched once, concurrent calls share, each call gets its own proofs in its own order, failures reach all waiters and are forgotten |
| `GatewayProvider` | batch and retry state | `send` | each call answered once, retries bounded |
| verifiers (`contracts/*Verifier.sol`) | window, gateway URLs | `getLatestContext`, `getStorageValues` | a commit inside the window that stands on the chain as the rollup promises; what an honest gateway serves is accepted |

**What interacts.** A call to the gateway awaits the latest index, then commits,
then the answer; each is a promise in a cache that other calls share. The VM's
lazy values are awaited by whoever needs their size or content, which decides
when the slots of a read become known. `EVAL` and `EVAL_LOOP` run programs in
programs in both machines, with different mechanisms (nested machines in
TypeScript; the same machine with a swapped buffer, or a second machine, in
Solidity).

A verifier names, in its context, the newest commit it would accept now; the
gateway looks for one that is no newer, and by the time the answer comes the
chain has gone on.

**What is hard.** Promises that settle after they were displaced. A check whose
result is used after other calls have changed what was checked. Commits that
are replaced under the same index. Reads whose cost is learned late and in any
order. Programs that fail inside programs and loops. Both machines agreeing on
all of it. Searches on a chain that moves, written twice: in TypeScript for the
gateway and in Solidity for the verifier. `hazards` in `PROJECT.json` lists them by line, with the properties
that look at each one.

## 2. The modules

| Module | Code | Notes |
|---|---|---|
| `CachedValue` | `src/cached.ts` 12-84 | Promises are identities. A generator has three moments: it is started by `get`, its own promise settles (`Settle`), and the continuation of `get` runs (`Continue`). Observer objects are numbers; `replaced` is the set of those whose flag is up. |
| `CachedValueProof` | - | Theorems about `CachedValue`. |
| `LRUMap` | `src/cached.ts` 228-246 | The `Map` inside an LRU as a value: a sequence of entries, oldest first, and what `#set`, `delete`, `deleteOldest` and `peek` do to it. Shared by `LRU`, `Prover` and `Gateway`. |
| `LRUMapProof` | - | Lemmas about these: what stays, in which order, and when nothing is lost. Used by `LRUProof`, `ProverProof` and `GatewayProof`. |
| `LRU` | `src/cached.ts` 210-285 | The LRU: an entry names the "write" it comes from, in the place of its promise, so that a continuation can tell whether the entry is still its own. |
| `LRUProof` | - | Theorems about `LRU`; it implements `LossyCache`. |
| `LossyCache` | `src/cached.ts` | Abstract: what a cache promises to whoever looks a key up. A value may be lost at any moment, but never comes back and never gives way to an older one. `LRU` and `CachedMap` implement it (`IsLossyCache`, by `INSTANCE LossyCache WITH`). |
| `CachedMap` | `src/cached.ts` 88-205 | `pending`, `cached` with expiries, and the one timer; the timer fires at its time or later. A row has the number of its `set` (`nth`), for the order in which a full cache drops rows that expire together. |
| `CachedMapProof` | - | Theorems about `CachedMap`; it implements `LossyCache`. |
| `VMData` | `src/ops.ts`, `src/utils.ts`, `contracts/GatewayRequest.sol` | The values both machines compute with: strings of cells, `WordCells` cells to a word and `AddrCells` to an address, numbers modulo `Base^WordCells`. Programs are such strings, so that programs can be pushed, copied and run. `Hash`, for keccak256, is some function of strings into words; storage is a function of address and slot. |
| `ProverVM` | `src/vm.ts`, `src/reader.ts`, `src/wrap.ts` | The machine that records what must be proved. One step runs one opcode, or answers one storage read in flight. A lazy value is a future with its reads; what awaits it waits in `status`. `prove()` is the pair `Proofs`, `Order`. |
| `VerifierVM` | `contracts/GatewayVM.sol` | The machine that verifies. One step runs one opcode of the machine on top. The second machine of `EVAL_LOOP` and the buffer swap of `EVAL` are as in the code, leftovers included. The hooks (`verifyAccountState`, `verifyStorageValue`) are external: a proof is what it proves. |
| `RequestV1` | `src/v1.ts` | Requests of the first protocol: the calls of the builder (`Built`), the commands they are packed into, and the program `v2()` makes of those (`V2`). `Meant` says without commands or programs what the calls ask for. `MaxConsts` and `CommandSize` stand for the two 32s, so that full commands occur. |
| `RequestProtocol` | `vm.ts` `prove`, `GatewayVM.sol` `evalRequest` | Composes the two: evaluate, respond, deliver the witness, verify. For the requests of `Altered` the gateway may also respond with another order: one place changed, one id more or less. A request of the first protocol (`asked`) is run as its program, and `ProofsV1` is what `proveV1()` answers it with. |
| `Gateway` | `src/gateway.ts`, `src/rollup.ts` 65-85 | Concurrent `proveRequest()` calls cut at their awaits, over three caches: the latest index and the commits may expire at any moment, the answers are an LRU of `callMax` entries. The rollup goes on and may replace commits. |
| `GatewayProof` | - | Theorems about `Gateway`. |
| `Prover` | `src/eth/EthProver.ts`, `src/linea/LineaProver.ts`, `src/zksync/ZKSyncProver.ts`, `src/polygon/ZKEVMProver.ts`, `src/starknet/StarknetProver.ts`, `src/vm.ts` 586-644 | `getProofs`, `getStorage`, `isContract` and `_proveNeed` of one prover, called concurrently and cut at their awaits. The five share most of their text, which is `EthProver`'s; where one differs, the record of its rules says how (`EthRules`, `LineaRules`, ...). A future is named by the call and the position of its key; what it resolves to is in the call's `got` and whether it does in its `blocker`. `Joined` touches one key after another and blocks what is missing; `Filled` puts what came where it was missing, by its place among the missing. The node is external. |
| `ProverProof` | - | Theorems about `Prover`. |
| `AbstractRollup` | `src/rollup.ts`, `contracts/AbstractVerifier.sol` | What all rollups and verifiers share: the checks of `fetchCommit` and `fetchParentCommitIndex`, `align`, the window. |
| `OPOutputs` | `src/op/OPRollup.ts`, `contracts/op/OPOutputFinder.sol`, `OPVerifier.sol` | Outputs proposed to an oracle, right or wrong, and deleted before they are final. |
| `OPGames` | `src/op/OPFaultRollup.ts`, `contracts/op/OPFaultGameFinder.sol`, `OPFaultVerifier.sol` | Dispute games of two kinds, one of which builds on parents; what the finder remembers is passed along as `memo`. |
| `ReverseOP` | `src/op/ReverseOPRollup.ts`, `contracts/op/ReverseOPVerifier.sol` | The first chain read from the second. |
| `NitroNodes` | `src/arbitrum/NitroRollup.ts`, `contracts/arbitrum/NitroVerifierLib.sol`, `ArbitrumVerifier.sol` | Nodes made, staked, confirmed and destroyed. |
| `DoubleNitro` | `src/arbitrum/DoubleArbitrumRollup.ts`, `contracts/arbitrum/DoubleArbitrumVerifier.sol` | A third chain behind a second: two instances of `NitroNodes`. |
| `BoLDAssertions` | `src/arbitrum/BoLDRollup.ts`, `contracts/arbitrum/BoLDVerifierLib.sol` | Assertions and rivals, the log of events, and what the rollup keeps of it, chunk by chunk. |
| `TrustedCommits`, `UncheckedCommits`, `InteractiveCommits`, `EthSelf` | `src/TrustedRollup.ts`, `src/UncheckedRollup.ts`, `src/InteractiveRollup.ts`, `src/eth/EthSelfRollup.ts` and their verifiers | Commits that are signed, unproved, set by an owner, or blocks of the chain itself. |
| `LineaCommits`, `LineaShnarfs` | `src/linea/LineaRollup.ts`, `UnfinalizedLineaRollup.ts` and their verifiers | Finalizations, with Shomei behind; submissions of data before they are final. |
| `FinalizedBatches` | `src/scroll/*.ts`, `src/morph/MorphRollup.ts`, `src/zksync/ZKSyncRollup.ts`, `src/polygon/ZKEVMRollup.ts` and two verifiers | Batches committed one or some at a time and finalized in bundles. |
| `Checkpoints` | `src/polygon/PolygonPoSRollup.ts`, `contracts/polygon/PolygonPoSVerifier.sol` | Checkpoints, and the posts of block hashes within them. |
| `StateUpdates` | `src/starknet/StarknetRollup.ts`, `contracts/starknet/StarknetVerifier.sol` | Updates of the state root, found by reading the log backwards. |
| `TaikoBatches` | `src/taiko/TaikoRollup.ts`, `contracts/taiko/TaikoVerifier.sol` | Batches proved in any order, verified in order, with a root stored every so often. |
| `Rollups` | `src/rollup.ts` | The interface of a rollup and its verifier, for whichever the setting names. |
| `Commits` | `src/gateway.ts` 135-154, `src/rollup.ts`, `contracts/GatewayFetchTarget.sol` | The composition: the verifier is asked for its context, the gateway finds a commit for it, the verifier gets the answer, and between any two steps the chain goes on and a part of it becomes final. |
| `RollupsProof` | - | Lemmas about each of the rollups, its chain and its verifier, and about `Rollups`, which chooses among them: what a verifier accepts. |
| `CommitsProof` | - | Lemmas about the gateway's half of each rollup: its searches, what it remembers and the commits it makes; theorems about `Commits`. |
| `MC_*` | - | Constants and symmetry for TLC. `MC_Request` holds the requests tried. |

### How the models correspond to the code

*Steps.* JavaScript runs to the next `await`; every action of `CachedValue`,
`CachedMap`, `LRU`, `Prover` and `Gateway` is such a run, with everything it changes.
The contract half is sequential, and its steps are opcodes. In the gateway half
an opcode runs to its end unless it awaits a lazy value; meanwhile reads may be
answered in any order.

*Data.* A byte is a cell of 7 bits, a word two cells, an address one; numbers
still wrap, addresses are still cut off, values are still padded, and short and
long Solidity strings are both there. `int32` arithmetic on sizes is kept as
`IntBits`, and the one-byte ids of the order as `OrderIds`. Proofs are ideal:
the tries, RLP and hash functions are not modelled, a proof of `x` is accepted
where `x` is asked for and nowhere else.

*Rollups.* Each rollup module has the same operators: what the contracts of the
chain do (`Start`, `Moves`; external, modelled from how the code reads them),
the rollup's searches, the verifier's checks, and at the end what the properties
compare them with, stated on the chain and not by the code: which commits are
usable, what an accepted answer must rest on (`Promised`), and when an honest
answer may be refused (`Spoiled`). A searching loop is a recursive function, so
that the same text may be proved about; where it goes on two numbers, the
function takes the pair. Before its genesis a BoLD rollup has no confirmed
assertion: the guard of `BoLDRollup` then throws, and nothing is found. A root is named by what it is the root
of. `view` is the final part of the chain, `latestBlockTag`, and `s` the whole:
a search that uses both uses them as the code does.

*Cells and opcodes.* All opcodes but `DEBUG` have their numbers from
`src/ops.ts`; `DEBUG` (255) is the largest cell.

*Caches in `Gateway`.* The component models show what the caches promise; in
`Gateway` the entries are therefore kept as the code keeps them, but expire at
any time, within `MaxTrouble`, so that every relation of `pollMs`, `errorMs`
and the 250 ms of historical commits is covered. `callLRU` is an LRU of
`callMax` entries (1000 in the code, 0 after `disableCache()`), with the
operators of `LRUMap`: it drops the oldest entry for room, also one whose
evaluation still runs, and what is dropped is evaluated again. Whoever awaits a
dropped evaluation still gets its answer.

## 3. The runs

Every property of a passing run has a mutant in `PROJECT.json`: a plausible
slip in the code (kept as an operator next to the right one) that TLC finds
with that property and that run.

| Run | What it asks |
|---|---|
| `cached_value` | Three generators, two lifetimes, times to 3, so that expiry, displacement and late answers fall in every order; and that pending values end. |
| `lru` | Three keys, five writes, sizes 0 to 2 changed at any time: eviction, refresh and late promises for the same key; and that all this is a lossy cache. |
| `cached_map` | Three keys, room for two, three promises; lifetimes of 0, 3 and "for ever"; and that it is a lossy cache, while pending promises and rows live side by side. |
| `request` | About 13 000 requests put together from pieces: every opcode on literals of every kind and size, stack shuffles, reads of every kind from every place (no target, no contract, empty slot, short, long and malformed strings, arrays), `EVAL` and `EVAL_LOOP` with every flag and most combinations of them, nested; four reads in a row with budget for seven proofs and an eight-bit `int32`, so that the size of a hundred slots wraps and passes its check, and the budget has to refuse it. For some, a gateway that changes one place of the order, or sends one id more or less. `NeverStuck`: whatever is awaited is or will be answered, also if sizes are refused or programs run themselves. About 450 requests of the first protocol, of one or two gets with up to two steps each: `MeansTheSame` compares the values and the proofs with what the builder's calls mean. |
| `moved_in_loop`, `failed_in_loop` | *Violations.* See findings 2 and 3. |
| `gateway` | Two calls, at three settings of `commitDepth`, `allowHistorical` and `callLRU.max` (depth 1 with room for every answer; historical commits with room for one answer, and for none), with two troubles (a replaced commit, a failing fetch, an expiry) in any combination. |
| `gateway_live` | Every call ends, with one trouble: at depth 1, where a call awaits the parent and its commit and either may fail, and with historical commits; with room for one answer or for none, so that what a call awaits may be dropped meanwhile. |
| `gateway_purge` | *Violation.* Commits 8 to 10 at depth 1: when 10 has come, it is purged, and 8 and 9 stay. See finding 1. |
| `prover` | Two calls of nine kinds (two slots in either order, one slot twice, reads of a contract and of none, needs with and without slots) to each of the five provers, in seven settings: batches of one and two, fast reads and not (Starknet both ways), an LRU that holds everything, that evicts, and that is off; one request that fails or comes back a proof short. `AnswersTheQuestion` and `FailsForCause` except one kind of call: `getStorage()` of Starknet that takes the value from a proof (`ReadsEdge`; section 5). |
| `commits` | Thirty-six settings of twenty kinds of rollup, finalized and not: see below. |
| `games_memo` | *Violation.* See finding 4. |

What `commits` asks of every one of them:

* `AcceptedAsPromised`, `AcceptedIsRecent`: of *every* witness there can be, at
  every moment after the question: what the verifier accepts stands on the chain
  as the rollup promises, and is within the window.
* `HonestAccepted`: what the gateway serves is accepted, or too old, or its
  ground is gone. The two halves search for themselves, in two languages and in
  two states of the chain; that they agree is what the whole system is for.
* `LatestIsLatest`, `ParentIsNext`, `UsableIsFetched`, `ServesNewest`: the
  searches skip nothing that is usable, and a commit can be made of what they find.
* `SyncedAsOnChain`: what `BoLDRollup` keeps of the events is what the chain says.

**Bounds and why they are enough.** Two calls are enough for each race on a
cache entry: one that holds what it read, one that changes it. A third
generator in `CachedValue` is the one that starts after a displacement of a
displaced one. Three keys with room for two make every eviction choose. The
indices before the first commit, of the first and of the second, with
`commitDepth` 1, give a latest, a parent and one that is too old; 8 to 10
crosses the change of digits. Three answers are all that two commits and the
index before them can have, so that `callLRU` with room for three never drops
one, with room for one it drops one that runs, and with none it keeps nothing. Two troubles are what it takes to use a commit
that was replaced and whose verdict has expired. The requests keep every opcode and every
pair of reads; nested loops are two deep, as is the difference between the
frames of the two machines; `MaxEvalDepth` 3 is exceeded once. Two calls of a
prover are one that fetches and one that finds its keys in flight, fetched,
evicted or failed; three proofs (an account and two slots) are more than an LRU
of two holds. In `commits` a chain makes four to six moves (time, a proposal, a
confirmation, a deletion, ...), which is enough for three outputs, games, nodes
or batches of which one is not yet old enough, one is gone or wrong and one is
served, with a window of one or two units, a search step of one or two blocks
and `commitDepth` 0 to 2; `commitDepth` 1 gives a latest, a parent, and one that
is too deep. The question is asked once, twice where the rollup remembers.
Numbers: 14-bit
words are longer than any size, count or slot used, and wrap in arithmetic.

**What the environment is taken to do** in `commits`. A BoLD assertion is made in
a later block than its parent. In the passing run a Euclid commit transaction
has one batch (with more, a bundle may end inside a transaction, and no commit
can be made of the latest batch). The unfinalized Linea verifier is set up on a
chain with something final. A node of the second chain of a double rollup has
the third chain as it was when the node was made. What is left out of a claim:

* `HonestAccepted` allows a refusal if the commit was deleted, destroyed,
  rivalled, blacklisted or replaced after it was served, if the block it is
  proved in has no hash any more, if Starknet's root is no longer current, if a
  Taiko batch was proved after the last synced one, if a final game was resolved
  after the one of the context though it was made before it (section 5), and if
  an unchecked commit is made of a time between two blocks. The zkEVM has no
  verifier.
* `ParentIsNext`: several finalizations in one block (Scroll, Morph, Euclid)
  have the same parent, the last of a block before. It says that no usable commit
  is passed over, not that one can be made of the parent: of the zkEVM and
  ZKsync the parent is the index before, for which the zkEVM may have no root.
* `LatestIsLatest`, `UsableIsFetched`, `ServesNewest` and `SyncedAsOnChain` are
  claimed of BoLD where no request for events fails. The unfinalized Linea rollup
  makes no commit (the code throws), and `UsableIsFetched` leaves it out.

**Deadlock.** `CHECK_DEADLOCK FALSE` is set where the clock, the promises, the
moves of the chain or the calls run out (a bound of the model) or the request
ends (it should). It is checked in `lru` and in `request`.

**Fairness.** `CachedValue`: a generator's promise settles (RPC calls time out)
and a queued continuation runs; nobody is obliged to call. `Gateway`: the same
for fetches, and a call goes on when what it awaits has settled. `Prover`:
something goes on while anything can, that is, queued continuations run and the
node answers or fails each request; the calls are finitely many and each takes
finitely many steps, so no stronger fairness is needed. The rollup is never
obliged to advance, and nothing to expire. `RequestProtocol` needs none: its
runs are finite, and `NeverStuck` is an invariant. `Commits` claims no liveness:
a question that finds nothing is given up.

## 4. What is proved

Every safety property of the runs `cached_value`, `lru`, `cached_map`, `gateway`
and `prover` is proved for every value of the constants, both keyed caches
are proved to implement `LossyCache`, and five properties of `commits` are
proved of every rollup they are about: the two that say what a verifier may
accept, the one that says that it accepts what the gateway serves, the one that
says that of every usable index a commit is made, and, of BoLD, the one that
says that what the gateway read of the log is true. None of these properties is inductive;
what each proof adds to it is said below. The proofs have one shape: `Inv` is
`TypeOK` and an inductive part, `InvInit` and one lemma for each action give
`InvHolds`, and the theorems follow from `Inv`.

**`CachedValueProof`**, for every set of promises, lifetimes, error lifetime and
bound on the clock, assuming only `CachedValueAssumption` (the times are
natural numbers and "no promise" is not a promise):

* `TypeCorrect`: `Spec => []TypeOK`.
* `InductiveInvariant`: `Spec => []Inductive`. What makes the properties
  inductive is the history of observers: flags go up only
  on observers older than the current one; whoever was displaced has been told;
  the pending value is the one generator with the current observer; and what is
  not pending was either cleared or finished with its own expiry. The first
  conjunct is needed because a fresh observer must be one nobody was told about,
  the last because a late continuation must not touch the expiry of its successor.
* `ValueIsDefined`, `ObserverIsExact`, `LifetimeIsHonest` follow from it;
  `OneGeneratorRuns` follows from `ObserverIsExact` with a fact about singletons.

**`LRUProof`**, for every set of keys and of writes and every set of sizes, assuming
only `LRUAssumption` (sizes are natural numbers, the two sentinels are no keys
or writes):

* `TypeCorrect`, and `InductiveInvariant`: `Spec => []Inductive`. `Bounded`
  needs that a key is there once (`KeysDiffer`), or taking the key out before
  putting it back would leave an older entry of it; `NoStaleValue` needs that an
  entry comes from a write of its own key, or the handler of that write would
  look at the wrong one.
* `IsBounded`, `NoValueIsStale` and `PendingEntriesAreLive` follow from it, and
  `EvictsTheOldest`: the entries stand in the order of last use. Two
  lemmas carry the steps: `Putting` (an entry put for its key's latest write
  keeps the invariant) for writes, touches and answers, and `TakingAway` for
  deletes, resizes and rejections; under them, in `LRUMapProof`, what `Without`,
  `DropOldest` and `Put` do to a sequence of entries: which stay, that they stay
  in their order, and that nothing is dropped while there is room for all keys.
* `ImplementsLossyCache` (at the end): `Spec => IsLossyCache`. As nothing
  held is stale, what a look at a key gives is what was last written to it
  (`ShownIsNewest`). Every step then either writes nothing and holds no new key,
  which maps to a `Fade` (`Fading`), or writes one key and holds no other new
  one, which maps to its `Put` (`Writing`).

**`CachedMapProof`**, for every set of keys and promises, every lifetime, size and
bound on the clock, assuming `CachedMapAssumption` (numbers are natural, and the
clock stays below `Infinity` also when a lifetime is added to it):

* `IsBounded`, `NoValueIsStale`, `PendingPromisesAreLive`, `LifetimesAreHonest`,
  `TheTimerCovers`. Together they are nearly inductive; they need besides that a
  cached promise has settled and a pending one is of its key, and that what was
  last put for a key was used before.
* `Bounded` is a fact about the batch that makes room: rows are totally ordered
  by expiry and insertion, so that some row has none beyond it (`LastRow`, from
  the greatest of a bounded set of numbers), and as the batch is at least one
  row, that row goes (`RoomIsMade`). It holds for every `maxCached`, also those
  below 16 where the batch is rounded up.
* `TimerCovers` needs that a row put later does not move the timer back
  (`Scheduled`), and that the timer, when it fires, is set for what stays.
* `ImplementsLossyCache` (at the end): a look at a key gives the
  pending promise if there is one, else the row that has not expired. Expiry,
  eviction, `delete`, `clear` and a failing fetch map to `Fade`, `set` and a
  fetch to `Put`.

**`GatewayProof`**, for any number of calls, any range of commits, all settings
and any number of failures, replacements and expiries, assuming
`GatewayAssumption` (indices are positive, depths and sizes natural numbers):

* `EveryoneAnsweredAsAsked`, `RefusedAreTooOld`, `AnswersAreCurrent`, `EvaluatesOnce`.
* The invariant says of each promise what it is about and may resolve to
  (`PromiseOK`), of each cache that it holds promises of its kind and index
  (`CachesOK`), and of a call, at each of its awaits, what it knows (`CallOK`):
  where it is on its walk (`Place`: at the latest, `depth` below it, or at the
  historical one it asks for) and which promise it waits for. A call keeps
  nothing else over an await, so that this is all it may rely on.
* `AnswersAreCurrent` is the one that other calls threaten. A commit a call
  should not be answered at was replaced before it began, with its verdict
  expired; such a commit stays *suspect* (`Suspect`), because the only verdict
  it can still get is a bad one, and a call that meets it waits for that verdict
  (`BadVerdict`) and does not take it. That it stays so over all steps of all
  others is `SuspectStays` and `BadVerdictStays`. What any step keeps of the
  promises is said once (`Kept`, `Forward`).
* `EvaluatesOnce` says so while `callLRU` has room for an answer at every index
  (`Roomy`); without room two evaluations of a request may run together, as an
  LRU drops the running ones with the others. It needs that a running evaluation
  is in the LRU under its index (`CallsOK`). There it stays: nothing is dropped
  (`RoomForAll` of `LRUMapProof`, by `PutFits`), and only its own end takes it out
  (`HeldCalls`, `CallsStay`).

**`ProverProof`**, for any number of calls, all questions, every batch size, every
LRU (also too small or off), and any number of failed and short answers,
assuming `ProverAssumption` (finitely many targets and slots, the three sorts of
contract differ, questions are formed as the TypeScript types have it) and
`KnownLimits`:

* `CallsAreAnswered`, `ProofsAreOfTheirKey`, `ProofsAreFetchedOnce`,
  `FailuresAreForgotten`, `CallsFailForCause`.
* A future is kept by the call that fetches it, under its key, for good
  (`FutureOf`); the LRU, the sources of a call and what a call awaits only name
  such futures. So a call may hold a future that was evicted or deleted long ago,
  and still gets the proof of its own key (`ProofFits`). `Fits` says what may be
  there: the proof, or nothing if the node proves none for this target, or was
  short.
* `JoinAll` is an induction over the keys of a call, by the least number of keys
  for which it would fail (`JoinOne` is the step): each key has as its source
  the future found in the LRU or the call's own, and the LRU stays one that
  holds futures by their keys.
* `FilledFits` is why batches come out right: the missing slots have places 1, 2,
  ... among the missing (`PlacesOrdered`), batches follow one another in these
  places, and an answer that lacks its last proof lacks the last place
  (`AnsweredFirst`, `PlacesOfFirst`).
* `ProofsAreFetchedOnce` needs `HeldOK`: while there is room for all keys, what
  is on its way or there is in the LRU, so that the next call finds it. That
  nothing is evicted then is `RoomForAll` of `LRUMapProof`.
* `CallsFailForCause` needs a cause for every rejected blocker, failed read and
  failed key of the cache of reads (`TroubleOK`), and that the count of storage
  proofs is right whenever nothing is missing (`GatheredFit`).

`KnownLimits` names the settings that are left out because the code is known not
to do there what is claimed (section 5): ZKSync with a short answer (its text
says that it assumes a correct RPC), and short answers to questions of more than
one batch. TLC evaluates it in `prover`. All settings of Starknet are in; the
theorems except, as the properties do, the calls of its `getStorage()` that take
the value from a proof. `SlotKnown` and `ReadOf` give these what the code gives
them, or let them fail.

**`CommitsProof`**, with its lemmas in `RollupsProof`, for every set of settings of
all sixteen rollups, assuming `SettingsAssumption` (each is an `IsSetting`):

* `AcceptedPromised`: what a verifier accepts was on the chain as its rollup
  promises, whoever made the witness and whatever the chain did since the
  question. `AcceptedRecent`: it is within the window. Neither speaks of the
  gateway: a gateway that lies is refused.
* `IsSetting` says that windows, ages and limits are natural numbers (they are
  unsigned in the contracts), that the sorts of games are the two there are, and
  no more games than the index that stands for no parent, and that the steps and
  depths of searches are positive (with a step of 0 they would not end). Two of
  its conjuncts say more: a rollup on Nitro or BoLD starts after block 0, as 0 is the time of
  what was never made, and outputs of the OP stack are not final when made.
* The hard part is that the verifier makes its context of one state of the chain
  and checks the witness in another. The invariant of `CommitsProof` therefore
  keeps, for the open question, that the present chain came of the one it was
  asked of (`AskedBefore`), by a relation of two states of a chain: `ChainKept`,
  which of each rollup says what its contracts never take back. Outputs that were
  final are there unchanged, and what took the place of a deleted one is younger
  than the question (`OutputsKept`); nodes stay with their times and confirmed
  if they were (`NitroKept`); what was set, proved, submitted or finalized stays
  in its place. It holds after each move (`...Step`, `ChainMoves`) and tick
  (`...Tick`, `ChainTicks`), and over two stretches of time if over each
  (`...On`, `ChainOn`).
* `ChainOK` says what holds of one state. For `NitroNodes` it is that parents come
  before their children and a confirmed node has a confirmed parent; for
  `BoLDAssertions` that the children of an assertion without rivals are one, which
  is why a chain of such assertions stands (`BoldStands`); for `OPGames` that
  parents come before, and a game of the newer type that nobody challenged is in
  progress.
* `...Accepts` are the theorems proper, one for each verifier. Three of them rest
  on a search in Solidity, which is a loop or a recursion there and a recursive
  function here: `OutputFound` (the binary search of `OPOutputFinder` finds
  an output that is old enough), `NitroFound`, and `UsableStands` (a game that
  `OPFaultGameFinder` calls usable has won, or nothing it rests on is lost or
  disputed: `AncestorPasses` says that the walk over its ancestors passes no
  other). What the finder remembers between games is an arbitrary number in
  `UsableStands`: it may make the finder pass over a game (section 5), never
  accept a wrong one.
* That a recursive function is what its rule says is proved once, for every rule
  that goes down in some rank (`Recursion`), and so is that what the rule passes
  on holds of all its values (`Induction`). The library states both with an
  operator as a parameter, which these provers cannot use; here the rule is
  a function, and the proof takes a counterexample of least rank (`LeastOf`).
* The exceptions the properties make are theirs, not the proof's: an unfinalized
  output may have been replaced, `StateUpdates` and `LineaShnarfs` check no window
  (section 3 and the modules).
* `HonestIsAccepted`: what the gateway serves is accepted, too old, or its ground
  is gone. `Inv` is not enough for it, which knows nothing of the answer on its
  way; the inductive invariant is `Inv /\ Linked`. `Linked` has four parts.
  `ChainLinked` is what more a chain keeps that the gateway relies on (games,
  nodes and checkpoints come in the order of their times, no confirmed node lies
  between a confirmed one and the one it was made on, a batch of Taiko that is
  verified is proved, the log of a BoLD chain is true). `MemoryLinked` is what
  the gateway remembers: each entry `BoLDRollup` kept of the events says of an
  assertion what the chain says (`EntrySays`), though it may have counted a child
  twice; the latest signature `TrustedRollup` keeps was made. `IndexOK` is what
  an index can be, and `CommitRests` what the commit on its way rests on: a game
  with the root the commit has; a node, confirmed if only those are served; for
  BoLD a branch of assertions, each made on the one before, that begins at a
  confirmed one; for a checkpoint, a post in its range.
* Three things are proved of these for each rollup and put together once.
  `...Fetched`: a commit that `fetchCommit()` makes, of an index the searches gave,
  rests on the chain. `...Stays` and `...Rested`: what it rests on is still there
  after a move of the chain, or after time; where it is not, `Spoiled` says so.
  `...Served`: of a commit that rests on the chain the verifier accepts the
  witness. `CommitFetched`, `Stays` in `LinkedMoves` and `LinkedTicks`, and
  `RestServed` are the same of `Rollups`, whatever the setting names.
* The searches in TypeScript are recursive functions as those in Solidity are.
  `Loop` says once of those that stop or go on with the next place that they
  have a value, and that what holds wherever they stop holds of it (`LoopIs`,
  `LoopEnds`): `ReverseOPRollup` halves an interval of blocks, `UncheckedRollup`
  first widens one and then halves it. `BoLDRollup` takes one event after the
  other, and an entry true of its assertion stays true whatever comes next;
  then it collects a chain of entries, each naming the one before (`EntryChain`).
* That an honest answer is never too new is where the halves meet. The gateway
  compares indices, the verifier times or walks back from its context: nodes are
  numbered in the order of their times, and the way back from a confirmed node
  meets every confirmed one before it. Of final games it is not so (section 5).

* `SyncedIsOnChain`: if no request for events fails, `BoLDRollup` misses nothing.
  The invariant adds `LogRead` to the others. `LogLinked` says of the log that it
  tells of every assertion once, in the order they are made, of confirmations in
  order, and never of one before its assertion; `Reads` that what is remembered
  tells (`Tells`) of exactly the events between two blocks: from that in which
  some assertion was made that was confirmed by the last block read, to the
  latter. `SyncTells` goes through a range event by event: a new assertion counts
  for its parent and has no children yet (`TellsCreated`), and dropping what
  comes before a confirmed one loses nothing that is asked for (`TellsConfirmed`).
  A later event is of a later block, since the range ends where a block is final
  and old enough, so `Reads` outlasts every move (`ReadsStays`), and the next
  range begins where this one ended (`ReadsGuarded`). That the first assertion
  was *confirmed* by the last block is what makes the tail complete: nothing
  from the latest confirmed one on was made before it (`ReadsTrue`).

* `UsableAreFetched`: a search for the commit of an index misses none there is. Of
  an index that is usable on the chain, `FetchCommit` makes a commit, whatever
  the gateway remembers by then; `...Usable` is the lemma of each rollup,
  `UsableFetched` the same of `Rollups`. The searches look at a part of the chain
  only and rely on its order for the rest, so the invariant adds `Ordered`: the
  blocks of the second chain know of later and later blocks of the first
  (`ReverseOrdered`), blocks come in the order of their times
  (`UncheckedOrdered`), and updates in the order of their numbers and blocks, so
  that an older update in a window means that the one looked for is in none
  before it (`UpdatesOrdered`, `UpdateFound`). Of BoLD, `InLine` says that what was
  confirmed is one line: after each confirmation but the last, a child of what it
  confirmed was. That is why an assertion that stands unconfirmed by the block the gateway
  read to rests on the latest confirmed one and on none before it (`ParentIsLast`:
  a sibling of the next in line would be a rival), and what is remembered begins
  there or earlier: each assertion on the way is an entry and counts one child,
  so that the chain collected of them is valid (`SoundGrows`, `StandingKnown`).

**What is only model-checked**, and why:

* The properties of `request`. `VMData` decodes strings and runs programs with
  `RECURSIVE` operators, about which nothing can be proved here; that both
  machines agree on every program would besides be an induction over programs.
* Three properties of `commits`: that the gateway's searches for the latest index
  and for a parent skip nothing (`ServesNewest`, `LatestIsLatest`,
  `ParentIsNext`). What is proved is that what they find is right, that what
  `BoLDRollup` searches is whole, and that the search for a commit misses none.
  Two of the three cannot be proved of every setting, as they are not true of every
  one: `LatestIsLatest` fails of games that build on each other (finding 4), and
  `ParentIsNext` of a Taiko rollup with `span` 2 or an unchecked one with `step` 2,
  which pass over commits on purpose. The settings of the run are among those
  they are claimed of, and a proof must first name these; see the plan.
* Liveness (`PendingEnds`, `Finishes`, `EveryCallEnds`) and `NeverStuck`, which
  says that a step is enabled.

`NoStaleValue` of `CachedMap`, `OneGenerator`, `ValueDefined` and the type
invariants are proved and in no run's list: the first is implied by
`IsLossyCache`, which is.

## 5. Findings

Each is a disagreement between the code and what it, its documentation or its
tests say; each has a run that TLC refutes.

1. `_updateLatest()` sorts bigints as text, so at 9 to 10, 99 to 100, ... it
   purges the newest commits: 10, when 8, 9 and 10 are cached
   (`src/gateway.ts:117`; "purge the oldest").
2. A loop whose body moves to another target leaves `prove()` with the wrong
   account for the reads after the loop (`src/vm.ts:1192`).
3. A sub-program that fails inside a loop's body is what the contract runs in
   the loop's next turn; the gateway runs the body (`contracts/GatewayVM.sol:528`).
4. `findGameIndex()` remembers the first ancestor that failed and refuses every
   game with an ancestor at or above it as "already checked", also one on
   another chain of parents that nobody checked; `gameAtIndex()` accepts that
   game (`contracts/op/OPFaultGameFinder.sol:162`).

What no property claims, because the code does not promise it or does not hold it:

* Final games are looked for by index, in the order they were made, but the
  window compares when they were resolved (`contracts/op/OPFaultVerifier.sol:104`),
  though "given the requested commitment, we answer: min(requested, latest)"
  (`src/gateway.ts:56`). Where the respected type was changed, so that the last
  final block and the present one offer games of different types, the gateway's
  older game may have been resolved later than the one of the context: an honest
  answer is refused as `CommitTooNew`. The proof of `HonestIsAccepted` met this;
  `Spoiled` of `OPGames` names it, and without that disjunct TLC shows it in
  `commits`.
* A full `CachedMap` removes the rows that expire *last* (`src/cached.ts:151`);
  the comment says "overflow clears oldest items".
* `_ensureRootClaim()` means to stop when the provider fails, but
  `fetchCommit()` wraps every error, so `isEthersError()` never knows it
  (`src/op/OPFaultRollup.ts:260`): a failed request looks like a wrong claim.
* When a chunk of events fails, `BoLDRollup` counts the children of the chunks
  before it again (`src/arbitrum/BoLDRollup.ts:211`): an assertion looks
  rivalled that is not, and is passed over until its parent is dropped.
* Starknet has no window (`contracts/starknet/StarknetVerifier.sol:57`), and the
  unfinalized Linea verifier no time at all; a Taiko transition need not be
  verified. `Recent` and `Promised` of those modules ask no more.

* `maxUniqueProofs` counts neither the accounts of targets nothing is read from
  nor hashed bytes (`src/vm.ts:480`), and `ACQUIRE_STATE` appends to the stack
  without the check of `push()` (`src/vm.ts:903`).
* Answers are kept by commit *index* (`src/gateway.ts:60`) and outlive a commit
  that is replaced under it; "for a given commit + request, calls are pure".
* A storage proof missing from a batch that is not the last moves the later
  ones to the slot before theirs, and they are in the LRU before
  `checkStorageProofs()` counts (`src/eth/EthProver.ts:166`). The settings with
  short answers therefore have one batch.
* `getStorage()` of Starknet takes the path of a proof's last edge, the end of the
  key, for the value, which is the edge's child: where the slot's proof is in the
  LRU, also with fast reads (`src/starknet/StarknetProver.ts:117`), and where it
  has just fetched the proofs, of the account's proof at that (line 128). Where
  the proof ends in no edge, `proofEdge()` throws (lines 43-46), though nothing
  failed: at a leaf with a sibling, for instance, or in an empty proof. The model
  has both outcomes wherever a proof is read, as tries are not modelled
  (`SlotKnown`, `ReadOf`, `Gather`).
* A left shift of a number that is not zero by some 2^30 bits or more throws in
  JavaScript (`src/vm.ts:994`), where the contract gives zero. The request has no
  answer then; no wrong one.
* `callLRU` drops running evaluations as it drops answers (`src/gateway.ts:51`):
  without room, the same request may be evaluated twice at once.

## 6. What is not modelled

* State tries, RLP, Poseidon/MiMC/Blake2s: arithmetic on 256 bits, and mostly
  third-party code. Proofs are ideal.
* `GatewayFetcher`, `GatewayProgram`: they only write programs; the programs
  they can write are the ones the runs try.
* Administration of trusted verifiers (setters behind an owner check), scripts,
  chain lists, deployments, HTTP.
* Looking up a prover's block or batch (`fetchBlock`, `isShomeiReady`), and the
  ids `ZKSyncProver.prove()` gives its proofs.
* Of the rollups: the encodings of witnesses for V1 (`encodeWitnessV1`), the
  decoding of blobs and calldata to the last block of a batch, seconds to
  windows (`windowFromSec`), the reads of `UncheckedProver`, and requests to the
  chain that fail, except those `BoLDRollup` remembers the rest of.
* Of the gateway: `getParentCommit()`, and of `disableCache()` all but the size of
  `callLRU`.
* Starknet's node answers a read of a contract that is not there with zero; the
  error of a real node would make that call fail.
* For now: the provider, and the caches of `GatewayV1`; see the plan.

## 7. Plan

In this order; each with its MC module, runs, mutants and, where marked *, a
proof module.

1. Done: the caches and the abstract cache they implement, the two request
   machines and their composition, the gateway, the provers, the rollups with
   their verifiers and the composition of each with the gateway's walk;
   * proofs of all safety properties of the caches, the gateway and the provers,
   that `LRU` and `CachedMap` implement the abstract cache, of what the
   verifiers accept (`AcceptedIsRecent` and `AcceptedAsPromised` of `Commits`),
   that they accept what the gateway serves (`HonestAccepted`), that what
   `BoLDRollup` keeps of the events is whole (`SyncedAsOnChain`), and that a commit
   is made of every usable index (`UsableIsFetched`).
2. * Proofs that the searches for the latest index and for a parent skip nothing,
   of the settings that are meant to (section 4): `ParentIsNext` of steps of 1 and
   no forks of games, `LatestIsLatest` of no forks, then `ServesNewest`.
3. `Provider`: batching and retries.
4. `GatewayV1`: its caches; and commands that no builder wrote.
