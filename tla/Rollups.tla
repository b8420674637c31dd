------------------------------ MODULE Rollups -------------------------------
(***************************************************************************)
(* The rollups the gateway of src/gateway.ts can serve and the verifiers   *)
(* that belong to them: r.rollup says which of them the settings are for.  *)
(* s is the state of the chain of the verifier, view the state of it that  *)
(* is final (latestBlockTag), m what the rollup remembers.                 *)
(***************************************************************************)
EXTENDS AbstractRollup

Outputs == INSTANCE OPOutputs
Games == INSTANCE OPGames
Reverse == INSTANCE ReverseOP
Nitro == INSTANCE NitroNodes
Double == INSTANCE DoubleNitro
BoLD == INSTANCE BoLDAssertions
Trusted == INSTANCE TrustedCommits
Unchecked == INSTANCE UncheckedCommits
Interactive == INSTANCE InteractiveCommits
Self == INSTANCE EthSelf
Linea == INSTANCE LineaCommits
Shnarfs == INSTANCE LineaShnarfs
Batches == INSTANCE FinalizedBatches
Taiko == INSTANCE TaikoBatches
Checkpoint == INSTANCE Checkpoints
Updates == INSTANCE StateUpdates

(* Ages, windows and limits are natural numbers; a chain starts after its   *)
(* genesis, and an output of the OP stack is not final when it is made.     *)
IsSetting(r) ==
    /\ r.rollup \in {"outputs", "games", "reverse", "nitro", "double", "bold",
                     "trusted", "unchecked", "interactive", "self", "linea",
                     "shnarfs", "batches", "taiko", "checkpoints", "updates"}
    /\ r.window \in Nat /\ r.max \in Nat
    /\ r.rollup \in {"outputs", "games", "nitro", "double", "bold", "shnarfs"} =>
            r.minAge \in Nat
    /\ r.rollup \in {"nitro", "double", "bold"} => r.start \in Nat \ {0}
    /\ r.rollup \in {"nitro", "double"} => r.confirmation \in Nat
    /\ r.rollup = "outputs" => r.finalization \in Nat \ {0}
    /\ r.rollup = "games" => /\ r.max <= Games!Anchor /\ r.clock \in Nat
                             /\ \A k \in r.creations : k.type \in {"fault", "succinct"}
                                                         /\ k.right \in BOOLEAN
    /\ r.rollup = "bold" => r.longest \in Nat /\ r.finishes \subseteq BOOLEAN
    /\ r.rollup = "batches" => r.blobs \in Nat
    /\ r.rollup \in {"reverse", "unchecked", "self"} =>
            r.step \in Nat \ {0} /\ r.depth \in Nat \ {0}
    /\ r.rollup = "taiko" => r.sync \in Nat \ {0} /\ r.span \in Nat \ {0}
    /\ r.rollup = "checkpoints" => r.deployed \in Nat
    /\ r.rollup = "updates" => r.depth \in Nat /\ r.step \in Nat \ {0}

Start(r) ==
    CASE r.rollup = "outputs" -> Outputs!Start(r)
      [] r.rollup = "games" -> Games!Start(r)
      [] r.rollup = "reverse" -> Reverse!Start(r)
      [] r.rollup = "nitro" -> Nitro!Start(r)
      [] r.rollup = "double" -> Double!Start(r)
      [] r.rollup = "bold" -> BoLD!Start(r)
      [] r.rollup = "trusted" -> Trusted!Start(r)
      [] r.rollup = "unchecked" -> Unchecked!Start(r)
      [] r.rollup = "interactive" -> Interactive!Start(r)
      [] r.rollup = "self" -> Self!Start(r)
      [] r.rollup = "linea" -> Linea!Start(r)
      [] r.rollup = "shnarfs" -> Shnarfs!Start(r)
      [] r.rollup = "batches" -> Batches!Start(r)
      [] r.rollup = "taiko" -> Taiko!Start(r)
      [] r.rollup = "checkpoints" -> Checkpoint!Start(r)
      [] r.rollup = "updates" -> Updates!Start(r)

Moves(r, s) ==
    CASE r.rollup = "outputs" -> Outputs!Moves(r, s)
      [] r.rollup = "games" -> Games!Moves(r, s)
      [] r.rollup = "reverse" -> Reverse!Moves(r, s)
      [] r.rollup = "nitro" -> Nitro!Moves(r, s)
      [] r.rollup = "double" -> Double!Moves(r, s)
      [] r.rollup = "bold" -> BoLD!Moves(r, s)
      [] r.rollup = "trusted" -> Trusted!Moves(r, s)
      [] r.rollup = "unchecked" -> Unchecked!Moves(r, s)
      [] r.rollup = "interactive" -> Interactive!Moves(r, s)
      [] r.rollup = "self" -> Self!Moves(r, s)
      [] r.rollup = "linea" -> Linea!Moves(r, s)
      [] r.rollup = "shnarfs" -> Shnarfs!Moves(r, s)
      [] r.rollup = "batches" -> Batches!Moves(r, s)
      [] r.rollup = "taiko" -> Taiko!Moves(r, s)
      [] r.rollup = "checkpoints" -> Checkpoint!Moves(r, s)
      [] r.rollup = "updates" -> Updates!Moves(r, s)

(* What the rollup keeps between two calls, what a call may make of it, and*)
(* what is left when it expires.                                           *)
NoMemory(r) ==
    CASE r.rollup = "bold" -> BoLD!NoMemory
      [] r.rollup = "trusted" -> Trusted!NoMemory
      [] OTHER -> [nothing |-> 0]
Remembered(r, view, s, m) ==
    CASE r.rollup = "bold" -> BoLD!Guarded(r, view, s, m)
      [] r.rollup = "trusted" -> {Trusted!Latest(r, s, m)}
      [] OTHER -> {m}
Forgotten(r, m) ==
    CASE r.rollup = "bold" -> [m EXCEPT !.guarded = FALSE]
      [] r.rollup = "trusted" -> Trusted!Expired(m)
      [] OTHER -> m

FetchLatestCommitIndex(r, view, s, m) ==
    CASE r.rollup = "outputs" -> Outputs!FetchLatestCommitIndex(r, view)
      [] r.rollup = "games" -> Games!FetchLatestCommitIndex(r, view, s)
      [] r.rollup = "reverse" -> Reverse!FetchLatestCommitIndex(r, view)
      [] r.rollup = "nitro" -> Nitro!FetchLatestCommitIndex(r, view, s)
      [] r.rollup = "double" -> Double!FetchLatestCommitIndex(r, view, s)
      [] r.rollup = "bold" -> BoLD!FetchLatestCommitIndex(r, view, s, m)
      [] r.rollup = "trusted" -> Trusted!FetchLatestCommitIndex(r, s, m)
      [] r.rollup = "unchecked" -> Unchecked!FetchLatestCommitIndex(r, s)
      [] r.rollup = "interactive" -> Interactive!FetchLatestCommitIndex(r, view)
      [] r.rollup = "self" -> Self!FetchLatestCommitIndex(r, view)
      [] r.rollup = "linea" -> Linea!FetchLatestCommitIndex(r, view, s)
      [] r.rollup = "shnarfs" -> Shnarfs!FetchLatestCommitIndex(r, view, s)
      [] r.rollup = "batches" -> Batches!FetchLatestCommitIndex(r, view, s)
      [] r.rollup = "taiko" -> Taiko!FetchLatestCommitIndex(r, view)
      [] r.rollup = "checkpoints" -> Checkpoint!FetchLatestCommitIndex(r, view, s)
      [] r.rollup = "updates" -> Updates!FetchLatestCommitIndex(r, view)

MadeCommit(r, s, m, index) ==
    CASE r.rollup = "outputs" -> Outputs!FetchCommit(r, s, index)
      [] r.rollup = "games" -> Games!FetchCommit(r, s, index)
      [] r.rollup = "reverse" -> Reverse!FetchCommit(r, s, index)
      [] r.rollup = "nitro" -> Nitro!FetchCommit(r, s, index)
      [] r.rollup = "double" -> Double!FetchCommit(r, s, index)
      [] r.rollup = "bold" -> BoLD!FetchCommit(r, s, m, index)
      [] r.rollup = "trusted" -> Trusted!FetchCommit(r, s, m, index)
      [] r.rollup = "unchecked" -> Unchecked!FetchCommit(r, s, index)
      [] r.rollup = "interactive" -> Interactive!FetchCommit(r, s, index)
      [] r.rollup = "self" -> Self!FetchCommit(r, s, index)
      [] r.rollup = "linea" -> Linea!FetchCommit(r, s, index)
      [] r.rollup = "shnarfs" -> Shnarfs!FetchCommit(r, s, index)
      [] r.rollup = "batches" -> Batches!FetchCommit(r, s, index)
      [] r.rollup = "taiko" -> Taiko!FetchCommit(r, s, index)
      [] r.rollup = "checkpoints" -> Checkpoint!FetchCommit(r, s, index)
      [] r.rollup = "updates" -> Updates!FetchCommit(r, s, index)
FetchCommit(r, s, m, index) == CommitAt(index, MadeCommit(r, s, m, index))

FoundParent(r, s, commit) ==
    CASE r.rollup = "outputs" -> Outputs!FetchParentCommitIndex(r, s, commit)
      [] r.rollup = "games" -> Games!FetchParentCommitIndex(r, s, commit)
      [] r.rollup = "reverse" -> Reverse!FetchParentCommitIndex(r, s, commit)
      [] r.rollup = "nitro" -> Nitro!FetchParentCommitIndex(r, s, commit)
      [] r.rollup = "double" -> Double!FetchParentCommitIndex(r, s, commit)
      [] r.rollup = "bold" -> BoLD!FetchParentCommitIndex(r, s, commit)
      [] r.rollup = "trusted" -> Trusted!FetchParentCommitIndex(r, s, commit)
      [] r.rollup = "unchecked" -> Unchecked!FetchParentCommitIndex(r, s, commit)
      [] r.rollup = "interactive" -> Interactive!FetchParentCommitIndex(r, s, commit)
      [] r.rollup = "self" -> Self!FetchParentCommitIndex(r, s, commit)
      [] r.rollup = "linea" -> Linea!FetchParentCommitIndex(r, s, commit)
      [] r.rollup = "batches" -> Batches!FetchParentCommitIndex(r, s, commit)
      [] r.rollup = "taiko" -> Taiko!FetchParentCommitIndex(r, s, commit)
      [] r.rollup = "checkpoints" -> Checkpoint!FetchParentCommitIndex(r, s, commit)
      [] r.rollup = "updates" -> Updates!FetchParentCommitIndex(r, s, commit)
      [] OTHER -> NoIndex
FetchParentCommitIndex(r, s, commit) ==
    ParentIndex(commit, FoundParent(r, s, commit))

IsCommitStillValid(r, s, m, commit) ==
    CASE r.rollup = "outputs" -> Outputs!IsCommitStillValid(r, s, commit)
      [] r.rollup = "games" -> Games!IsCommitStillValid(r, s, commit)
      [] r.rollup = "bold" -> BoLD!IsCommitStillValid(r, s, m, commit)
      [] OTHER -> TRUE

EncodeWitness(r, commit) ==
    CASE r.rollup = "outputs" -> Outputs!EncodeWitness(commit)
      [] r.rollup = "games" -> Games!EncodeWitness(commit)
      [] r.rollup = "reverse" -> Reverse!EncodeWitness(commit)
      [] r.rollup = "nitro" -> Nitro!EncodeWitness(commit)
      [] r.rollup = "double" -> Double!EncodeWitness(commit)
      [] r.rollup = "bold" -> BoLD!EncodeWitness(commit)
      [] r.rollup = "trusted" -> Trusted!EncodeWitness(commit)
      [] r.rollup = "unchecked" -> Unchecked!EncodeWitness(commit)
      [] r.rollup = "interactive" -> Interactive!EncodeWitness(commit)
      [] r.rollup = "self" -> Self!EncodeWitness(commit)
      [] r.rollup = "linea" -> Linea!EncodeWitness(commit)
      [] r.rollup = "batches" -> Batches!EncodeWitness(commit)
      [] r.rollup = "taiko" -> Taiko!EncodeWitness(commit)
      [] r.rollup = "checkpoints" -> Checkpoint!EncodeWitness(commit)
      [] r.rollup = "updates" -> Updates!EncodeWitness(commit)

GetLatestContext(r, s) ==
    CASE r.rollup = "outputs" -> Outputs!GetLatestContext(r, s)
      [] r.rollup = "games" -> Games!GetLatestContext(r, s)
      [] r.rollup = "reverse" -> Reverse!GetLatestContext(r, s)
      [] r.rollup = "nitro" -> Nitro!GetLatestContext(r, s)
      [] r.rollup = "double" -> Double!GetLatestContext(r, s)
      [] r.rollup = "bold" -> BoLD!GetLatestContext(r, s)
      [] r.rollup = "trusted" -> Trusted!GetLatestContext(r, s)
      [] r.rollup = "unchecked" -> Unchecked!GetLatestContext(r, s)
      [] r.rollup = "interactive" -> Interactive!GetLatestContext(r, s)
      [] r.rollup = "self" -> Self!GetLatestContext(r, s)
      [] r.rollup = "linea" -> Linea!GetLatestContext(r, s)
      [] r.rollup = "shnarfs" -> Shnarfs!GetLatestContext(r, s)
      [] r.rollup = "batches" -> Batches!GetLatestContext(r, s)
      [] r.rollup = "taiko" -> Taiko!GetLatestContext(r, s)
      [] r.rollup = "checkpoints" -> Checkpoint!GetLatestContext(r, s)
      [] r.rollup = "updates" -> Updates!GetLatestContext(r, s)

GetStorageValues(r, s, m, context, p) ==
    CASE r.rollup = "outputs" -> Outputs!GetStorageValues(r, s, context, p)
      [] r.rollup = "games" -> Games!GetStorageValues(r, s, context, p)
      [] r.rollup = "reverse" -> Reverse!GetStorageValues(r, s, context, p)
      [] r.rollup = "nitro" -> Nitro!GetStorageValues(r, s, context, p)
      [] r.rollup = "double" -> Double!GetStorageValues(r, s, context, p)
      [] r.rollup = "bold" -> BoLD!GetStorageValues(r, s, context, p)
      [] r.rollup = "trusted" -> Trusted!GetStorageValues(r, s, m, context, p)
      [] r.rollup = "unchecked" -> Unchecked!GetStorageValues(r, s, context, p)
      [] r.rollup = "interactive" -> Interactive!GetStorageValues(r, s, context, p)
      [] r.rollup = "self" -> Self!GetStorageValues(r, s, context, p)
      [] r.rollup = "linea" -> Linea!GetStorageValues(r, s, context, p)
      [] r.rollup = "shnarfs" -> Shnarfs!GetStorageValues(r, s, context, p)
      [] r.rollup = "batches" -> Batches!GetStorageValues(r, s, context, p)
      [] r.rollup = "taiko" -> Taiko!GetStorageValues(r, s, context, p)
      [] r.rollup = "checkpoints" -> Checkpoint!GetStorageValues(r, s, context, p)
      [] r.rollup = "updates" -> Updates!GetStorageValues(r, s, context, p)

(* For the properties. *)
Witnesses(r, s) ==
    CASE r.rollup = "outputs" -> Outputs!Witnesses(r, s)
      [] r.rollup = "games" -> Games!Witnesses(r, s)
      [] r.rollup = "reverse" -> Reverse!Witnesses(r, s)
      [] r.rollup = "nitro" -> Nitro!Witnesses(r, s)
      [] r.rollup = "double" -> Double!Witnesses(r, s)
      [] r.rollup = "bold" -> BoLD!Witnesses(r, s)
      [] r.rollup = "trusted" -> Trusted!Witnesses(r, s)
      [] r.rollup = "unchecked" -> Unchecked!Witnesses(r, s)
      [] r.rollup = "interactive" -> Interactive!Witnesses(r, s)
      [] r.rollup = "self" -> Self!Witnesses(r, s)
      [] r.rollup = "linea" -> Linea!Witnesses(r, s)
      [] r.rollup = "shnarfs" -> Shnarfs!Witnesses(r, s)
      [] r.rollup = "batches" -> Batches!Witnesses(r, s)
      [] r.rollup = "taiko" -> Taiko!Witnesses(r, s)
      [] r.rollup = "checkpoints" -> Checkpoint!Witnesses(r, s)
      [] r.rollup = "updates" -> Updates!Witnesses(r, s)

Usable(r, s, m) ==
    CASE r.rollup = "outputs" -> Outputs!Usable(r, s)
      [] r.rollup = "games" -> Games!Usable(r, s)
      [] r.rollup = "reverse" -> Reverse!Usable(r, s)
      [] r.rollup = "nitro" -> Nitro!Usable(r, s)
      [] r.rollup = "double" -> Double!Usable(r, s)
      [] r.rollup = "bold" -> BoLD!Usable(r, s, m)
      [] r.rollup = "trusted" -> {}
      [] r.rollup = "unchecked" -> Unchecked!Usable(r, s)
      [] r.rollup = "interactive" -> Interactive!Usable(r, s)
      [] r.rollup = "self" -> Self!Usable(r, s)
      [] r.rollup = "linea" -> Linea!Usable(r, s)
      [] r.rollup = "shnarfs" -> Shnarfs!Usable(r, s)
      [] r.rollup = "batches" -> Batches!Usable(r, s)
      [] r.rollup = "taiko" -> Taiko!Usable(r, s)
      [] r.rollup = "checkpoints" -> Checkpoint!Usable(r, s)
      [] r.rollup = "updates" -> Updates!Usable(r, s)

Promised(r, m, asked, s, context, p) ==
    CASE r.rollup = "outputs" -> Outputs!Promised(r, asked, s, context, p)
      [] r.rollup = "games" -> Games!Promised(r, asked, s, context, p)
      [] r.rollup = "reverse" -> Reverse!Promised(r, asked, s, context, p)
      [] r.rollup = "nitro" -> Nitro!Promised(r, asked, s, context, p)
      [] r.rollup = "double" -> Double!Promised(r, asked, s, context, p)
      [] r.rollup = "bold" -> BoLD!Promised(r, asked, s, context, p)
      [] r.rollup = "trusted" -> Trusted!Promised(r, m, asked, s, context, p)
      [] r.rollup = "unchecked" -> Unchecked!Promised(r, asked, s, context, p)
      [] r.rollup = "interactive" -> Interactive!Promised(r, asked, s, context, p)
      [] r.rollup = "self" -> Self!Promised(r, asked, s, context, p)
      [] r.rollup = "linea" -> Linea!Promised(r, asked, s, context, p)
      [] r.rollup = "shnarfs" -> Shnarfs!Promised(r, asked, s, context, p)
      [] r.rollup = "batches" -> Batches!Promised(r, asked, s, context, p)
      [] r.rollup = "taiko" -> Taiko!Promised(r, asked, s, context, p)
      [] r.rollup = "checkpoints" -> Checkpoint!Promised(r, asked, s, context, p)
      [] r.rollup = "updates" -> Updates!Promised(r, asked, s, context, p)

Recent(r, asked, s, context, p) ==
    CASE r.rollup = "outputs" -> Outputs!Recent(r, asked, s, context, p)
      [] r.rollup = "games" -> Games!Recent(r, asked, s, context, p)
      [] r.rollup = "reverse" -> Reverse!Recent(r, asked, s, context, p)
      [] r.rollup = "nitro" -> Nitro!Recent(r, asked, s, context, p)
      [] r.rollup = "double" -> Double!Recent(r, asked, s, context, p)
      [] r.rollup = "bold" -> BoLD!Recent(r, asked, s, context, p)
      [] r.rollup = "trusted" -> Trusted!Recent(r, asked, s, context, p)
      [] r.rollup = "unchecked" -> Unchecked!Recent(r, asked, s, context, p)
      [] r.rollup = "interactive" -> Interactive!Recent(r, asked, s, context, p)
      [] r.rollup = "self" -> Self!Recent(r, asked, s, context, p)
      [] r.rollup = "linea" -> Linea!Recent(r, asked, s, context, p)
      [] r.rollup = "shnarfs" -> Shnarfs!Recent(r, asked, s, context, p)
      [] r.rollup = "batches" -> Batches!Recent(r, asked, s, context, p)
      [] r.rollup = "taiko" -> Taiko!Recent(r, asked, s, context, p)
      [] r.rollup = "checkpoints" -> Checkpoint!Recent(r, asked, s, context, p)
      [] r.rollup = "updates" -> Updates!Recent(r, asked, s, context, p)

Spoiled(r, asked, s, context, commit) ==
    CASE r.rollup = "outputs" -> Outputs!Spoiled(r, asked, s, context, commit)
      [] r.rollup = "games" -> Games!Spoiled(r, asked, s, context, commit)
      [] r.rollup = "reverse" -> Reverse!Spoiled(r, asked, s, context, commit)
      [] r.rollup = "nitro" -> Nitro!Spoiled(r, asked, s, context, commit)
      [] r.rollup = "double" -> Double!Spoiled(r, asked, s, context, commit)
      [] r.rollup = "bold" -> BoLD!Spoiled(r, asked, s, context, commit)
      [] r.rollup = "trusted" -> Trusted!Spoiled(r, asked, s, context, commit)
      [] r.rollup = "unchecked" -> Unchecked!Spoiled(r, asked, s, context, commit)
      [] r.rollup = "interactive" -> Interactive!Spoiled(r, asked, s, context, commit)
      [] r.rollup = "self" -> Self!Spoiled(r, asked, s, context, commit)
      [] r.rollup = "linea" -> Linea!Spoiled(r, asked, s, context, commit)
      [] r.rollup = "batches" -> Batches!Spoiled(r, asked, s, context, commit)
      [] r.rollup = "taiko" -> Taiko!Spoiled(r, asked, s, context, commit)
      [] r.rollup = "checkpoints" -> Checkpoint!Spoiled(r, asked, s, context, commit)
      [] r.rollup = "updates" -> Updates!Spoiled(r, asked, s, context, commit)

Skipped(r, s, commit) ==
    IF r.rollup = "batches" /\ r.kind \notin {"zksync", "zkevm"}
    THEN Batches!Skipped(s, commit) ELSE {}
=============================================================================
