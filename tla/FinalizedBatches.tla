-------------------------- MODULE FinalizedBatches --------------------------
(***************************************************************************)
(* Rollups that commit batches and finalize them in bundles:               *)
(* src/scroll/ScrollRollup.ts, src/scroll/EuclidRollup.ts,                 *)
(* src/morph/MorphRollup.ts, src/zksync/ZKSyncRollup.ts and                *)
(* src/polygon/ZKEVMRollup.ts, contracts/scroll/ScrollVerifier.sol and     *)
(* contracts/zksync/ZKSyncVerifier.sol.  The state s has the block of the  *)
(* first chain, the last batch of each commit transaction, and the last    *)
(* batch and the block of each finalization, all oldest first.  A root is  *)
(* named by its batch; batch 0 is the genesis.                             *)
(***************************************************************************)
EXTENDS AbstractRollup

Start(r) == [now |-> 1, commits |-> << >>, finals |-> << >>]
LastCommitted(s) == IF s.commits = << >> THEN 0 ELSE s.commits[Len(s.commits)]
Finals(s, block) == {k \in DOMAIN s.finals : s.finals[k].block <= block}
LastFinalized(s, block) ==
    IF Finals(s, block) = {} THEN 0
    ELSE s.finals[CHOOSE k \in Finals(s, block) :
                    \A m \in Finals(s, block) : m <= k].index
Moves(r, s) ==
    {[s EXCEPT !.commits = Append(@, LastCommitted(s) + n)] :
        n \in {n \in 1..r.blobs : LastCommitted(s) + n <= r.max}}
    \cup {[s EXCEPT !.finals = Append(@, [index |-> i, block |-> s.now])] :
            i \in LastFinalized(s, s.now) + 1..LastCommitted(s)}

FinalEvents(s, index) == {k \in DOMAIN s.finals : s.finals[k].index = index}

(* One rule of each rollup: can a commit be made of batch index?  Scroll   *)
(* and Morph need the event that ends a bundle with it.                    *)
EndsABundle(s, index) == FinalEvents(s, index) # {}
(* Euclid also needs it to be the last batch of its commit transaction, or *)
(* the hashes of the blobs do not lead to the batch.                       *)
EndsItsBlobs(s, index) ==
    EndsABundle(s, index) /\ \E k \in DOMAIN s.commits : s.commits[k] = index
(* ZKsync needs it executed, in whatever bundle. *)
IsExecuted(s, index) == index \in 1..LastFinalized(s, s.now)
(* The zkEVM needs a root that is stored for it. *)
HasStateRoot(s, index) == FinalEvents(s, index) # {}

IsFinalized(r, s, index) ==
    CASE r.kind = "zksync" -> IsExecuted(s, index)
      [] r.kind = "zkevm" -> HasStateRoot(s, index)
      [] r.kind = "euclid" -> EndsItsBlobs(s, index)
      [] OTHER -> EndsABundle(s, index)

FetchLatestCommitIndex(r, view, s) == LastFinalized(view, view.now)
FetchCommit(r, s, index) ==
    IF IsFinalized(r, s, index)
    THEN [index |-> index,
          l1BlockNumber |-> IF FinalEvents(s, index) = {} THEN 0
                            ELSE s.finals[CHOOSE k \in FinalEvents(s, index) : TRUE].block]
    ELSE NoCommit
\* Mutant: what was final when the commit was, and not before.
ParentThen(r, s, commit) ==
    IF r.kind \in {"zksync", "zkevm"} THEN commit.index - 1
    ELSE LastFinalized(s, commit.l1BlockNumber)

FetchParentCommitIndex(r, s, commit) ==
    IF r.kind \in {"zksync", "zkevm"} THEN commit.index - 1
    ELSE LastFinalized(s, commit.l1BlockNumber - 1)
(* What was finalized in the block of the commit, a parent is never.       *)
Skipped(s, commit) ==
    {s.finals[k].index : k \in {k \in DOMAIN s.finals :
                                  s.finals[k].block = commit.l1BlockNumber}}
IsCommitStillValid(r, s, commit) == TRUE
EncodeWitness(commit) == [index |-> commit.index]

(* ScrollVerifier and ZKSyncVerifier; the zkEVM has no verifier. *)
FinalizedStateRoots(r, s) ==
    IF r.kind = "zksync" THEN 1..LastFinalized(s, s.now)
    ELSE {0} \cup {s.finals[k].index : k \in DOMAIN s.finals}
GetLatestContext(r, s) == LastFinalized(s, s.now)
GetStorageValues(r, s, context, p) ==
    LET window == CheckWindow(r, context, p.index)
    IN CASE r.kind = "zkevm" -> "no verifier"
         [] r.kind # "zkevm" /\ window = "ok"
                /\ p.index \notin FinalizedStateRoots(r, s) -> "not finalized"
         [] OTHER -> window

(* For the properties. *)
Witnesses(r, s) == [index : 0..r.max]
Usable(r, s) == {i \in 1..r.max : IsFinalized(r, s, i)}
Promised(r, asked, s, context, p) == p.index <= LastFinalized(asked, asked.now)
Recent(r, asked, s, context, p) == p.index + r.window >= context
Spoiled(r, asked, s, context, commit) == r.kind = "zkevm"
=============================================================================
