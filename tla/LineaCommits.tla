---------------------------- MODULE LineaCommits ----------------------------
(***************************************************************************)
(* Linea: src/linea/LineaRollup.ts and contracts/linea/LineaVerifier.sol.  *)
(* A commit is the last block of a finalization.  The state s has the      *)
(* finalizations, oldest first, and the last block of which Shomei, the    *)
(* prover of the second chain, has proofs.  The root of a block is named   *)
(* by its number.  Block 0 has a root that no finalization brought.        *)
(***************************************************************************)
EXTENDS AbstractRollup

Start(r) == [now |-> 0, finals |-> << >>, ready |-> 0]
CurrentL2BlockNumber(s) == IF s.finals = << >> THEN 0 ELSE s.finals[Len(s.finals)]
Moves(r, s) ==
    {[s EXCEPT !.finals = Append(@, n)] : n \in CurrentL2BlockNumber(s) + 1..r.max}
    \cup {[s EXCEPT !.ready = n] : n \in s.ready + 1..r.max}

StateRootHashes(s) == {0} \cup {s.finals[k] : k \in DOMAIN s.finals}
IndexBefore(s, k) == IF k = 1 THEN 0 ELSE s.finals[k - 1]

(* LineaRollup.  From r.firstCommitV3 on, the event of a commit has its    *)
(* first block; before, the root the commit starts from.                   *)
FetchCommit(r, s, index) ==
    LET k == CHOOSE k \in DOMAIN s.finals : s.finals[k] = index
        v3 == r.firstCommitV3 # 0 /\ index >= r.firstCommitV3
    IN IF index \notin {s.finals[i] : i \in DOMAIN s.finals} THEN NoCommit
       ELSE [index |-> index,
             startIndex |-> IF v3 THEN IndexBefore(s, k) + 1 ELSE 0,
             prevStateRoot |-> IndexBefore(s, k)]

FetchParentCommitIndex(r, s, commit) ==
    CASE commit.startIndex # 0 -> commit.startIndex - 1
      [] commit.startIndex = 0 /\ commit.prevStateRoot # 0 -> commit.prevStateRoot
      [] OTHER -> NoIndex

(* Back from the latest finalization to one that Shomei has. *)
FetchLatestCommitIndex(r, view, s) ==
    LET back[i \in {NoIndex} \cup 0..r.max] ==
          LET commit == FetchCommit(r, s, i)
          IN CASE commit = NoCommit -> NoIndex
               [] commit # NoCommit /\ i <= s.ready -> i
               [] OTHER -> back[ParentIndex(commit, FetchParentCommitIndex(r, s, commit))]
    IN back[CurrentL2BlockNumber(view)]

IsCommitStillValid(r, s, commit) == TRUE
EncodeWitness(commit) == [index |-> commit.index]

(* LineaVerifier *)
GetLatestContext(r, s) == CurrentL2BlockNumber(s)
GetStorageValues(r, s, context, p) ==
    LET window == CheckWindow(r, context, p.index)
    IN IF window = "ok" /\ p.index \notin StateRootHashes(s)
       THEN "not finalized" ELSE window

(* For the properties. *)
Witnesses(r, s) == [index : 0..r.max]
Usable(r, s) == {i \in StateRootHashes(s) \ {0} : i <= s.ready}
Promised(r, asked, s, context, p) == p.index \in StateRootHashes(asked)
Recent(r, asked, s, context, p) == p.index + r.window >= context
Spoiled(r, asked, s, context, commit) == FALSE
=============================================================================
