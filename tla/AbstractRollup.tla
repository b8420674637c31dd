--------------------------- MODULE AbstractRollup ---------------------------
(***************************************************************************)
(* What all rollups and all verifiers share (src/rollup.ts and             *)
(* contracts/AbstractVerifier.sol).  An index is a natural number; what    *)
(* throws returns NoIndex or NoCommit.  The modules of the rollups are     *)
(* operators on s, a state of the chain the rollup reads its commits from, *)
(* and r, a record with the settings of the rollup and of its verifier.    *)
(***************************************************************************)
EXTENDS Integers, Sequences

NoIndex == -1
NoCommit == [index |-> NoIndex]

(* fetchParentCommitIndex(): what _fetchParentCommitIndex() found. *)
ParentIndex(commit, index) ==
    IF commit.index = 0 \/ index >= commit.index \/ index < 0
    THEN NoIndex ELSE index

(* fetchCommit(): what _fetchCommit() made. *)
CommitAt(index, commit) ==
    IF commit.index = index THEN commit ELSE NoCommit

Align(index, step) == IF step = 1 THEN index ELSE index - (index % step)

\* Mutant: the window is added to the wrong side.
CheckWindowSwapped(r, latest, got) ==
    CASE got < latest - 2 * r.window -> "CommitTooOld"
      [] got > latest -> "CommitTooNew"
      [] OTHER -> "ok"

(* _checkWindow() *)
CheckWindow(r, latest, got) ==
    CASE got + r.window < latest -> "CommitTooOld"
      [] got > latest -> "CommitTooNew"
      [] OTHER -> "ok"
=============================================================================
