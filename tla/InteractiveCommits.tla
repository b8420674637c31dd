------------------------- MODULE InteractiveCommits -------------------------
(***************************************************************************)
(* A rollup whose roots the owner of the verifier sets:                    *)
(* src/InteractiveRollup.ts and contracts/InteractiveVerifier.sol.  An     *)
(* index is a block of the second chain; the state s has the latest index  *)
(* and what is at the indices set so far, by index: the index before it    *)
(* and whether the root is the one of that block.                          *)
(***************************************************************************)
EXTENDS AbstractRollup

Start(r) == [latest |-> 0, commits |-> << >>]
Unset == [prev |-> 0, right |-> FALSE, set |-> FALSE]
CommitOf(s, index) ==
    IF index \in DOMAIN s.commits THEN s.commits[index] ELSE Unset

(* setStateRoot() *)
SetStateRoot(s, index, right) ==
    [latest |-> index,
     commits |-> [i \in 1..index |->
        IF i = index THEN [prev |-> s.latest, right |-> right, set |-> TRUE]
        ELSE CommitOf(s, i)]]
Moves(r, s) ==
    {SetStateRoot(s, index, right) :
        index \in s.latest + 1..r.max, right \in BOOLEAN}

FetchLatestCommitIndex(r, view) == view.latest
FetchParentCommitIndex(r, s, commit) == CommitOf(s, commit.index).prev
FetchCommit(r, s, index) == [index |-> index, right |-> TRUE]
IsCommitStillValid(r, s, commit) == TRUE
EncodeWitness(commit) == [index |-> commit.index, right |-> commit.right]

(* InteractiveVerifier: nothing is proved of a root that is zero. *)
GetLatestContext(r, s) == s.latest
GetStorageValues(r, s, context, p) ==
    LET window == CheckWindow(r, context, p.index)
    IN IF window = "ok"
          /\ ~(CommitOf(s, p.index).set /\ CommitOf(s, p.index).right = p.right)
       THEN "proof" ELSE window

(* For the properties. *)
Witnesses(r, s) == [index : 0..r.max, right : BOOLEAN]
Usable(r, s) == {i \in 1..s.latest : CommitOf(s, i).set}
Promised(r, asked, s, context, p) ==
    CommitOf(asked, p.index) = CommitOf(s, p.index) /\ CommitOf(s, p.index).set
        /\ CommitOf(s, p.index).right = p.right
Recent(r, asked, s, context, p) == p.index + r.window >= context
Spoiled(r, asked, s, context, commit) ==
    commit.index = 0 \/ ~CommitOf(s, commit.index).right
=============================================================================
