------------------------------ MODULE EthSelf -------------------------------
(***************************************************************************)
(* Reading the chain of the verifier itself: src/eth/EthSelfRollup.ts and  *)
(* contracts/SelfVerifier.sol.  The state s has the block the verifier     *)
(* would run in; its hash is not known, those of r.depth before it are.    *)
(***************************************************************************)
EXTENDS AbstractRollup

Start(r) == [now |-> 1]
Moves(r, s) == {}

FetchLatestCommitIndex(r, view) == Align(view.now - 1, r.step)
FetchParentCommitIndex(r, s, commit) == Align(commit.index - 1, r.step)
FetchCommit(r, s, index) ==
    IF index < s.now THEN [index |-> index] ELSE NoCommit
IsCommitStillValid(r, s, commit) == TRUE
EncodeWitness(commit) == [block |-> commit.index]

(* SelfVerifier *)
HasBlockHash(r, s, n) == n < s.now /\ n + r.depth >= s.now
GetLatestContext(r, s) == s.now - 1
GetStorageValues(r, s, context, p) ==
    LET window == CheckWindow(r, context, p.block)
    IN IF window = "ok" /\ ~HasBlockHash(r, s, p.block) THEN "blockhash" ELSE window

(* For the properties. *)
Witnesses(r, s) == [block : 0..r.max]
Usable(r, s) == {n \in 0..s.now - 1 : n % r.step = 0}
Promised(r, asked, s, context, p) == p.block < asked.now
Recent(r, asked, s, context, p) == p.block + r.window >= context
Spoiled(r, asked, s, context, commit) == ~HasBlockHash(r, s, commit.index)
=============================================================================
