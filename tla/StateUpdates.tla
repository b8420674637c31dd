---------------------------- MODULE StateUpdates ----------------------------
(***************************************************************************)
(* Starknet: src/starknet/StarknetRollup.ts and                            *)
(* contracts/starknet/StarknetVerifier.sol.  The state s has the block of  *)
(* the first chain and the updates of the state, oldest first, each with   *)
(* the block of the second chain it goes to, which names its root, and the *)
(* block of the first chain it came in.                                    *)
(***************************************************************************)
EXTENDS AbstractRollup

Start(r) == [now |-> 1, updates |-> << >>]
RootAt(s, block) ==
    LET at == {k \in DOMAIN s.updates : s.updates[k].block <= block}
    IN IF at = {} THEN 0
       ELSE s.updates[CHOOSE k \in at : \A m \in at : m <= k].index
StateBlockNumber(s) == RootAt(s, s.now)
Moves(r, s) ==
    {[s EXCEPT !.updates = Append(@, [index |-> n, block |-> s.now])] :
        n \in StateBlockNumber(s) + 1..r.max}

(* StarknetRollup: the log is read backwards, r.step blocks at a time,     *)
(* until there is the update or an older one.                              *)
\* Mutant: an older update ends the search before the newer ones are looked at.
FindStateUpdateFirst(r, s, number) ==
    LET logs == {k \in DOMAIN s.updates : s.updates[k].block >= s.now - r.step}
    IN IF \E k \in logs : s.updates[k].index < number THEN 0
       ELSE IF \E k \in logs : s.updates[k].index = number
            THEN CHOOSE k \in logs : s.updates[k].index = number ELSE 0

FindStateUpdate(r, s, number) ==
    LET In(block) == {k \in DOMAIN s.updates : s.updates[k].block <= block
                                                /\ s.updates[k].block >= block - r.step}
        scan[block \in -r.step..s.now] ==
          LET at == {k \in In(block) : s.updates[k].index = number}
          IN IF block < 0 THEN 0
             ELSE IF at # {} THEN CHOOSE k \in at : TRUE
             ELSE IF \E k \in In(block) : s.updates[k].index < number THEN 0
             ELSE scan[block - r.step]
    IN scan[s.now]

FetchLatestCommitIndex(r, view) == StateBlockNumber(view)
FetchParentCommitIndex(r, s, commit) ==
    IF commit.update = 1 THEN 0 ELSE s.updates[commit.update - 1].index
FetchCommit(r, s, index) ==
    LET k == FindStateUpdate(r, s, index)
    IN IF k = 0 THEN NoCommit
       ELSE [index |-> index, update |-> k, l1Block |-> s.updates[k].block]
IsCommitStillValid(r, s, commit) == TRUE
EncodeWitness(commit) ==
    [index |-> commit.index, l1Block |-> commit.l1Block, root |-> commit.index]

(* StarknetVerifier: the root of the context is the current one, any other *)
(* is proved in a block of the first chain whose hash is known.            *)
HasBlockHash(r, s, n) == n < s.now /\ n + r.depth >= s.now
GetLatestContext(r, s) == StateBlockNumber(s)
GetStorageValues(r, s, context, p) ==
    CASE p.index = context ->
            IF p.root = StateBlockNumber(s) THEN "ok" ELSE "proof"
      [] p.index # context /\ ~HasBlockHash(r, s, p.l1Block) -> "blockhash"
      [] OTHER -> IF p.root = RootAt(s, p.l1Block) THEN "ok" ELSE "proof"

(* For the properties.  The root of a block that ends with another update  *)
(* cannot be proved, and that of the context only as long as it is current.*)
Witnesses(r, s) == [index : 0..r.max, l1Block : 0..s.now, root : 0..r.max]
Usable(r, s) == {s.updates[k].index : k \in DOMAIN s.updates}
Promised(r, asked, s, context, p) == p.root \in {0} \cup Usable(r, s)
Recent(r, asked, s, context, p) ==
    \E block \in 0..s.now : block + r.depth >= s.now /\ RootAt(s, block) = p.root
Spoiled(r, asked, s, context, commit) ==
    IF commit.index = context THEN commit.index # StateBlockNumber(s)
    ELSE ~HasBlockHash(r, s, commit.l1Block)
            \/ RootAt(s, commit.l1Block) # commit.index
=============================================================================
