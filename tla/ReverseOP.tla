------------------------------ MODULE ReverseOP -----------------------------
(***************************************************************************)
(* Reading the first chain from a rollup of the OP stack:                  *)
(* src/op/ReverseOPRollup.ts and contracts/op/ReverseOPVerifier.sol.  The  *)
(* chain of the verifier is the second one: s.l2[n + 1] is the number of   *)
(* the block of the first chain that its contract L1Block has at block n.  *)
(* A block of the first chain is named by its number.                      *)
(***************************************************************************)
EXTENDS AbstractRollup

Start(r) == [l2 |-> <<1>>]
BlockNumber(s) == Len(s.l2) - 1
L1Number(s, n) == s.l2[n + 1]

Moves(r, s) ==
    {[s EXCEPT !.l2 = Append(@, number)] :
        number \in IF Len(s.l2) < r.max
                   THEN {L1Number(s, BlockNumber(s)),
                         L1Number(s, BlockNumber(s)) + 1}
                   ELSE {}}

(* ReverseOPRollup: r.depth is EVM_BLOCKHASH_DEPTH. *)
FindL2Block(r, s, number) ==
    LET b0 == BlockNumber(s) + 1
        a0 == IF b0 < r.depth THEN 0 ELSE b0 - r.depth
        find[w \in (0..b0) \X (0..b0)] ==
            LET middle == (w[1] + w[2]) \div 2
            IN CASE w[1] >= w[2] -> NoIndex
                 [] w[1] < w[2] /\ L1Number(s, middle) = number -> middle
                 [] w[1] < w[2] /\ L1Number(s, middle) > number ->
                        find[<<w[1], middle>>]
                 [] OTHER -> find[<<middle + 1, w[2]>>]
    IN find[<<a0, b0>>]

FetchLatestCommitIndex(r, s) == Align(L1Number(s, BlockNumber(s)), r.step)
FetchParentCommitIndex(r, s, commit) == Align(commit.index - 1, r.step)
FetchCommit(r, s, index) ==
    LET n == FindL2Block(r, s, index)
    IN IF n = NoIndex THEN NoCommit ELSE [index |-> index, l2Block |-> n]
IsCommitStillValid(r, s, commit) == TRUE
EncodeWitness(commit) == [l2Block |-> commit.l2Block, l1Block |-> commit.index]

(* ReverseOPVerifier.  A block hash is known for the blocks before this    *)
(* one, r.depth of them.                                                   *)
HasBlockHash(r, s, n) == n < BlockNumber(s) /\ n + r.depth >= BlockNumber(s)

GetLatestContext(r, s) == L1Number(s, BlockNumber(s))
GetStorageValues(r, s, context, p) ==
    CASE ~HasBlockHash(r, s, p.l2Block) -> "hash2"
      [] HasBlockHash(r, s, p.l2Block) /\ L1Number(s, p.l2Block) # p.l1Block ->
            "hash1"
      [] OTHER -> CheckWindow(r, context, p.l1Block)

(* For the properties. *)
Witnesses(r, s) == [l2Block : 0..r.max, l1Block : 0..r.max]

Usable(r, s) ==
    {k \in 1..r.max : k % r.step = 0
        /\ \E n \in 0..BlockNumber(s) :
              n + r.depth > BlockNumber(s) /\ L1Number(s, n) = k}

Promised(r, asked, s, context, p) ==
    \E n \in 0..BlockNumber(s) : L1Number(s, n) = p.l1Block
Recent(r, asked, s, context, p) ==
    p.l1Block <= context /\ p.l1Block + r.window >= context

Spoiled(r, asked, s, context, commit) == ~HasBlockHash(r, s, commit.l2Block)
=============================================================================
