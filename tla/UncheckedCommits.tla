-------------------------- MODULE UncheckedCommits --------------------------
(***************************************************************************)
(* A rollup nothing is proved of: src/UncheckedRollup.ts and               *)
(* contracts/unchecked/UncheckedVerifier.sol.  The state s has the time on *)
(* the first chain and the times of the blocks of the second one; block n  *)
(* is s.times[n + 1].  A commit is a time.                                 *)
(***************************************************************************)
EXTENDS AbstractRollup

Start(r) == [now |-> 1, times |-> <<1>>]
Moves(r, s) ==
    IF Len(s.times) < r.max /\ s.times[Len(s.times)] < s.now
    THEN {[s EXCEPT !.times = Append(@, s.now)]} ELSE {}

BlockNumber(s) == Len(s.times) - 1
Time(s, n) == s.times[n + 1]

(* findVisibleBlock(): back from the last block in steps that double, then *)
(* a binary search between two blocks.  r.depth is the first step.         *)
FindVisibleBlock(r, s, t) ==
    LET last == BlockNumber(s)
        range[w \in (0..last) \X (1..2 * (r.depth + last))] ==
            LET i == IF w[1] > w[2] THEN w[1] - w[2] ELSE 0
            IN CASE t >= Time(s, i) -> <<i, w[1]>>
                 [] t < Time(s, i) /\ i = 0 -> << >>
                 [] OTHER -> range[<<i, 2 * w[2]>>]
        find[w \in {w \in (0..last) \X (0..last) : w[1] <= w[2]}] ==
            LET c == (w[1] + w[2]) \div 2
            IN CASE w[1] = w[2] -> w[2]
                 [] w[1] # w[2] /\ c = w[1] -> IF t > Time(s, c) THEN w[2] ELSE c
                 [] w[1] # w[2] /\ c # w[1] /\ t > Time(s, c) -> find[<<c, w[2]>>]
                 [] OTHER -> find[<<w[1], c>>]
        found == range[<<last, r.depth>>]
    IN IF t >= Time(s, last) THEN last
       ELSE IF found = << >> THEN NoIndex ELSE find[found]

FetchLatestCommitIndex(r, s) == Time(s, BlockNumber(s))
FetchParentCommitIndex(r, s, commit) ==
    IF commit.block = 0 THEN NoIndex ELSE Time(s, Align(commit.block - 1, r.step))
FetchCommit(r, s, index) ==
    LET n == FindVisibleBlock(r, s, index)
    IN IF n = NoIndex THEN NoCommit
       ELSE [index |-> index, block |-> n, t |-> Time(s, n)]
IsCommitStillValid(r, s, commit) == TRUE
EncodeWitness(commit) == [t |-> commit.t]

(* UncheckedVerifier *)
GetLatestContext(r, s) == s.now
GetStorageValues(r, s, context, p) == CheckWindow(r, context, p.t)

(* For the properties.  A time that no block has finds the block after it. *)
Witnesses(r, s) == [t : 0..s.now]
Usable(r, s) == {s.times[n] : n \in DOMAIN s.times}
Promised(r, asked, s, context, p) == p.t <= context
Recent(r, asked, s, context, p) == p.t + r.window >= context
Spoiled(r, asked, s, context, commit) == commit.t > commit.index
=============================================================================
