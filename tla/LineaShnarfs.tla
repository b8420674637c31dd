---------------------------- MODULE LineaShnarfs ----------------------------
(***************************************************************************)
(* Linea before it is final: src/linea/UnfinalizedLineaRollup.ts and       *)
(* contracts/linea/UnfinalizedLineaVerifier.sol.  The state s has the      *)
(* block of the first chain, the submissions of data, oldest first, each   *)
(* with the block it was made in, the last block of the second chain it    *)
(* has and if its root is right, and the finalized blocks of the second    *)
(* chain; a root is a block, and if it is right.  The rollup makes no      *)
(* commit: the code that would find the block of a submission is not there.*)
(***************************************************************************)
EXTENDS AbstractRollup

Root(l2, right) == [l2 |-> l2, right |-> right]
(* The first block is final: a verifier is made for a chain that runs.     *)
Start(r) == [now |-> r.minAge, submitted |-> << >>, finals |-> {0, 1}]
CurrentL2BlockNumber(s) == CHOOSE n \in s.finals : \A m \in s.finals : m <= n
Moves(r, s) ==
    {[s EXCEPT !.submitted = Append(@, [at |-> s.now, root |-> Root(l2, right)])] :
        l2 \in {n \in CurrentL2BlockNumber(s) + 1..3 : Len(s.submitted) < r.max},
        right \in BOOLEAN}
    \cup {[s EXCEPT !.finals = @ \cup {s.submitted[k].root.l2}] :
            k \in {k \in DOMAIN s.submitted :
                    s.submitted[k].root.right
                        /\ s.submitted[k].root.l2 > CurrentL2BlockNumber(s)}}

(* UnfinalizedLineaRollup: the log is read backwards, r.step blocks at a   *)
(* time.                                                                   *)
FetchLatestCommitIndex(r, view, s) ==
    LET In(from, to) == {b \in {s.submitted[k].at : k \in DOMAIN s.submitted} :
                            from <= b /\ b <= to}
        scan[i \in -r.step..view.now] ==
          LET logs == In(IF i < r.step THEN 0 ELSE i + 1 - r.step, i)
          IN CASE i < 0 -> NoIndex
               [] i >= 0 /\ logs # {} ->
                    CHOOSE b \in logs : \A c \in logs : c <= b
               [] OTHER -> scan[i - r.step]
    IN scan[view.now - r.minAge]

FetchCommit(r, s, index) == NoCommit

(* UnfinalizedLineaVerifier.  A witness names a submission by its place,   *)
(* and has its root, or is of none, 0, with any root.                      *)
GetLatestContext(r, s) == s.now - 1
ShnarfFinalBlockNumber(s, k) == IF k = 0 THEN 0 ELSE s.submitted[k].root.l2
GetStorageValues(r, s, context, p) ==
    LET l2BlockNumber == ShnarfFinalBlockNumber(s, p.shnarf)
    IN IF /\ l2BlockNumber < CurrentL2BlockNumber(s)
          /\ ~(l2BlockNumber \in s.finals /\ p.root = Root(l2BlockNumber, TRUE))
       THEN "not finalized" ELSE "ok"

(* For the properties.  Nothing is asked of the time of a submission.      *)
Witnesses(r, s) ==
    {[shnarf |-> k, root |-> s.submitted[k].root] : k \in DOMAIN s.submitted}
    \cup [shnarf : {0}, root : {Root(l2, right) : l2 \in 0..3, right \in BOOLEAN}]
Usable(r, s) ==
    {s.submitted[k].at : k \in {k \in DOMAIN s.submitted :
                                  s.submitted[k].at + r.minAge <= s.now}}
Promised(r, asked, s, context, p) ==
    \/ p.root \in {Root(l2, TRUE) : l2 \in s.finals}
    \/ \E k \in DOMAIN s.submitted :
          s.submitted[k].root = p.root /\ p.root.l2 >= CurrentL2BlockNumber(s)
Recent(r, asked, s, context, p) == TRUE
=============================================================================
