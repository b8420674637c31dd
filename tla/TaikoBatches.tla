---------------------------- MODULE TaikoBatches ----------------------------
(***************************************************************************)
(* Taiko: src/taiko/TaikoRollup.ts and contracts/taiko/TaikoVerifier.sol.  *)
(* The state s has the time, the transition proved for each batch (0 for   *)
(* none, otherwise the time), the last verified and the last synced batch, *)
(* and the batches that have a verified transition written to them.        *)
(***************************************************************************)
EXTENDS AbstractRollup

(* The contract: batches are proved in any order and verified in order,    *)
(* some at a time.  The root of a transition is stored every r.sync        *)
(* batches; verifying writes the transition of the last batch, and of the  *)
(* last one with a root.                                                   *)
Start(r) ==
    [now |-> 1, proved |-> [b \in 1..r.max |-> 0], verified |-> 0, synced |-> 0,
     written |-> {}]
Verified(r, s, to) ==
    LET roots == {b \in s.verified + 1..to : b % r.sync = 0}
        last == IF roots = {} THEN {} ELSE {CHOOSE b \in roots : \A c \in roots : c <= b}
    IN [s EXCEPT !.verified = to,
                 !.synced = IF last = {} THEN @ ELSE CHOOSE b \in last : TRUE,
                 !.written = @ \cup {to} \cup last]
Moves(r, s) ==
    {[s EXCEPT !.proved[b] = s.now] : b \in {b \in 1..r.max : s.proved[b] = 0}}
    \cup {Verified(r, s, to) :
            to \in {to \in s.verified + 1..r.max :
                        \A b \in s.verified + 1..to : s.proved[b] # 0}}

(* TaikoRollup: commitStep is the distance of the stored roots times       *)
(* r.span.                                                                 *)
FetchLatestCommitIndex(r, view) == view.synced
FetchParentCommitIndex(r, s, commit) == commit.index - r.sync * r.span
FetchCommit(r, s, index) ==
    IF index \in s.written THEN [index |-> index] ELSE NoCommit
IsCommitStillValid(r, s, commit) == TRUE
EncodeWitness(commit) == [index |-> commit.index]

(* TaikoVerifier.  The context is the last synced batch and the time of its*)
(* transition; nothing can be proved of a root that is not stored.         *)
CreatedAt(s, batch) == IF batch = 0 THEN 0 ELSE s.proved[batch]
GetLatestContext(r, s) == s.synced
GetStorageValues(r, s, context, p) ==
    LET window == CheckWindow(r, CreatedAt(s, context), CreatedAt(s, p.index))
    IN CASE p.index # 0 /\ CreatedAt(s, p.index) = 0 -> "no transition"
         [] p.index % r.sync # 0 -> "proof"
         [] OTHER -> window

(* For the properties.  The contract does not ask that the transition was  *)
(* verified, only that it is not newer than the last synced one; as batches*)
(* are proved in any order, the transition of an earlier batch may be.     *)
Witnesses(r, s) == [index : 0..r.max]
Usable(r, s) == {b \in 1..s.synced : b % r.sync = 0 /\ b \in s.written}
Promised(r, asked, s, context, p) ==
    p.index % r.sync = 0
        /\ (p.index = 0 \/ s.proved[p.index] \in 1..CreatedAt(asked, context))
Recent(r, asked, s, context, p) ==
    CreatedAt(s, p.index) + r.window >= CreatedAt(asked, context)
Spoiled(r, asked, s, context, commit) ==
    CreatedAt(s, commit.index) > CreatedAt(asked, context)
=============================================================================
