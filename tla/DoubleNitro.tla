---------------------------- MODULE DoubleNitro -----------------------------
(***************************************************************************)
(* A third chain behind a second: src/arbitrum/DoubleArbitrumRollup.ts and *)
(* contracts/arbitrum/DoubleArbitrumVerifier.sol, over the Nitro rollups   *)
(* of NitroNodes.tla.  The state s has the rollup of the second chain on   *)
(* the first, s.one, that of the third on the second, s.two, and for each  *)
(* node of the first the node of the second it was made with, as the       *)
(* request of the rollup reads it: the latest confirmed, or the latest     *)
(* created, which may be destroyed.                                        *)
(***************************************************************************)
EXTENDS AbstractRollup

Nitro == INSTANCE NitroNodes

Second(r) == [r EXCEPT !.minAge = r.minAge23]
NodeRead(r, two) ==
    IF r.minAge23 = 0 THEN two.confirmed
    ELSE IF Nitro!Exists(two, Len(two.nodes) - 1) THEN Len(two.nodes) - 1 ELSE NoIndex
Start(r) == [one |-> Nitro!Start(r), two |-> Nitro!Start(r), seen |-> <<0>>]
Moves(r, s) ==
    {[s EXCEPT !.one = one,
               !.seen = IF Len(one.nodes) = Len(@) THEN @
                        ELSE Append(@, NodeRead(r, s.two))] :
        one \in Nitro!Moves(r, s.one)}
    \cup {[s EXCEPT !.two = two] : two \in Nitro!Moves(Second(r), s.two)}
    \cup {[s EXCEPT !.one.now = @ + 1, !.two.now = @ + 1]}

(* DoubleArbitrumRollup: the commit of the first, and of what is read      *)
(* there; the second is asked of the present.                              *)
FetchLatestCommitIndex(r, view, s) == Nitro!FetchLatestCommitIndex(r, view.one, s.one)
FetchParentCommitIndex(r, s, commit) ==
    ParentIndex(commit, Nitro!FetchParentCommitIndex(r, s.one, commit))
FetchCommit(r, s, index) ==
    LET commit12 == CommitAt(index, Nitro!FetchCommit(r, s.one, index))
        node == s.seen[index + 1]
        commit23 == CommitAt(node, Nitro!FetchCommit(Second(r), s.two, node))
    IN IF commit12 = NoCommit \/ commit23 = NoCommit THEN NoCommit
       ELSE [index |-> index, prev |-> commit12.prev, node |-> node]
EncodeWitness(commit) == [index |-> commit.index, node |-> commit.node]

(* DoubleArbitrumVerifier *)
GetLatestContext(r, s) == Nitro!GetLatestContext(r, s.one)
GetStorageValues(r, s, context, p) ==
    LET one == Nitro!GetStorageValues(r, s.one, context, [index |-> p.index])
    IN IF one = "ok" /\ s.seen[p.index + 1] # p.node THEN "confirmData" ELSE one

(* For the properties. *)
Witnesses(r, s) == [index : 0..r.max, node : 0..r.max]
Usable(r, s) ==
    {n \in Nitro!Usable(r, s.one) :
        LET node == s.seen[n + 1]
        IN node > 0 /\ (r.minAge23 # 0 => Nitro!IsNodeUsable(s.two, node))}
Promised(r, asked, s, context, p) ==
    /\ Nitro!Promised(r, asked.one, s.one, context, [index |-> p.index])
    /\ p.node < Len(s.two.nodes)
    /\ r.minAge23 = 0 => Nitro!NodeAt(s.two, p.node).state = "confirmed"
Recent(r, asked, s, context, p) == Nitro!Recent(r, asked.one, s.one, context, p)
Spoiled(r, asked, s, context, commit) ==
    Nitro!Spoiled(r, asked.one, s.one, context, commit)
=============================================================================
