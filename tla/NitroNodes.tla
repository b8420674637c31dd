----------------------------- MODULE NitroNodes -----------------------------
(***************************************************************************)
(* Nitro rollups of Arbitrum: src/arbitrum/NitroRollup.ts and              *)
(* ArbitrumRollup.ts, contracts/arbitrum/NitroVerifierLib.sol and          *)
(* ArbitrumVerifier.sol.  The state s has the block number, the latest     *)
(* confirmed node and the nodes; node n is s.nodes[n + 1], node 0 the      *)
(* genesis.  Numbers are never used again, so a node's confirmData is its  *)
(* number.                                                                 *)
(***************************************************************************)
EXTENDS AbstractRollup

(* The rollup contract.  Nodes are resolved in order: the first pending    *)
(* one is confirmed when it follows the confirmed one, is old enough,      *)
(* staked and without staked rival, and destroyed when it cannot be.       *)
(* staked says that there are more stakers than zombies.                   *)
Start(r) ==
    [now |-> r.start, confirmed |-> 0,
     nodes |-> <<[prev |-> 0, made |-> 1, staked |-> FALSE,
                  state |-> "confirmed"]>>]

Nodes(s) == 0..Len(s.nodes) - 1
NodeAt(s, n) == s.nodes[n + 1]
Exists(s, n) == n \in Nodes(s) /\ NodeAt(s, n).state # "destroyed"
CreatedAtBlock(s, n) == IF Exists(s, n) THEN NodeAt(s, n).made ELSE 0
LatestNodeCreated(s, block) ==
    CHOOSE n \in Nodes(s) :
        /\ NodeAt(s, n).made <= block
        /\ \A m \in Nodes(s) : NodeAt(s, m).made <= block => m <= n

Resolved(r, s, n) ==
    LET node == NodeAt(s, n)
        rivals == {m \in Nodes(s) \ {n} : m > 0 /\ NodeAt(s, m).prev = node.prev
                        /\ NodeAt(s, m).state = "pending" /\ NodeAt(s, m).staked}
    IN CASE node.prev # s.confirmed \/ ~node.staked -> {"destroyed"}
         [] node.prev = s.confirmed /\ node.staked /\ rivals = {}
                /\ node.made + r.confirmation <= s.now -> {"confirmed"}
         [] OTHER -> {}

Moves(r, s) ==
    LET pending == {n \in Nodes(s) : NodeAt(s, n).state = "pending"}
        first == {n \in pending : \A m \in pending : n <= m}
    IN {[s EXCEPT !.nodes = Append(@, [prev |-> p, made |-> s.now,
                                       staked |-> TRUE, state |-> "pending"])] :
            p \in {p \in pending \cup {s.confirmed} : Len(s.nodes) < r.max}}
       \cup {[s EXCEPT !.nodes[n + 1].staked = FALSE] :
                n \in {n \in Nodes(s) : Exists(s, n)}}
       \cup UNION {{[s EXCEPT !.nodes[n + 1].state = state,
                              !.confirmed = IF state = "confirmed" THEN n ELSE @] :
                        state \in Resolved(r, s, n)} : n \in first}

(* NitroRollup *)
Unfinalized(r) == r.minAge # 0

EnsureUsableNode(s, index) ==
    LET down[n \in Nodes(s)] ==
          CASE n = 0 -> NoIndex
            [] n > 0 /\ Exists(s, n) /\ NodeAt(s, n).staked -> n
            [] OTHER -> down[n - 1]
    IN down[index]

FetchLatestCommitIndex(r, view, s) ==
    IF ~Unfinalized(r) THEN view.confirmed
    ELSE EnsureUsableNode(s, LatestNodeCreated(view, view.now - r.minAge))

FetchParentCommitIndex(r, s, commit) ==
    IF Unfinalized(r) THEN EnsureUsableNode(s, commit.index - 1)
    ELSE commit.prev

(* The genesis was never announced as a node. *)
FetchCommit(r, s, index) ==
    IF /\ Exists(s, index) /\ index # 0
       /\ IF Unfinalized(r) THEN NodeAt(s, index).staked
          ELSE NodeAt(s, index).state = "confirmed"
    THEN [index |-> index, prev |-> NodeAt(s, index).prev]
    ELSE NoCommit
IsCommitStillValid(r, s, commit) == TRUE
EncodeWitness(commit) == [index |-> commit.index]

(* NitroVerifierLib and ArbitrumVerifier *)
IsNodeUsable(s, n) == Exists(s, n) /\ NodeAt(s, n).staked

GetLatestContext(r, s) ==
    LET down[n \in Nodes(s)] ==
          IF CreatedAtBlock(s, n) <= s.now - r.minAge /\ IsNodeUsable(s, n) THEN n
          ELSE IF n = 0 THEN NoIndex ELSE down[n - 1]
    IN IF ~Unfinalized(r) THEN s.confirmed
       ELSE down[LatestNodeCreated(s, s.now)]

(* The nodes the walk along prevNum comes to, from the one of the context. *)
Chain(s, n) ==
    LET up[m \in Nodes(s)] ==
          IF m = 0 THEN {} ELSE {NodeAt(s, m).prev} \cup up[NodeAt(s, m).prev]
    IN up[n]

\* Mutant: a finalized answer need not be of the chain of the context.
AnyNode(r, s, context, p) ==
    LET window == CheckWindow(r, CreatedAtBlock(s, context), CreatedAtBlock(s, p.index))
    IN IF ~Exists(s, p.index) THEN "confirmData" ELSE window

GetStorageValues(r, s, context, p) ==
    CASE p.index # context /\ ~Unfinalized(r) /\ p.index \notin Chain(s, context) ->
            "not finalized"
      [] p.index # context /\ Unfinalized(r) /\ ~IsNodeUsable(s, p.index) ->
            "not usable"
      [] OTHER ->
            LET window == CheckWindow(r, CreatedAtBlock(s, context),
                                      CreatedAtBlock(s, p.index))
            IN IF window = "ok" /\ ~Exists(s, p.index) THEN "confirmData"
               ELSE window

(* For the properties. *)
Witnesses(r, s) == [index : 0..r.max]

Usable(r, s) ==
    IF Unfinalized(r)
    THEN {n \in Nodes(s) : n > 0 /\ IsNodeUsable(s, n)
                             /\ NodeAt(s, n).made + r.minAge <= s.now}
    ELSE {n \in Nodes(s) \ {0} : NodeAt(s, n).state = "confirmed"}

(* Finalized: a confirmed node.  Not finalized: a node somebody had a stake*)
(* on, and that is old enough.                                             *)
Promised(r, asked, s, context, p) ==
    /\ Exists(s, p.index)
    /\ IF Unfinalized(r)
       THEN /\ IsNodeUsable(s, p.index) \/ p.index = context
            /\ NodeAt(s, p.index).made + r.minAge <= asked.now
       ELSE NodeAt(s, p.index).state = "confirmed"
Recent(r, asked, s, context, p) ==
    CreatedAtBlock(s, p.index) + r.window >= CreatedAtBlock(s, context)

Spoiled(r, asked, s, context, commit) ==
    Unfinalized(r) /\ (~IsNodeUsable(s, commit.index) \/ ~Exists(s, context))
=============================================================================
