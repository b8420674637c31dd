----------------------------- MODULE OPOutputs ------------------------------
(***************************************************************************)
(* Rollups of the OP stack without fault proofs: src/op/OPRollup.ts and    *)
(* AbstractOPRollup.ts, contracts/op/OPOutputFinder.sol and OPVerifier.sol.*)
(* The state s of the first chain has the time and the outputs proposed to *)
(* the oracle; the output of index i is s.outputs[i + 1].  Its root is the *)
(* block it is about and whether the root is right.                        *)
(***************************************************************************)
EXTENDS AbstractRollup

(* The oracle: anybody the chain allows proposes, right or wrong, and what *)
(* is not final may be deleted with all that follows.                      *)
Start(r) == [now |-> r.finalization, outputs |-> << >>]

Root(block, right) == [block |-> block, right |-> right]

Final(r, s, i) == s.outputs[i].time + r.finalization <= s.now

Moves(r, s) ==
    {[s EXCEPT !.outputs = Append(@, [root |-> Root(Len(s.outputs) + 1, right),
                                      time |-> s.now])] :
        right \in IF Len(s.outputs) < r.max THEN BOOLEAN ELSE {}}
    \cup {[s EXCEPT !.outputs = SubSeq(@, 1, i - 1)] :
            i \in {i \in DOMAIN s.outputs : ~Final(r, s, i)}}

(* OPOutputFinder *)
NextOutputIndex(s) == Len(s.outputs)
OutputAt(s, index) == s.outputs[index + 1]

\* Mutant: an output as old as it must be is taken for too new.
FindOutputIndexLate(r, s) ==
    LET minAge == IF r.minAge = 0 THEN r.finalization ELSE r.minAge
        n == NextOutputIndex(s)
        bound[w \in (0..n) \X (0..n)] ==
            LET mid == (w[1] + w[2]) \div 2
            IN CASE w[1] >= w[2] -> w[1]
                 [] w[1] < w[2] /\ OutputAt(s, mid).time >= s.now - minAge ->
                        bound[<<w[1], mid>>]
                 [] OTHER -> bound[<<mid + 1, w[2]>>]
    IN IF minAge > s.now THEN NoIndex ELSE bound[<<0, n>>] - 1

FindOutputIndex(r, s) ==
    LET minAge == IF r.minAge = 0 THEN r.finalization ELSE r.minAge
        t == s.now - minAge
        n == NextOutputIndex(s)
        bound[w \in (0..n) \X (0..n)] ==
            LET mid == (w[1] + w[2]) \div 2
            IN CASE w[1] >= w[2] -> w[1]
                 [] w[1] < w[2] /\ OutputAt(s, mid).time > t -> bound[<<w[1], mid>>]
                 [] OTHER -> bound[<<mid + 1, w[2]>>]
    IN IF minAge > s.now THEN NoIndex ELSE bound[<<0, n>>] - 1

HasOutput(s, index) == index < NextOutputIndex(s)

(* OPRollup and AbstractOPRollup.createCommit(): the root is made from the *)
(* second chain and not from the oracle.                                   *)
Unfinalized(r) == r.minAge # 0
FetchLatestCommitIndex(r, s) == FindOutputIndex(r, s)
FetchCommit(r, s, index) ==
    IF HasOutput(s, index)
    THEN [index |-> index, output |-> OutputAt(s, index),
          root |-> Root(OutputAt(s, index).root.block, TRUE)]
    ELSE NoCommit
FetchParentCommitIndex(r, s, commit) == commit.index - 1
IsCommitStillValid(r, s, commit) ==
    HasOutput(s, commit.index)
        /\ OutputAt(s, commit.index).root = commit.output.root
EncodeWitness(commit) == [index |-> commit.index, root |-> commit.root]

(* OPVerifier *)
GetLatestContext(r, s) == FindOutputIndex(r, s)
GetStorageValues(r, s, context, p) ==
    IF ~HasOutput(s, p.index) THEN "OutputNotFound"
    ELSE LET output == OutputAt(s, p.index)
             window == IF p.index = context THEN "ok"
                       ELSE IF ~HasOutput(s, context) THEN "OutputNotFound"
                       ELSE CheckWindow(r, OutputAt(s, context).time,
                                        output.time)
         IN IF window # "ok" THEN window
            ELSE IF p.root # output.root THEN "invalid root" ELSE "ok"

(* For the properties.  Every witness a gateway may make up; the last      *)
(* output that is old enough; what an answer accepted in s, to a question  *)
(* asked in asked, must rest on; and what spoils an honest answer.         *)
Witnesses(r, s) ==
    [index : 0..r.max, root : {Root(b, right) : b \in 1..r.max, right \in BOOLEAN}]

Age(r) == IF Unfinalized(r) THEN r.minAge ELSE r.finalization
Usable(r, s) ==
    {i \in 0..Len(s.outputs) - 1 : OutputAt(s, i).time + Age(r) <= s.now}

Replaced(asked, s, index) ==
    ~HasOutput(s, index) \/ OutputAt(s, index) # OutputAt(asked, index)

Promised(r, asked, s, context, p) ==
    /\ HasOutput(s, p.index) /\ OutputAt(s, p.index).root = p.root
    /\ \/ p.index \in Usable(r, asked)
       \/ Unfinalized(r) /\ Replaced(asked, s, context)
Recent(r, asked, s, context, p) ==
    OutputAt(s, p.index).time + r.window >= OutputAt(s, context).time

Spoiled(r, asked, s, context, commit) ==
    \/ ~commit.output.root.right
    \/ ~IsCommitStillValid(r, s, commit)
    \/ Replaced(asked, s, context)
=============================================================================
