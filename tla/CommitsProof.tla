---------------------------- MODULE CommitsProof ----------------------------
(***************************************************************************)
(* What the verifiers accept, for all rollups and all settings.  The chain *)
(* of a question goes on while the answer is on its way; what RollupsProof *)
(* says of two states of a chain, one of which came of the other, holds of *)
(* the chain the context was made of and of the one that gets the answer.  *)
(*                                                                         *)
(* Then what the gateway serves, rollup by rollup: what more holds of the  *)
(* chain (...Linked), what a commit rests on (...Rests, ...Fetched), that  *)
(* this stays as the chain goes on (...Stays, ...Rested), and that the     *)
(* verifier accepts it (...Served); a part of its own puts these together. *)
(*                                                                         *)
(* Last, that a BoLD gateway misses nothing of the log it goes by.         *)
(***************************************************************************)
EXTENDS Commits, RollupsProof, FiniteSetTheorems

CallOK(c) ==
    c = [stage |-> c.stage, asks |-> c.asks, context |-> c.context, asked |-> c.asked,
         latest |-> c.latest, index |-> c.index, depth |-> c.depth, commit |-> c.commit]

\* The context of an open question is of the chain it was asked of, and the
\* chain came of that one.
AskedBefore(x, c, s) ==
    /\ ChainOK(x, c.asked) /\ ChainKept(x, c.asked, s)
    /\ c.context = GetLatestContext(x, c.asked) /\ c.context # NoIndex

Inv ==
    /\ r \in Settings /\ ChainOK(r, chain) /\ MemoryOK(r, memory)
    /\ CallOK(call)
    /\ call.stage # "idle" => AskedBefore(r, call, chain)

\* The gateway changes nothing of the question but where it is with it.
SameQuestion(c, d) == CallOK(d) /\ (d.stage # "idle" => d.asked = c.asked /\ d.context = c.context)
With(c, stage, latest, index, depth, commit) ==
    [stage |-> stage, asks |-> c.asks, context |-> c.context, asked |-> c.asked,
     latest |-> latest, index |-> index, depth |-> depth, commit |-> commit]

LEMMA GatewaySteps ==
    ASSUME NEW c, CallOK(c), NEW x, NEW stage, NEW d,
           \/ d = [c EXCEPT !.stage = "found", !.latest = x, !.index = x]
           \/ d = [c EXCEPT !.commit = x, !.stage = stage]
           \/ d = [c EXCEPT !.stage = "found", !.index = x, !.depth = @ + 1]
           \/ d = [c EXCEPT !.stage = "found", !.index = x]
           \/ d = Idle(x)
    PROVE  SameQuestion(c, d)
<1>1. ASSUME NEW st, NEW latest, NEW index, NEW depth, NEW commit, d = With(c, st, latest, index, depth, commit)
      PROVE  SameQuestion(c, d)
  BY <1>1 DEF SameQuestion, CallOK, With
<1>2. CASE d = [c EXCEPT !.stage = "found", !.latest = x, !.index = x]
  <2>1. d = With(c, "found", x, x, c.depth, c.commit)
    BY <1>2 DEF CallOK, With
  <2>2. QED
    BY <1>1, <2>1
<1>3. CASE d = [c EXCEPT !.commit = x, !.stage = stage]
  <2>1. d = With(c, stage, c.latest, c.index, c.depth, x)
    BY <1>3 DEF CallOK, With
  <2>2. QED
    BY <1>1, <2>1
<1>4. CASE d = [c EXCEPT !.stage = "found", !.index = x, !.depth = @ + 1]
  <2>1. d = With(c, "found", c.latest, x, c.depth + 1, c.commit)
    BY <1>4 DEF CallOK, With
  <2>2. QED
    BY <1>1, <2>1
<1>5. CASE d = [c EXCEPT !.stage = "found", !.index = x]
  <2>1. d = With(c, "found", c.latest, x, c.depth, c.commit)
    BY <1>5 DEF CallOK, With
  <2>2. QED
    BY <1>1, <2>1
<1>6. CASE d = Idle(x)
  BY <1>6 DEF SameQuestion, CallOK, Idle
<1>7. QED
  BY <1>2, <1>3, <1>4, <1>5, <1>6

LEMMA InvInit == Init => Inv
<1> SUFFICES ASSUME Init PROVE Inv
  OBVIOUS
<1>1. r \in Settings /\ chain = Start(r) /\ memory = NoMemory(r) /\ call = Idle(r.asks)
  BY DEF Init
<1>2. IsSetting(r)
  BY <1>1, SettingsAssumption
<1>3. ChainOK(r, chain) /\ MemoryOK(r, memory)
  BY <1>1, <1>2, ChainStart
<1>4. CallOK(call) /\ call.stage = "idle"
  BY <1>1 DEF CallOK, Idle
<1>5. QED
  BY <1>1, <1>3, <1>4 DEF Inv

LEMMA GatewayKeepsInv ==
    ASSUME Inv, UNCHANGED <<r, chain>>, MemoryOK(r, memory'), call.stage # "idle", SameQuestion(call, call')
    PROVE  Inv'
<1>1. AskedBefore(r, call, chain)
  BY DEF Inv
<1>2. call'.stage # "idle" => AskedBefore(r, call', chain)
  BY <1>1 DEF AskedBefore, SameQuestion
<1>3. QED
  BY <1>2 DEF Inv, SameQuestion

LEMMA InvNext == Inv /\ [Next]_vars => Inv'
<1> SUFFICES ASSUME Inv, [Next]_vars PROVE Inv'
  OBVIOUS
<1>0. /\ r \in Settings /\ IsSetting(r) /\ ChainOK(r, chain) /\ MemoryOK(r, memory) /\ CallOK(call)
      /\ call.stage # "idle" => AskedBefore(r, call, chain)
  BY SettingsAssumption DEF Inv
<1>1. CASE Advance
  <2>1. chain' \in Moves(r, chain) \cup Ticks(chain) /\ UNCHANGED <<r, memory, call>>
    BY <1>1 DEF Advance
  <2>2. ChainOK(r, chain') /\ ChainKept(r, chain, chain')
    <3>1. CASE chain' \in Moves(r, chain)
      BY <1>0, <3>1, ChainMoves
    <3>2. CASE chain' \in Ticks(chain)
      <4>1. "now" \in DOMAIN chain /\ chain' = [chain EXCEPT !.now = @ + 1]
        BY <3>2 DEF Ticks
      <4>2. QED
        BY <1>0, <4>1, ChainTicks
    <3>3. QED
      BY <2>1, <3>1, <3>2
  <2>3. call.stage # "idle" => AskedBefore(r, call, chain')
    <3> HAVE call.stage # "idle"
    <3>1. /\ ChainOK(r, call.asked) /\ ChainKept(r, call.asked, chain)
          /\ call.context = GetLatestContext(r, call.asked) /\ call.context # NoIndex
      BY <1>0 DEF AskedBefore
    <3>2. ChainKept(r, call.asked, chain')
      BY <1>0, <2>2, <3>1, ChainOn
    <3>3. QED
      BY <3>1, <3>2 DEF AskedBefore
  <2>4. QED
    BY <1>0, <2>1, <2>2, <2>3 DEF Inv
<1>2. CASE Finalize
  BY <1>0, <1>2 DEF Finalize, Inv
<1>3. CASE Forget
  <2>1. memory' = Forgotten(r, memory) /\ UNCHANGED <<r, chain, call>>
    BY <1>3 DEF Forget
  <2>2. MemoryOK(r, memory')
    BY <1>0, <2>1, MemoryKept
  <2>3. QED
    BY <1>0, <2>1, <2>2 DEF Inv
<1>4. CASE Ask
  <2>1. /\ GetLatestContext(r, chain) # NoIndex /\ UNCHANGED <<r, chain, memory>>
        /\ call' = [call EXCEPT !.stage = "asked", !.asks = @ - 1, !.asked = chain,
                                !.context = GetLatestContext(r, chain)]
    BY <1>4 DEF Ask
  <2>2. call' = [stage |-> "asked", asks |-> call.asks - 1, context |-> GetLatestContext(r, chain),
                 asked |-> chain, latest |-> call.latest, index |-> call.index,
                 depth |-> call.depth, commit |-> call.commit]
    BY <1>0, <2>1 DEF CallOK
  <2>3. /\ CallOK(call') /\ call'.asked = chain
        /\ call'.context = GetLatestContext(r, chain)
    BY <2>2 DEF CallOK
  <2>4. ChainKept(r, chain, chain)
    BY <1>0, ChainStays
  <2>5. AskedBefore(r, call', chain)
    BY <1>0, <2>1, <2>3, <2>4 DEF AskedBefore
  <2>6. QED
    BY <1>0, <2>1, <2>3, <2>5 DEF Inv
<1>5. \A n \in Remembered(r, final, chain, memory) : MemoryOK(r, n)
  BY <1>0, MemoryKept
<1>7. CASE FindLatest
  <2>1. /\ call.stage = "asked" /\ memory' \in Remembered(r, final, chain, memory) /\ UNCHANGED <<r, chain>>
        /\ \E index : call' = IF index = NoIndex THEN Idle(call.asks)
                              ELSE [call EXCEPT !.stage = "found", !.latest = index, !.index = index]
    BY <1>7, Zenon DEF FindLatest
  <2>3. SameQuestion(call, call')
    BY <1>0, <2>1, GatewaySteps, Zenon
  <2>4. QED
    BY <1>5, <2>1, <2>3, GatewayKeepsInv
<1>8. CASE Fetch
  <2>1. /\ call.stage = "found" /\ memory' \in Remembered(r, final, chain, memory) /\ UNCHANGED <<r, chain>>
        /\ \E commit, stage : call' = IF commit = NoCommit THEN Idle(call.asks)
                                      ELSE [call EXCEPT !.commit = commit, !.stage = stage]
    BY <1>8, Zenon DEF Fetch
  <2>3. SameQuestion(call, call')
    BY <1>0, <2>1, GatewaySteps, Zenon
  <2>4. QED
    BY <1>5, <2>1, <2>3, GatewayKeepsInv
<1>9. CASE FindParent
  <2>1. /\ call.stage = "walking" /\ UNCHANGED <<r, chain, memory>>
        /\ \E index : call' = IF index = NoIndex THEN Idle(call.asks)
                              ELSE [call EXCEPT !.stage = "found", !.index = index, !.depth = @ + 1]
    BY <1>9, Zenon DEF FindParent
  <2>3. SameQuestion(call, call')
    BY <1>0, <2>1, GatewaySteps, Zenon
  <2>4. QED
    BY <1>0, <2>1, <2>3, GatewayKeepsInv
<1>10. CASE TooDeep
  <2>1. /\ call.stage = "walking" /\ UNCHANGED <<r, chain, memory>>
        /\ call' = IF r.allowHistorical THEN [call EXCEPT !.stage = "found", !.index = call.context]
                   ELSE Idle(call.asks)
    BY <1>10, Zenon DEF TooDeep
  <2>3. SameQuestion(call, call')
    BY <1>0, <2>1, GatewaySteps, Zenon
  <2>4. QED
    BY <1>0, <2>1, <2>3, GatewayKeepsInv
<1>11. CASE Verify
  <2>1. call.stage = "served" /\ UNCHANGED <<r, chain, memory>> /\ SameQuestion(call, call')
    BY <1>0, <1>11, GatewaySteps, Zenon DEF Verify
  <2>2. QED
    BY <1>0, <2>1, GatewayKeepsInv, Zenon
<1>12. CASE UNCHANGED vars
  BY <1>0, <1>12 DEF vars, Inv
<1>13. QED
  BY <1>1, <1>2, <1>3, <1>4, <1>7, <1>8, <1>9, <1>10, <1>11, <1>12 DEF Next

\* An open question is about a chain this one came of.
THEOREM InvHolds == Spec => []Inv
<1>1. QED
  BY InvInit, InvNext, PTL DEF Spec

LEMMA InvAccepts == Inv => AcceptedAsPromised /\ AcceptedIsRecent
<1> SUFFICES ASSUME Inv, call.stage = "asked", NEW p \in Witnesses(r, chain), Verdict(p) = "ok"
             PROVE  /\ Promised(r, memory, call.asked, chain, call.context, p)
                    /\ Recent(r, call.asked, chain, call.context, p)
  BY DEF AcceptedAsPromised, AcceptedIsRecent
<1>1. /\ IsSetting(r) /\ ChainOK(r, chain) /\ MemoryOK(r, memory)
      /\ ChainOK(r, call.asked) /\ ChainKept(r, call.asked, chain)
      /\ call.context = GetLatestContext(r, call.asked) /\ call.context # NoIndex
  BY SettingsAssumption DEF Inv, AskedBefore
<1>2. GetStorageValues(r, chain, memory, call.context, p) = "ok"
  BY DEF Verdict
<1>3. QED
  BY <1>1, <1>2, ChainAccepts

\* What any of the verifiers accepts was on the chain as its rollup promises,
\* however the chain went on since it made the context.
THEOREM AcceptedPromised == Spec => []AcceptedAsPromised
<1>1. Inv => AcceptedAsPromised
  BY InvAccepts
<1>2. QED
  BY InvHolds, <1>1, PTL

\* And it is within the window, by the clock of that rollup.
THEOREM AcceptedRecent == Spec => []AcceptedIsRecent
<1>1. Inv => AcceptedIsRecent
  BY InvAccepts
<1>2. QED
  BY InvHolds, <1>1, PTL

\* What the verifiers say of an answer made as the gateway makes it: the code's
\* own verdict, or that it is older than the window.
Honest == {"ok", "CommitTooOld"}

-----------------------------------------------------------------------------
(* TrustedCommits.tla: what the gateway serves is accepted.                *)

\* The latest commit the gateway made is signed.
TrustedMemory(m) == m.latest # NoCommit => [signedAt |-> m.latest.signedAt, root |-> m.latest.root] \in m.signed

\* Making another commit, and letting the last one expire, leave the signed
\* ones signed.
LEMMA TrustedRemembers ==
    ASSUME NEW x, NEW s, NEW m, m = [latest |-> m.latest, count |-> m.count, signed |-> m.signed],
           TrustedMemory(m)
    PROVE  /\ TrustedMemory(Trusted!Latest(x, s, m)) /\ TrustedMemory(Trusted!Expired(m))
           /\ m.signed \subseteq Trusted!Latest(x, s, m).signed /\ m.signed = Trusted!Expired(m).signed
<1>1. CASE m.latest # NoCommit \/ m.count = x.max
  BY <1>1 DEF TrustedMemory, Trusted!Latest, Trusted!Expired, NoCommit, Trusted!NoCommit, NoIndex, Trusted!NoIndex
<1>2. CASE ~(m.latest # NoCommit \/ m.count = x.max)
  BY <1>2 DEF TrustedMemory, Trusted!Latest, Trusted!Expired, NoCommit, Trusted!NoCommit, NoIndex, Trusted!NoIndex
<1>3. QED
  BY <1>1, <1>2

\* A signed commit is accepted, or too old, or signed too far from the time
\* asked about.
LEMMA TrustedServed ==
    ASSUME NEW x, x.window \in Nat, NEW s, NEW a, NEW m, SignedOK(m), NEW c, NEW d \in Nat,
           [signedAt |-> c.signedAt, root |-> c.root] \in m.signed
    PROVE  \/ Trusted!GetStorageValues(x, s, m, d, Trusted!EncodeWitness(c)) \in Honest
           \/ Trusted!Spoiled(x, a, s, d, c)
<1>1. c.signedAt \in Nat
  BY DEF SignedOK
<1>2. QED
  BY <1>1 DEF Trusted!GetStorageValues, Trusted!EncodeWitness, Trusted!Spoiled, Honest

-----------------------------------------------------------------------------
(* EthSelf.tla: what is served.                                            *)

\* A block at or before the one asked about is accepted, or too old, while its
\* hash is known.
LEMMA SelfServed ==
    ASSUME NEW x, x.window \in Nat, NEW s, NEW a, NEW c, c.index \in Int, NEW d \in Int, c.index <= d
    PROVE  \/ Self!GetStorageValues(x, s, d, Self!EncodeWitness(c)) \in Honest
           \/ Self!Spoiled(x, a, s, d, c)
  BY DEF Self!GetStorageValues, Self!EncodeWitness, Self!Spoiled, Self!CheckWindow, Honest

-----------------------------------------------------------------------------
(* InteractiveCommits.tla: what is served.                                 *)

\* A right commit is one that was set.
InteractiveLinked(s) == \A i \in DOMAIN s.commits : s.commits[i].right \in BOOLEAN /\ s.commits[i].prev \in Nat /\ (s.commits[i].right => s.commits[i].set)

\* Setting a commit keeps that.
LEMMA InteractiveLinks ==
    ASSUME NEW x, x.max \in Nat, NEW s, InteractiveOK(s), InteractiveLinked(s), NEW t \in Interactive!Moves(x, s)
    PROVE  InteractiveLinked(t)
<1>1. PICK index \in s.latest + 1 .. x.max, right \in BOOLEAN : t = Interactive!SetStateRoot(s, index, right)
  BY DEF Interactive!Moves
<1>2. t.commits = [i \in 1 .. index |->
        IF i = index THEN [prev |-> s.latest, right |-> right, set |-> TRUE]
        ELSE Interactive!CommitOf(s, i)]
  BY <1>1 DEF Interactive!SetStateRoot
<1>3. \A i : \E e \in {Interactive!CommitOf(s, i)} : e.right \in BOOLEAN /\ e.prev \in Nat /\ (e.right => e.set)
  BY DEF InteractiveLinked, Interactive!CommitOf, Interactive!Unset
<1>4. QED
  BY <1>2, <1>3 DEF InteractiveLinked, InteractiveOK

\* A commit of a right root is accepted, or too old, unless it is the first
\* one.
LEMMA InteractiveServed ==
    ASSUME NEW x, x.window \in Nat, NEW s, InteractiveLinked(s), NEW a, NEW c, c.index \in Nat, c.right = TRUE,
           NEW d \in Nat, c.index <= d
    PROVE  \/ Interactive!GetStorageValues(x, s, d, Interactive!EncodeWitness(c)) \in Honest
           \/ Interactive!Spoiled(x, a, s, d, c)
<1>1. CASE Interactive!Spoiled(x, a, s, d, c)
  BY <1>1
<1>2. CASE ~Interactive!Spoiled(x, a, s, d, c)
  <2>1. Interactive!CommitOf(s, c.index).right
    BY <1>2 DEF Interactive!Spoiled
  <2>2. Interactive!CommitOf(s, c.index).right \in BOOLEAN /\ Interactive!CommitOf(s, c.index).set
    BY <2>1 DEF InteractiveLinked, Interactive!CommitOf, Interactive!Unset
  <2>3. Interactive!CommitOf(s, c.index).right = TRUE
    BY <2>1, <2>2
  <2>4. Interactive!CheckWindow(x, d, c.index) \in Honest
    BY DEF Interactive!CheckWindow, Honest
  <2>5. Interactive!GetStorageValues(x, s, d, Interactive!EncodeWitness(c)) = Interactive!CheckWindow(x, d, c.index)
    BY <2>2, <2>3 DEF Interactive!GetStorageValues, Interactive!EncodeWitness
  <2>6. QED
    BY <2>4, <2>5
<1>3. QED
  BY <1>1, <1>2

-----------------------------------------------------------------------------
(* LineaCommits.tla: what is served.                                       *)

\* A block whose root is kept on the chain is accepted or too old.
LEMMA LineaServed ==
    ASSUME NEW x, x.window \in Nat, NEW s, LineaOK(s), NEW c, c.index \in Linea!StateRootHashes(s),
           NEW d \in Nat, c.index <= d
    PROVE  Linea!GetStorageValues(x, s, d, Linea!EncodeWitness(c)) \in Honest
<1>1. c.index \in Nat
  BY InSeq DEF LineaOK, Linea!StateRootHashes
<1>2. QED
  BY <1>1 DEF Linea!GetStorageValues, Linea!EncodeWitness, Linea!CheckWindow, Honest

\* A root that is kept stays so.
LEMMA LineaStays ==
    ASSUME NEW s, LineaOK(s), NEW t, LineaOK(t), LineaKept(s, t)
    PROVE  Linea!StateRootHashes(s) \subseteq Linea!StateRootHashes(t)
<1>1. /\ Len(s.finals) \in Nat /\ DOMAIN s.finals = 1 .. Len(s.finals)
      /\ Len(t.finals) \in Nat /\ DOMAIN t.finals = 1 .. Len(t.finals)
  BY InSeq DEF LineaOK
<1>2. Len(s.finals) <= Len(t.finals) /\ \A k \in DOMAIN s.finals : t.finals[k] = s.finals[k]
  BY DEF LineaKept
<1>3. \A k \in DOMAIN s.finals : k \in DOMAIN t.finals
  BY ONLY <1>1, <1>2
<1>4. QED
  BY <1>2, <1>3 DEF Linea!StateRootHashes

-----------------------------------------------------------------------------
(* FinalizedBatches.tla: what is served.                                   *)

\* A finalized batch is accepted or too old (but for the zkEVM, which has no
\* verifier).
LEMMA BatchesServed ==
    ASSUME NEW x, x.window \in Nat, NEW s, NEW a, NEW c, c.index \in Nat,
           x.kind # "zkevm" => c.index \in Batches!FinalizedStateRoots(x, s),
           NEW d \in Nat, c.index <= d
    PROVE  \/ Batches!GetStorageValues(x, s, d, Batches!EncodeWitness(c)) \in Honest
           \/ Batches!Spoiled(x, a, s, d, c)
  BY DEF Batches!GetStorageValues, Batches!EncodeWitness, Batches!CheckWindow, Batches!Spoiled, Honest

-----------------------------------------------------------------------------
(* StateUpdates.tla: what is served.                                       *)

\* The state of an update is accepted or too old while it is the last one, or
\* the hash of its block is known.
LEMMA UpdatesServed ==
    ASSUME NEW x, NEW s, NEW a, NEW c, NEW d
    PROVE  \/ Updates!GetStorageValues(x, s, d, Updates!EncodeWitness(c)) \in Honest
           \/ Updates!Spoiled(x, a, s, d, c)
  BY DEF Updates!GetStorageValues, Updates!EncodeWitness, Updates!Spoiled, Honest

-----------------------------------------------------------------------------
(* TaikoBatches.tla: what is served.                                       *)

\* What is verified and what is written was proved, and the block synced last
\* is a multiple of the distance of the syncs.
TaikoLinked(x, s) ==
    /\ s.synced % x.sync = 0
    /\ s.written \subseteq 1..x.max /\ \A b \in s.written : s.proved[b] # 0
    /\ \A b \in 1..s.verified : b \in 1 .. x.max /\ s.proved[b] # 0

\* Proving and verifying keep that, and what is written.
LEMMA TaikoLinks ==
    ASSUME NEW x, x.max \in Nat, x.sync \in Nat \ {0}, NEW s, TaikoOK(x, s), TaikoLinked(x, s),
           NEW t \in Taiko!Moves(x, s)
    PROVE  TaikoLinked(x, t) /\ s.written \subseteq t.written
<1>1. CASE \E b \in {b \in 1 .. x.max : s.proved[b] = 0} : t = [s EXCEPT !.proved[b] = s.now]
  <2>1. PICK b \in 1 .. x.max : s.proved[b] = 0 /\ t = [s EXCEPT !.proved[b] = s.now]
    BY <1>1
  <2>2. /\ t.synced = s.synced /\ t.written = s.written /\ t.verified = s.verified
        /\ \A e \in 1 .. x.max : t.proved[e] = IF e = b THEN s.now ELSE s.proved[e]
    BY <2>1 DEF TaikoOK
  <2>3. QED
    BY <2>2 DEF TaikoOK, TaikoLinked
<1>2. CASE \E to \in {to \in s.verified + 1 .. x.max : \A b \in s.verified + 1 .. to : s.proved[b] # 0} :
                t = Taiko!Verified(x, s, to)
  <2>1. PICK to \in s.verified + 1 .. x.max :
                (\A b \in s.verified + 1 .. to : s.proved[b] # 0) /\ t = Taiko!Verified(x, s, to)
    BY <1>2
  <2> DEFINE roots == {b \in s.verified + 1 .. to : b % x.sync = 0}
             last == IF roots = {} THEN {} ELSE {CHOOSE b \in roots : \A e \in roots : e <= b}
  <2>2. t = [s EXCEPT !.verified = to,
                      !.synced = IF last = {} THEN @ ELSE CHOOSE b \in last : TRUE,
                      !.written = @ \cup {to} \cup last]
    BY <2>1 DEF Taiko!Verified
  <2>3. last \subseteq roots
    <3>1. CASE roots = {}
      BY <3>1
    <3>2. CASE roots # {}
      <4>1. roots \subseteq 0 .. to /\ to \in Nat
        BY <2>1 DEF TaikoOK
      <4>2. \E b \in roots : \A e \in roots : e <= b
        BY <3>2, <4>1, GreatestOf
      <4>3. QED
        BY <4>2
    <3>3. QED
      BY <3>1, <3>2
  <2>4. (CHOOSE b \in last : TRUE) \in roots \/ last = {}
    BY <2>3
  <2> HIDE DEF last
  <2>5. /\ t.proved = s.proved /\ t.verified = to
        /\ t.synced = IF last = {} THEN s.synced ELSE CHOOSE b \in last : TRUE
        /\ t.written = s.written \cup {to} \cup last
    BY <2>2 DEF TaikoOK
  <2>6. to \in 1 .. x.max /\ \A b \in 1 .. to : b \in 1 .. x.max /\ s.proved[b] # 0
    BY <2>1 DEF TaikoOK, TaikoLinked
  <2>7. roots \subseteq 1 .. to /\ \A b \in roots : b % x.sync = 0
    BY DEF TaikoOK
  <2> HIDE DEF roots
  <2>8. t.synced % x.sync = 0
    BY <2>4, <2>5, <2>7 DEF TaikoLinked
  <2>9. t.written \subseteq 1 .. x.max /\ \A b \in t.written : t.proved[b] # 0
    <3> SUFFICES ASSUME NEW b \in t.written PROVE b \in 1 .. x.max /\ s.proved[b] # 0
      BY <2>5
    <3>1. b \in s.written \/ b = to \/ b \in roots
      BY <2>3, <2>5
    <3>2. to \in 1 .. to
      BY <2>6
    <3>3. QED
      BY <2>6, <2>7, <3>1, <3>2 DEF TaikoLinked
  <2>10. QED
    BY <2>5, <2>6, <2>8, <2>9 DEF TaikoLinked
<1>3. QED
  BY <1>1, <1>2 DEF Taiko!Moves

\* A block written to the signal service is accepted or too old, unless it was
\* proved after the context.
LEMMA TaikoServed ==
    ASSUME NEW x, x.window \in Nat, x.max \in Nat, NEW a, TaikoOK(x, a), NEW s, TaikoOK(x, s), TaikoKept(x, a, s),
           TaikoLinked(x, s), NEW c, c.index \in s.written, c.index % x.sync = 0,
           NEW d, d = Taiko!GetLatestContext(x, a)
    PROVE  \/ Taiko!GetStorageValues(x, s, d, Taiko!EncodeWitness(c)) \in Honest
           \/ Taiko!Spoiled(x, a, s, d, c)
<1>1. c.index \in 1 .. x.max /\ s.proved[c.index] \in Nat /\ s.proved[c.index] # 0
  BY DEF TaikoOK, TaikoLinked
<1>2. d \in 0 .. x.max /\ (d # 0 => a.proved[d] # 0 /\ s.proved[d] = a.proved[d] /\ a.proved[d] \in Nat)
  BY DEF TaikoOK, TaikoKept, Taiko!GetLatestContext
<1>3. Taiko!CreatedAt(s, d) \in Nat /\ Taiko!CreatedAt(a, d) = Taiko!CreatedAt(s, d)
  BY <1>2 DEF Taiko!CreatedAt
<1>4. Taiko!CreatedAt(s, c.index) \in Nat /\ Taiko!CreatedAt(s, c.index) # 0
  BY <1>1 DEF Taiko!CreatedAt
<1>5. QED
  BY <1>3, <1>4 DEF Taiko!GetStorageValues, Taiko!EncodeWitness, Taiko!CheckWindow, Taiko!Spoiled, Honest

\* So many syncs before a synced block is a synced block.
LEMMA TaikoParent ==
    ASSUME NEW x, x.sync \in Nat \ {0}, x.span \in Nat \ {0}, NEW i \in Nat, i % x.sync = 0,
           i - x.sync * x.span \in Nat
    PROVE  (i - x.sync * x.span) % x.sync = 0
<1> DEFINE n == x.sync
           q == i \div n
           k == x.span
<1>1. n \in Nat \ {0} /\ k \in Nat /\ q \in Int
  OBVIOUS
<1>2. i = n * q
  BY <1>1
<1> HIDE DEF n, q, k
<1>3. i - n * k = n * (q - k)
  BY <1>1, <1>2
<1>4. (n * (q - k)) % n = 0
  BY <1>1
<1>5. QED
  BY <1>3, <1>4 DEF n, k

-----------------------------------------------------------------------------
(* Checkpoints.tla: what is served.                                        *)

\* Headers are submitted in the order of their times.
CheckpointLinked(s) == \A j, k \in DOMAIN s.headers : j <= k => s.headers[j].at <= s.headers[k].at

\* Submitting a header keeps that.
LEMMA CheckpointLinks ==
    ASSUME NEW x, x.max \in Nat, x.deployed \in Nat, NEW s, CheckpointOK(s), CheckpointLinked(s),
           NEW t \in Checkpoint!Moves(x, s)
    PROVE  CheckpointLinked(t) /\ s.posts \subseteq t.posts
<1>1. CASE \E post : t = [s EXCEPT !.tip = @ + 1, !.posts = @ \cup post]
  BY <1>1 DEF CheckpointOK, CheckpointLinked
<1>2. CASE \E end \in Checkpoint!LastChildBlock(s) + 1 .. s.tip :
            t = [s EXCEPT !.headers = Append(@, [start |-> Checkpoint!LastChildBlock(s) + 1,
                                                 end |-> end, at |-> s.now])]
  <2>1. PICK end \in Checkpoint!LastChildBlock(s) + 1 .. s.tip :
            t = [s EXCEPT !.headers = Append(@, [start |-> Checkpoint!LastChildBlock(s) + 1,
                                                 end |-> end, at |-> s.now])]
    BY <1>2
  <2>2. [start |-> Checkpoint!LastChildBlock(s) + 1, end |-> end, at |-> s.now]
            \in [start : Nat, end : Nat, at : Nat]
    <3>1. s.now \in Nat /\ s.tip \in Nat /\ Checkpoint!LastChildBlock(s) \in Nat
      BY CheckpointLast DEF CheckpointOK
    <3>2. end \in Nat
      BY <2>1, <3>1
    <3>3. QED
      BY <3>1, <3>2
  <2>3. /\ t.headers = Append(s.headers, [start |-> Checkpoint!LastChildBlock(s) + 1, end |-> end, at |-> s.now])
        /\ t.posts = s.posts
    BY <2>1 DEF CheckpointOK
  <2>4. /\ Len(s.headers) \in Nat /\ DOMAIN s.headers = 1 .. Len(s.headers)
        /\ \A k \in DOMAIN s.headers : s.headers[k] \in [start : Nat, end : Nat, at : Nat] /\ s.headers[k].at <= s.now
    BY InSeq DEF CheckpointOK
  <2>5. /\ DOMAIN t.headers = 1 .. Len(s.headers) + 1 /\ t.headers[Len(s.headers) + 1].at = s.now
        /\ \A k \in DOMAIN s.headers : t.headers[k] = s.headers[k]
    <3> DEFINE S == [start : Nat, end : Nat, at : Nat]
               h == [start |-> Checkpoint!LastChildBlock(s) + 1, end |-> end, at |-> s.now]
    <3>1. s.headers \in Seq(S) /\ h \in S /\ h.at = s.now
      BY <2>2 DEF CheckpointOK
    <3> HIDE DEF S, h
    <3>2. t.headers = Append(s.headers, h)
      BY <2>3 DEF h
    <3>3. QED
      BY <3>1, <3>2, OneMore
  <2>6. QED
    <3>1. \A k \in DOMAIN t.headers : k \in DOMAIN s.headers \/ k = Len(s.headers) + 1
      BY <2>4, <2>5
    <3>2. ASSUME NEW j \in DOMAIN t.headers, NEW k \in DOMAIN t.headers, j <= k
          PROVE  t.headers[j].at <= t.headers[k].at
      <4>1. CASE k \in DOMAIN s.headers
        <5>1. j \in DOMAIN s.headers
          BY <2>4, <2>5, <3>2, <4>1
        <5>2. QED
          BY <2>5, <3>2, <4>1, <5>1 DEF CheckpointLinked
      <4>2. CASE k = Len(s.headers) + 1
        <5>1. t.headers[j].at <= s.now
          <6>1. s.now \in Nat
            BY DEF CheckpointOK
          <6>2. QED
            BY <2>4, <2>5, <3>1, <6>1
        <5>2. QED
          BY <2>5, <4>2, <5>1
      <4>3. QED
        BY <3>1, <4>1, <4>2
    <3>3. QED
      BY <2>3, <3>2 DEF CheckpointLinked
<1>3. QED
  BY <1>1, <1>2 DEF Checkpoint!Moves

\* A commit of a checkpoint is a post in the range of its header.
CheckpointRests(s, c) ==
    /\ c.index \in DOMAIN s.headers
    /\ c.post \in Checkpoint!PostsIn(s, s.headers[c.index].start, s.headers[c.index].end)

\* The commit the gateway makes of a header is.
LEMMA CheckpointFetched ==
    ASSUME NEW x, NEW s, CheckpointOK(s), NEW i, NEW c, c = Checkpoint!FetchCommit(x, s, i), c # Checkpoint!NoCommit
    PROVE  CheckpointRests(s, c)
<1> DEFINE posts == Checkpoint!PostsIn(s, Checkpoint!Header(s, i).start, Checkpoint!Header(s, i).end)
<1>1. /\ i \in DOMAIN s.headers /\ posts # {}
      /\ c = [index |-> i, post |-> Checkpoint!LastOf(posts), l2BlockNumberStart |-> Checkpoint!Header(s, i).start]
  BY DEF Checkpoint!FetchCommit
<1>2. s.headers[i] \in [start : Nat, end : Nat, at : Nat]
  BY <1>1, InSeq DEF CheckpointOK
<1>3. posts \subseteq 0 .. s.headers[i].end
  BY <1>2 DEF CheckpointOK, Checkpoint!PostsIn, Checkpoint!Header
<1>4. \E n \in posts : \A k \in posts : k <= n
  BY <1>1, <1>2, <1>3, GreatestOf
<1>5. Checkpoint!LastOf(posts) \in posts
  BY <1>4 DEF Checkpoint!LastOf
<1>6. QED
  BY <1>1, <1>5 DEF CheckpointRests, Checkpoint!Header

\* It stays one while the chain goes on.
LEMMA CheckpointRested ==
    ASSUME NEW s, CheckpointOK(s), NEW t, CheckpointOK(t), CheckpointKept(s, t), s.posts \subseteq t.posts,
           NEW c, CheckpointRests(s, c)
    PROVE  CheckpointRests(t, c)
<1>0. /\ DOMAIN s.headers = 1 .. Len(s.headers) /\ DOMAIN t.headers = 1 .. Len(t.headers)
      /\ Len(s.headers) \in Nat /\ Len(t.headers) \in Nat
  BY InSeq DEF CheckpointOK
<1>1. c.index \in DOMAIN t.headers /\ t.headers[c.index] = s.headers[c.index]
  BY <1>0 DEF CheckpointKept, CheckpointRests
<1>2. QED
  BY <1>1 DEF CheckpointRests, Checkpoint!PostsIn

\* And it is accepted or too old.
LEMMA CheckpointServed ==
    ASSUME NEW x, x.window \in Nat, NEW a, CheckpointOK(a), NEW s, CheckpointOK(s), CheckpointKept(a, s),
           CheckpointLinked(s), NEW c, CheckpointRests(s, c), NEW d, d = Checkpoint!GetLatestContext(x, a),
           c.index <= d
    PROVE  Checkpoint!GetStorageValues(x, s, d, Checkpoint!EncodeWitness(c)) \in Honest
<1>1. /\ Len(s.headers) \in Nat /\ DOMAIN s.headers = 1 .. Len(s.headers) /\ d \in Nat /\ d <= Len(s.headers)
      /\ \A k \in DOMAIN s.headers : s.headers[k].at \in Nat
  <2>1. /\ DOMAIN s.headers = 1 .. Len(s.headers) /\ Len(s.headers) \in Nat /\ Len(a.headers) \in Nat
        /\ \A k \in DOMAIN s.headers : s.headers[k] \in [start : Nat, end : Nat, at : Nat]
    BY InSeq DEF CheckpointOK
  <2>2. QED
    BY <2>1 DEF CheckpointKept, Checkpoint!GetLatestContext, Checkpoint!CurrentHeaderBlock
<1>2. c.index \in DOMAIN s.headers /\ d \in DOMAIN s.headers
  BY <1>1 DEF CheckpointRests
<1>3. s.headers[c.index].at <= s.headers[d].at
  BY <1>1, <1>2 DEF CheckpointLinked
<1>4. Checkpoint!CheckWindow(x, Checkpoint!CreatedAt(s, d), Checkpoint!CreatedAt(s, c.index)) \in Honest
  BY <1>1, <1>2, <1>3 DEF Checkpoint!CheckWindow, Checkpoint!CreatedAt, Checkpoint!Header, Honest
<1>5. QED
  BY <1>2, <1>4 DEF Checkpoint!GetStorageValues, Checkpoint!EncodeWitness, Checkpoint!Header, CheckpointRests, Honest

\* A loop: at w it stops, with val[w] in P, or goes on with next[w].
Loop(D, P, N, rank, stop, next, val) ==
    /\ N \in Nat /\ rank \in [D -> 0 .. N]
    /\ \A w \in D : IF w \in stop THEN val[w] \in P ELSE next[w] \in D /\ rank[next[w]] < rank[w]

\* f is what the loop gives from each place.
Looped(f, D, stop, next, val) == \A w \in D : f[w] = IF w \in stop THEN val[w] ELSE f[next[w]]

\* Every loop is one of a function.
LEMMA LoopIs ==
    ASSUME NEW D, NEW P, P # {}, NEW N, NEW rank, NEW stop, NEW next, NEW val,
           Loop(D, P, N, rank, stop, next, val)
    PROVE  \E f \in [D -> P] : Looped(f, D, stop, next, val)
<1> DEFINE G == [w \in D |-> [h \in [D -> P] |-> IF w \in stop THEN val[w] ELSE h[next[w]]]]
<1>1. G \in [D -> [[D -> P] -> P]]
  BY DEF Loop
<1>2. ASSUME NEW w \in D, NEW f \in [D -> P], NEW h \in [D -> P], SameBelow(D, rank, rank[w], f, h)
      PROVE  G[w][f] = G[w][h]
  BY <1>2 DEF Loop, SameBelow
<1>3. \A w \in D : \A h \in [D -> P] : G[w][h] = IF w \in stop THEN val[w] ELSE h[next[w]]
  OBVIOUS
<1> HIDE DEF G
<1>4. Rule(D, P, N, rank, G)
  BY <1>1, <1>2 DEF Rule, Loop
<1>5. PICK f \in [D -> P] : \A w \in D : f[w] = G[w][f]
  BY <1>4, Recursion
<1>6. QED
  BY <1>3, <1>5 DEF Looped

\* What holds wherever it stops is true of all its results.
LEMMA LoopEnds ==
    ASSUME NEW D, NEW P, NEW N, NEW rank, NEW stop, NEW next, NEW val,
           Loop(D, P, N, rank, stop, next, val), NEW f, Looped(f, D, stop, next, val)
    PROVE  \A w \in D : f[w] \in P
<1> DEFINE S == {w \in D : f[w] \in P}
<1>1. ASSUME NEW w \in D, \A v \in D : rank[v] < rank[w] => v \in S PROVE w \in S
  BY <1>1 DEF Loop, Looped
<1> HIDE DEF S
<1>2. Inductive(D, N, rank, S)
  BY <1>1 DEF Inductive, Loop
<1>3. \A w \in D : w \in S
  BY <1>2, Induction
<1>4. QED
  BY <1>3 DEF S

\* The places of a loop with two variables.
Pairs(D, A, B) ==
    /\ \A w \in D : w[1] \in A /\ w[2] \in B
    /\ \A x \in A, y \in B : \E w \in D : w = <<x, y>> /\ w[1] = x /\ w[2] = y

\* The pairs of the members of two sets are such places.
LEMMA PairOf ==
    ASSUME NEW A, NEW B
    PROVE  Pairs(A \X B, A, B)
<1>1. ASSUME NEW x \in A, NEW y \in B PROVE \E w \in A \X B : w = <<x, y>> /\ w[1] = x /\ w[2] = y
  <2>1. <<x, y>> \in A \X B /\ <<x, y>>[1] = x /\ <<x, y>>[2] = y
    OBVIOUS
  <2>2. QED
    BY <2>1
<1>2. QED
  BY <1>1 DEF Pairs

\* The middle of two numbers is below the larger one.
LEMMA Middle ==
    ASSUME NEW n \in Nat, NEW a \in 0 .. n, NEW b \in 0 .. n, a < b
    PROVE  /\ (a + b) \div 2 \in 0 .. n /\ (a + b) \div 2 \in 0 .. n - 1 /\ (a + b) \div 2 + 1 \in 0 .. n
           /\ a <= (a + b) \div 2 /\ (a + b) \div 2 < b
  OBVIOUS

-----------------------------------------------------------------------------
(* ReverseOP.tla: what is served.                                          *)

\* A commit is of a block of the second chain that knows of the block of its
\* index.
ReverseRests(s, c) == c.l2Block \in 0 .. Reverse!BlockNumber(s) /\ Reverse!L1Number(s, c.l2Block) = c.index

\* The blocks of the second chain come in the order of those they know of.
ReverseOrdered(s) == \A j, k \in DOMAIN s.l2 : j <= k => s.l2[j] <= s.l2[k]

\* The block the search of FindL2Block finds knows of the block searched for,
\* and it finds one if there is one in its range.
LEMMA L2BlockFound ==
    ASSUME NEW x, x.depth \in Nat, NEW s, ReverseOK(s), NEW number \in Int, NEW n, n = Reverse!FindL2Block(x, s, number)
    PROVE  /\ n # Reverse!NoIndex => n \in 0 .. Reverse!BlockNumber(s) /\ Reverse!L1Number(s, n) = number
           /\ ReverseOrdered(s) => \A k \in 0 .. Reverse!BlockNumber(s) :
                k + x.depth > Reverse!BlockNumber(s) /\ Reverse!L1Number(s, k) = number => n # Reverse!NoIndex
<1> DEFINE b0 == Reverse!BlockNumber(s) + 1
           a0 == IF b0 < x.depth THEN 0 ELSE b0 - x.depth
           D == (0 .. b0) \X (0 .. b0)
           P == {Reverse!NoIndex} \cup {k \in 0 .. Reverse!BlockNumber(s) : Reverse!L1Number(s, k) = number}
           mid(w) == (w[1] + w[2]) \div 2
           find == CHOOSE find : find = [w \in (0 .. b0) \X (0 .. b0) |->
                LET middle == (w[1] + w[2]) \div 2
                IN CASE w[1] >= w[2] -> Reverse!NoIndex
                     [] w[1] < w[2] /\ Reverse!L1Number(s, middle) = number -> middle
                     [] w[1] < w[2] /\ Reverse!L1Number(s, middle) > number -> find[<<w[1], middle>>]
                     [] OTHER -> find[<<middle + 1, w[2]>>]]
           stop == {w \in D : w[1] >= w[2] \/ Reverse!L1Number(s, mid(w)) = number}
           val == [w \in D |-> IF w[1] >= w[2] THEN Reverse!NoIndex ELSE mid(w)]
           next == [w \in D |-> IF Reverse!L1Number(s, mid(w)) > number THEN <<w[1], mid(w)>> ELSE <<mid(w) + 1, w[2]>>]
           rank == [w \in D |-> IF w[1] >= w[2] THEN 0 ELSE w[2] - w[1]]
<1>1. Reverse!FindL2Block(x, s, number) = find[<<a0, b0>>]
  BY DEF Reverse!FindL2Block
<1>2. /\ b0 \in Nat /\ b0 = Len(s.l2) /\ a0 \in 0 .. b0 /\ Reverse!BlockNumber(s) \in Int
      /\ \A k \in 0 .. b0 - 1 : Reverse!L1Number(s, k) \in Nat
  <2>1. Len(s.l2) \in Nat /\ \A k \in 1 .. Len(s.l2) : s.l2[k] \in Nat
    BY InSeq DEF ReverseOK
  <2>2. QED
    BY <2>1 DEF Reverse!BlockNumber, Reverse!L1Number
<1> HIDE DEF b0, a0
<1>3. /\ \A w \in D : w[1] \in 0 .. b0 /\ w[2] \in 0 .. b0
      /\ \A p, q \in 0 .. b0 : \E w \in D : w = <<p, q>> /\ w[1] = p /\ w[2] = q
  <2>1. Pairs(D, 0 .. b0, 0 .. b0)
    BY PairOf
  <2> HIDE DEF D
  <2>2. QED
    BY <2>1 DEF Pairs
<1> HIDE DEF D
<1>4. ASSUME NEW w \in D, ~(w[1] >= w[2])
      PROVE  /\ mid(w) \in 0 .. b0 /\ mid(w) \in 0 .. b0 - 1 /\ mid(w) + 1 \in 0 .. b0
             /\ w[1] <= mid(w) /\ mid(w) < w[2]
  <2>1. w[1] \in 0 .. b0 /\ w[2] \in 0 .. b0 /\ w[1] < w[2]
    BY <1>2, <1>3, <1>4
  <2>2. QED
    BY <1>2, <2>1, Middle
<1>5. ASSUME NEW w \in D, ~(w[1] >= w[2])
      PROVE  /\ <<w[1], mid(w)>> \in D /\ rank[<<w[1], mid(w)>>] < rank[w]
             /\ <<mid(w) + 1, w[2]>> \in D /\ rank[<<mid(w) + 1, w[2]>>] < rank[w]
  <2> HIDE DEF rank
  <2> DEFINE m == mid(w)
  <2>0. m \in 0 .. b0 /\ m + 1 \in 0 .. b0 /\ w[1] <= m /\ m < w[2] /\ w[1] \in 0 .. b0 /\ w[2] \in 0 .. b0
    BY <1>3, <1>4, <1>5
  <2> HIDE DEF m
  <2>1. PICK u \in D : u = <<w[1], m>> /\ u[1] = w[1] /\ u[2] = m
    BY <1>3, <2>0
  <2>2. PICK v \in D : v = <<m + 1, w[2]>> /\ v[1] = m + 1 /\ v[2] = w[2]
    BY <1>3, <2>0
  <2>3. \A z \in D : rank[z] = IF z[1] >= z[2] THEN 0 ELSE z[2] - z[1]
    BY DEF rank
  <2>4. rank[u] < rank[w] /\ rank[v] < rank[w]
    BY <1>2, <1>5, <2>0, <2>1, <2>2, <2>3
  <2>5. QED
    BY <2>1, <2>2, <2>4 DEF m
<1>6. rank \in [D -> 0 .. b0]
  <2>1. \A w \in D : (IF w[1] >= w[2] THEN 0 ELSE w[2] - w[1]) \in 0 .. b0
    BY <1>2, <1>3
  <2>2. QED
    BY <2>1
<1> HIDE DEF rank
<1>8. \A w \in D : w \in stop => val[w] \in P
  <2> SUFFICES ASSUME NEW w \in D, w \in stop PROVE val[w] \in P
    OBVIOUS
  <2>1. CASE w[1] >= w[2]
    BY <2>1
  <2>2. CASE ~(w[1] >= w[2])
    <3>1. mid(w) \in 0 .. Reverse!BlockNumber(s) /\ Reverse!L1Number(s, mid(w)) = number
      BY <1>2, <1>4, <2>2 DEF b0
    <3> HIDE DEF mid
    <3>2. QED
      BY <2>2, <3>1
  <2>3. QED
    BY <2>1, <2>2
<1>7. Loop(D, P, b0, rank, stop, next, val)
  <2>1. ASSUME NEW w \in D, w \notin stop PROVE next[w] \in D /\ rank[next[w]] < rank[w]
    <3>1. ~(w[1] >= w[2])
      BY <2>1
    <3> HIDE DEF mid
    <3>2. QED
      BY <1>5, <3>1
  <2> HIDE DEF next, stop, val, P
  <2>2. QED
    BY <1>2, <1>6, <1>8, <2>1 DEF Loop
<1> DEFINE Body(f, w) == LET middle == (w[1] + w[2]) \div 2
                IN CASE w[1] >= w[2] -> Reverse!NoIndex
                     [] w[1] < w[2] /\ Reverse!L1Number(s, middle) = number -> middle
                     [] w[1] < w[2] /\ Reverse!L1Number(s, middle) > number -> f[<<w[1], middle>>]
                     [] OTHER -> f[<<middle + 1, w[2]>>]
<1>9. ASSUME NEW f, NEW w \in D PROVE Body(f, w) = IF w \in stop THEN val[w] ELSE f[next[w]]
  <2>1. w[1] \in Int /\ w[2] \in Int
    BY <1>3
  <2>2. QED
    BY <2>1
<1> HIDE DEF stop, val, next, Body, P
<1>10. \E f : f = [w \in D |-> Body(f, w)]
  <2>1. P # {}
    BY DEF P
  <2>2. PICK f \in [D -> P] : Looped(f, D, stop, next, val)
    BY <1>7, <2>1, LoopIs
  <2>3. \A w \in D : f[w] = Body(f, w)
    BY <1>9, <2>2, Zenon DEF Looped
  <2>4. QED
    BY <2>2, <2>3
<1>11. find = [w \in D |-> Body(find, w)]
  BY <1>10, Zenon DEF Body, D
<1> HIDE DEF find
<1>12. Looped(find, D, stop, next, val)
  BY <1>9, <1>11 DEF Looped
<1>13. \A w \in D : find[w] \in P
  BY <1>7, <1>12, LoopEnds
<1>14. <<a0, b0>> \in D
  <2>1. PICK w \in D : w = <<a0, b0>>
    BY <1>2, <1>3
  <2>2. QED
    BY <2>1
<1>15. n \in P
  BY <1>1, <1>13, <1>14
<1>16. n # Reverse!NoIndex => n \in 0 .. Reverse!BlockNumber(s) /\ Reverse!L1Number(s, n) = number
  BY <1>15 DEF P
<1>17. ASSUME ReverseOrdered(s), NEW k \in 0 .. Reverse!BlockNumber(s), k + x.depth > Reverse!BlockNumber(s),
              Reverse!L1Number(s, k) = number
       PROVE  n # Reverse!NoIndex
  <2> DEFINE Around(w) == w[1] <= k /\ k < w[2]
             S == {w \in D : Around(w) => find[w] # Reverse!NoIndex}
  <2>1. k \in Int /\ k \in 0 .. b0 - 1 /\ a0 <= k /\ k < b0
    <3>1. k \in 0 .. Len(s.l2) - 1 /\ b0 = Len(s.l2) /\ Reverse!BlockNumber(s) = Len(s.l2) - 1
      BY <1>2, <1>17 DEF Reverse!BlockNumber
    <3>2. a0 = IF b0 < x.depth THEN 0 ELSE b0 - x.depth
      BY DEF a0, b0
    <3>3. b0 \in Nat
      BY <1>2
    <3>4. QED
      BY ONLY <3>1, <3>2, <3>3, x.depth \in Nat, k + x.depth > Reverse!BlockNumber(s)
  <2>2. \A i, j \in 0 .. b0 - 1 : i <= j => Reverse!L1Number(s, i) <= Reverse!L1Number(s, j)
    <3> SUFFICES ASSUME NEW i \in 0 .. b0 - 1, NEW j \in 0 .. b0 - 1, i <= j
                 PROVE  Reverse!L1Number(s, i) <= Reverse!L1Number(s, j)
      OBVIOUS
    <3>1. i + 1 \in DOMAIN s.l2 /\ j + 1 \in DOMAIN s.l2 /\ i + 1 <= j + 1
      BY <1>2, InSeq DEF ReverseOK
    <3>2. QED
      BY <1>17, <3>1 DEF ReverseOrdered, Reverse!L1Number
  <2>3. ASSUME NEW w \in D, \A v \in D : rank[v] < rank[w] => v \in S, Around(w)
        PROVE  find[w] # Reverse!NoIndex
    <3>1. ~(w[1] >= w[2])
      BY <1>2, <1>3, <2>1, <2>3
    <3>2. PICK c : c = mid(w)
      OBVIOUS
    <3>3. /\ c \in 0 .. b0 - 1 /\ w[1] <= c /\ c < w[2]
          /\ <<w[1], c>> \in D /\ rank[<<w[1], c>>] < rank[w]
          /\ <<c + 1, w[2]>> \in D /\ rank[<<c + 1, w[2]>>] < rank[w]
      BY <1>4, <1>5, <3>1, <3>2
    <3>4. find[w] = Body(find, w)
      BY <1>11
    <3>5. find[w] = CASE Reverse!L1Number(s, c) = number -> c
                      [] Reverse!L1Number(s, c) # number /\ Reverse!L1Number(s, c) > number -> find[<<w[1], c>>]
                      [] OTHER -> find[<<c + 1, w[2]>>]
      <4>1. w[1] \in Int /\ w[2] \in Int
        BY <1>3
      <4>2. w[1] < w[2] /\ Reverse!L1Number(s, c) \in Nat
        BY <1>2, <3>1, <3>3, <4>1
      <4>3. QED
        BY <3>2, <3>4, <4>1, <4>2 DEF Body
    <3>6. CASE Reverse!L1Number(s, c) = number
      BY <1>2, <3>3, <3>5, <3>6 DEF Reverse!NoIndex
    <3>7. CASE Reverse!L1Number(s, c) # number /\ Reverse!L1Number(s, c) > number
      <4>1. ~(c <= k)
        BY <1>2, <1>17, <2>1, <2>2, <3>3, <3>7
      <4>2. k < c
        BY <1>2, <2>1, <3>3, <4>1
      <4>3. <<w[1], c>>[1] = w[1] /\ <<w[1], c>>[2] = c
        OBVIOUS
      <4>4. Around(<<w[1], c>>)
        BY <2>3, <4>2, <4>3
      <4>5. find[<<w[1], c>>] # Reverse!NoIndex
        BY <2>3, <3>3, <4>4
      <4>6. QED
        BY <3>5, <3>7, <4>5
    <3>8. CASE Reverse!L1Number(s, c) # number /\ ~(Reverse!L1Number(s, c) > number)
      <4>1. ~(k <= c)
        BY <1>2, <1>17, <2>1, <2>2, <3>3, <3>8
      <4>2. c + 1 <= k
        BY <1>2, <2>1, <3>3, <4>1
      <4>3. <<c + 1, w[2]>>[1] = c + 1 /\ <<c + 1, w[2]>>[2] = w[2]
        OBVIOUS
      <4>4. Around(<<c + 1, w[2]>>)
        BY <2>3, <4>2, <4>3
      <4>5. find[<<c + 1, w[2]>>] # Reverse!NoIndex
        BY <2>3, <3>3, <4>4
      <4>6. QED
        BY <3>5, <3>8, <4>5
    <3>9. QED
      BY <3>6, <3>7, <3>8
  <2>4. Inductive(D, b0, rank, S)
    <3>1. ASSUME NEW w \in D, \A v \in D : rank[v] < rank[w] => v \in S PROVE w \in S
      BY <2>3, <3>1
    <3> HIDE DEF S
    <3>2. QED
      BY <1>2, <1>6, <3>1 DEF Inductive
  <2>5. <<a0, b0>> \in S
    <3> HIDE DEF S
    <3>1. QED
      BY <1>14, <2>4, Induction
  <2>6. <<a0, b0>>[1] = a0 /\ <<a0, b0>>[2] = b0
    OBVIOUS
  <2>7. QED
    BY <1>1, <2>1, <2>5, <2>6
<1>18. QED
  BY <1>16, <1>17

\* Such a commit is accepted, or too old, while the hash of its block is known.
LEMMA ReverseServed ==
    ASSUME NEW x, x.window \in Nat, NEW s, ReverseOK(s), NEW a, NEW c, ReverseRests(s, c),
           NEW d \in Nat, c.index <= d
    PROVE  \/ Reverse!GetStorageValues(x, s, d, Reverse!EncodeWitness(c)) \in Honest
           \/ Reverse!Spoiled(x, a, s, d, c)
<1>1. c.index \in Nat
  <2>1. Len(s.l2) \in Nat /\ \A k \in 1 .. Len(s.l2) : s.l2[k] \in Nat
    BY InSeq DEF ReverseOK
  <2>2. QED
    BY <2>1 DEF ReverseRests, Reverse!BlockNumber, Reverse!L1Number
<1>2. CASE Reverse!HasBlockHash(x, s, c.l2Block)
  BY <1>1, <1>2 DEF ReverseRests, Reverse!GetStorageValues, Reverse!EncodeWitness, Reverse!CheckWindow, Honest
<1>3. QED
  BY <1>2 DEF Reverse!Spoiled

\* It stays one as the second chain grows.
LEMMA ReverseStays ==
    ASSUME NEW x, NEW s, s = [l2 |-> s.l2], ReverseOK(s), NEW t \in Reverse!Moves(x, s), NEW c, ReverseRests(s, c)
    PROVE  ReverseRests(t, c)
<1>1. /\ Len(s.l2) \in Nat /\ Len(s.l2) > 0 /\ \A k \in 1 .. Len(s.l2) : s.l2[k] \in Nat
  BY InSeq DEF ReverseOK
<1>2. Reverse!L1Number(s, Reverse!BlockNumber(s)) \in Nat
  BY <1>1 DEF Reverse!L1Number, Reverse!BlockNumber
<1>3. PICK number : /\ t = [s EXCEPT !.l2 = Append(@, number)]
                    /\ number \in {Reverse!L1Number(s, Reverse!BlockNumber(s)), Reverse!L1Number(s, Reverse!BlockNumber(s)) + 1}
  BY DEF Reverse!Moves
<1>4. t.l2 = Append(s.l2, number) /\ number \in Nat
  BY <1>2, <1>3
<1>5. Len(t.l2) = Len(s.l2) + 1 /\ \A k \in 1 .. Len(s.l2) : t.l2[k] = s.l2[k]
  BY <1>4, OneMore, InSeq DEF ReverseOK
<1>6. c.l2Block + 1 \in 1 .. Len(s.l2) /\ c.l2Block \in 0 .. Len(t.l2) - 1
  BY <1>1, <1>5 DEF ReverseRests, Reverse!BlockNumber
<1>7. QED
  BY <1>5, <1>6 DEF ReverseRests, Reverse!BlockNumber, Reverse!L1Number

-----------------------------------------------------------------------------
(* UncheckedCommits.tla: what is served.                                   *)

\* The chain has a first block, and each block its time.
UncheckedLinked(s) == s.times \in Seq(Nat) /\ Len(s.times) > 0

\* A commit is of a block of the chain, with the time of that block.
UncheckedRests(s, c) == c.index \in Nat /\ c.block \in 0 .. Unchecked!BlockNumber(s) /\ c.t = Unchecked!Time(s, c.block)

\* Each block has a time.
LEMMA UncheckedTimes ==
    ASSUME NEW s, UncheckedLinked(s)
    PROVE  Unchecked!BlockNumber(s) \in Nat /\ \A n \in 0 .. Unchecked!BlockNumber(s) : Unchecked!Time(s, n) \in Nat
<1>1. Len(s.times) \in Nat /\ \A k \in 1 .. Len(s.times) : s.times[k] \in Nat
  BY InSeq DEF UncheckedLinked
<1>2. QED
  BY <1>1 DEF UncheckedLinked, Unchecked!BlockNumber, Unchecked!Time

\* The block the search of FindVisibleBlock finds is one of the chain, and it
\* finds one for every time the chain has come to.
LEMMA VisibleFound ==
    ASSUME NEW x, x.depth \in Nat \ {0}, NEW s, UncheckedLinked(s), NEW time \in Nat,
           NEW n, n = Unchecked!FindVisibleBlock(x, s, time)
    PROVE  /\ n # Unchecked!NoIndex => n \in 0 .. Unchecked!BlockNumber(s)
           /\ time >= Unchecked!Time(s, 0) => n \in 0 .. Unchecked!BlockNumber(s)
<1> DEFINE last == Unchecked!BlockNumber(s)
           E == (0 .. last) \X (0 .. last)
           D == (0 .. last) \X (1 .. 2 * (x.depth + last))
           O == {w \in E : w[1] <= w[2]}
           range == CHOOSE range : range = [w \in (0 .. last) \X (1 .. 2 * (x.depth + last)) |->
                LET i == IF w[1] > w[2] THEN w[1] - w[2] ELSE 0
                IN CASE time >= Unchecked!Time(s, i) -> <<i, w[1]>>
                     [] time < Unchecked!Time(s, i) /\ i = 0 -> << >>
                     [] OTHER -> range[<<i, 2 * w[2]>>]]
           find == CHOOSE find : find = [w \in {w \in (0 .. last) \X (0 .. last) : w[1] <= w[2]} |->
                LET c == (w[1] + w[2]) \div 2
                IN CASE w[1] = w[2] -> w[2]
                     [] w[1] # w[2] /\ c = w[1] -> IF time > Unchecked!Time(s, c) THEN w[2] ELSE c
                     [] w[1] # w[2] /\ c # w[1] /\ time > Unchecked!Time(s, c) -> find[<<c, w[2]>>]
                     [] OTHER -> find[<<w[1], c>>]]
           found == range[<<last, x.depth>>]
<1>1. n = IF time >= Unchecked!Time(s, last) THEN last
          ELSE IF found = << >> THEN Unchecked!NoIndex ELSE find[found]
  BY Zenon DEF Unchecked!FindVisibleBlock
<1>2. last \in Nat /\ \A k \in 0 .. last : Unchecked!Time(s, k) \in Nat
  BY UncheckedTimes
<1> HIDE DEF last
<1>3. Pairs(D, 0 .. last, 1 .. 2 * (x.depth + last)) /\ Pairs(E, 0 .. last, 0 .. last)
  BY PairOf
<1>4. found \in {<< >>} \cup O /\ (time >= Unchecked!Time(s, 0) => found \in O)
  <2> DEFINE Body(f, w) == LET i == IF w[1] > w[2] THEN w[1] - w[2] ELSE 0
                IN CASE time >= Unchecked!Time(s, i) -> <<i, w[1]>>
                     [] time < Unchecked!Time(s, i) /\ i = 0 -> << >>
                     [] OTHER -> f[<<i, 2 * w[2]>>]
             back(w) == IF w[1] > w[2] THEN w[1] - w[2] ELSE 0
             P == IF time >= Unchecked!Time(s, 0) THEN O ELSE {<< >>} \cup O
             stop == {w \in D : time >= Unchecked!Time(s, back(w)) \/ back(w) = 0}
             val == [w \in D |-> IF time >= Unchecked!Time(s, back(w)) THEN <<back(w), w[1]>> ELSE << >>]
             next == [w \in D |-> <<back(w), 2 * w[2]>>]
             rank == [w \in D |-> w[1]]
  <2>1. ASSUME NEW w \in D
        PROVE  /\ w[1] \in 0 .. last /\ w[2] \in 1 .. 2 * (x.depth + last) /\ back(w) \in 0 .. last /\ back(w) <= w[1]
               /\ back(w) # 0 => 2 * w[2] \in 1 .. 2 * (x.depth + last) /\ back(w) < w[1]
    <3>1. w[1] \in 0 .. last /\ w[2] \in 1 .. 2 * (x.depth + last)
      BY <1>3 DEF Pairs
    <3>2. QED
      BY <1>2, <3>1
  <2> HIDE DEF D, E
  <2>2. ASSUME NEW w \in D, NEW f PROVE Body(f, w) = IF w \in stop THEN val[w] ELSE f[next[w]]
    BY <1>2, <2>1
  <2>3. \A w \in D : <<back(w), w[1]>> \in O
    <3> SUFFICES ASSUME NEW w \in D PROVE <<back(w), w[1]>> \in O
      OBVIOUS
    <3>1. PICK v \in E : v = <<back(w), w[1]>> /\ v[1] = back(w) /\ v[2] = w[1]
      BY <1>3, <2>1 DEF Pairs
    <3>2. QED
      BY <2>1, <3>1
  <2>4. ASSUME NEW w \in D, back(w) # 0 PROVE <<back(w), 2 * w[2]>> \in D /\ rank[<<back(w), 2 * w[2]>>] < rank[w]
    <3>1. PICK v \in D : v = <<back(w), 2 * w[2]>> /\ v[1] = back(w)
      BY <1>3, <2>1, <2>4 DEF Pairs
    <3>2. rank[v] = v[1] /\ rank[w] = w[1]
      OBVIOUS
    <3>3. QED
      BY <2>1, <2>4, <3>1, <3>2
  <2>5. rank \in [D -> 0 .. last]
    BY <2>1
  <2> HIDE DEF rank
  <2>6. ASSUME NEW w \in D
        PROVE  IF w \in stop THEN val[w] \in P ELSE next[w] \in D /\ rank[next[w]] < rank[w]
    <3> HIDE DEF back, O
    <3>1. QED
      BY <2>3, <2>4
  <2> HIDE DEF stop, val, next, Body, P
  <2>7. Loop(D, P, last, rank, stop, next, val)
    BY <1>2, <2>5, <2>6 DEF Loop
  <2>8. PICK f \in [D -> P] : Looped(f, D, stop, next, val)
    <3>1. P # {}
      <4>1. last \in 0 .. last /\ 1 \in 1 .. 2 * (x.depth + last)
        BY <1>2
      <4>2. PICK w \in D : w[1] = last /\ w[2] = 1
        BY <1>3, <4>1 DEF Pairs
      <4>3. O # {}
        BY <2>3
      <4>4. QED
        BY <4>3 DEF P
    <3>2. QED
      BY <2>7, <3>1, LoopIs
  <2>9. f = [w \in D |-> Body(f, w)]
    <3>1. \A w \in D : f[w] = Body(f, w)
      BY <2>2, <2>8, Zenon DEF Looped
    <3>2. QED
      BY <2>8, <3>1
  <2>10. range = [w \in D |-> Body(range, w)]
    BY <2>9, Zenon DEF Body, D
  <2> HIDE DEF range
  <2>11. Looped(range, D, stop, next, val)
    BY <2>2, <2>10 DEF Looped
  <2>12. \A w \in D : range[w] \in P
    BY <2>7, <2>11, LoopEnds
  <2>13. PICK w \in D : w = <<last, x.depth>>
    <3>1. x.depth \in 1 .. 2 * (x.depth + last) /\ last \in 0 .. last
      BY <1>2
    <3>2. QED
      BY <1>3, <3>1 DEF Pairs
  <2>14. found \in P
    BY <2>12, <2>13
  <2>15. QED
    BY <2>14 DEF P
<1>7. \A w \in O : w # << >>
  <2>1. \A w \in E : w = <<w[1], w[2]>>
    OBVIOUS
  <2>2. \A p, q : <<p, q>> # << >>
    OBVIOUS
  <2>3. QED
    BY <2>1, <2>2
<1> HIDE DEF found
<1>5. \A w \in O : find[w] \in 0 .. last
  <2> DEFINE Body(f, w) == LET c == (w[1] + w[2]) \div 2
                IN CASE w[1] = w[2] -> w[2]
                     [] w[1] # w[2] /\ c = w[1] -> IF time > Unchecked!Time(s, c) THEN w[2] ELSE c
                     [] w[1] # w[2] /\ c # w[1] /\ time > Unchecked!Time(s, c) -> f[<<c, w[2]>>]
                     [] OTHER -> f[<<w[1], c>>]
             mid(w) == (w[1] + w[2]) \div 2
             P == 0 .. last
             stop == {w \in O : w[1] = w[2] \/ mid(w) = w[1]}
             val == [w \in O |-> IF w[1] = w[2] \/ time > Unchecked!Time(s, mid(w)) THEN w[2] ELSE mid(w)]
             next == [w \in O |-> IF time > Unchecked!Time(s, mid(w)) THEN <<mid(w), w[2]>> ELSE <<w[1], mid(w)>>]
             rank == [w \in O |-> w[2] - w[1]]
  <2>1. ASSUME NEW w \in O
        PROVE  /\ w[1] \in 0 .. last /\ w[2] \in 0 .. last /\ w[1] <= w[2]
               /\ w[1] # w[2] => mid(w) \in 0 .. last /\ w[1] <= mid(w) /\ mid(w) < w[2]
    <3>1. w[1] \in 0 .. last /\ w[2] \in 0 .. last /\ w[1] <= w[2]
      BY <1>3 DEF Pairs
    <3>2. CASE w[1] = w[2]
      BY <3>1, <3>2
    <3>3. CASE w[1] # w[2]
      <4>1. w[1] < w[2]
        BY <1>2, <3>1, <3>3
      <4>2. QED
        BY <1>2, <3>1, <4>1, Middle
    <3>4. QED
      BY <3>2, <3>3
  <2>2. \A p, q \in 0 .. last : p <= q => \E v \in O : v = <<p, q>> /\ v[1] = p /\ v[2] = q
    <3> SUFFICES ASSUME NEW p \in 0 .. last, NEW q \in 0 .. last, p <= q
                 PROVE  \E v \in O : v = <<p, q>> /\ v[1] = p /\ v[2] = q
      OBVIOUS
    <3>1. PICK v \in E : v = <<p, q>> /\ v[1] = p /\ v[2] = q
      BY <1>3 DEF Pairs
    <3>2. QED
      BY <3>1
  <2> HIDE DEF O
  <2>3. ASSUME NEW w \in O, NEW f PROVE Body(f, w) = IF w \in stop THEN val[w] ELSE f[next[w]]
    BY <1>2, <2>1
  <2>4. rank \in [O -> 0 .. last]
    <3>1. \A w \in O : w[2] - w[1] \in 0 .. last
      BY <1>2, <2>1
    <3>2. QED
      BY <3>1
  <2>5. \A w \in O : rank[w] = w[2] - w[1]
    OBVIOUS
  <2> HIDE DEF rank
  <2>6. ASSUME NEW w \in O, w \notin stop
        PROVE  /\ <<mid(w), w[2]>> \in O /\ rank[<<mid(w), w[2]>>] < rank[w]
               /\ <<w[1], mid(w)>> \in O /\ rank[<<w[1], mid(w)>>] < rank[w]
    <3> DEFINE c == mid(w)
    <3>1. /\ w[1] \in 0 .. last /\ w[2] \in 0 .. last /\ c \in 0 .. last /\ w[1] < c /\ c < w[2]
      BY <1>2, <2>1, <2>6
    <3> HIDE DEF c, mid
    <3>2. PICK u \in O : u = <<c, w[2]>> /\ u[1] = c /\ u[2] = w[2]
      BY <1>2, <2>2, <3>1
    <3>3. PICK v \in O : v = <<w[1], c>> /\ v[1] = w[1] /\ v[2] = c
      BY <1>2, <2>2, <3>1
    <3>4. rank[u] < rank[w] /\ rank[v] < rank[w]
      BY <1>2, <2>5, <3>1, <3>2, <3>3
    <3>5. QED
      BY <3>2, <3>3, <3>4 DEF c
  <2>7. ASSUME NEW w \in O
        PROVE  IF w \in stop THEN val[w] \in P ELSE next[w] \in O /\ rank[next[w]] < rank[w]
    <3>1. w \in stop => w[2] \in P /\ (w[1] # w[2] => mid(w) \in P)
      BY <2>1
    <3> HIDE DEF mid, P
    <3>2. QED
      BY <2>6, <3>1
  <2> HIDE DEF stop, val, next, Body, P
  <2>8. Loop(O, P, last, rank, stop, next, val)
    BY <1>2, <2>4, <2>7 DEF Loop
  <2>9. PICK f \in [O -> P] : Looped(f, O, stop, next, val)
    <3>1. P # {}
      <4>1. last \in 0 .. last
        BY <1>2
      <4>2. QED
        BY ONLY <4>1 DEF P
    <3>2. QED
      BY <2>8, <3>1, LoopIs
  <2>10. f = [w \in O |-> Body(f, w)]
    BY <2>3, <2>9 DEF Looped
  <2>11. find = [w \in O |-> Body(find, w)]
    BY <2>10, Zenon DEF Body, O, E
  <2> HIDE DEF find
  <2>12. Looped(find, O, stop, next, val)
    BY <2>3, <2>11 DEF Looped
  <2>13. \A w \in O : find[w] \in P
    BY <2>8, <2>12, LoopEnds
  <2>14. QED
    BY <2>13 DEF P
<1> HIDE DEF find, O
<1>6. n # Unchecked!NoIndex => n \in 0 .. last
  BY <1>1, <1>2, <1>4, <1>5
<1>8. ASSUME time >= Unchecked!Time(s, 0) PROVE n \in 0 .. last
  BY <1>1, <1>2, <1>4, <1>5, <1>7, <1>8
<1>9. QED
  BY <1>6, <1>8 DEF last

\* Aligning goes down, and not below zero.
LEMMA AlignDown ==
    ASSUME NEW n \in Nat, NEW step \in Nat \ {0}
    PROVE  Unchecked!Align(n, step) \in 0 .. n /\ Self!Align(n, step) \in Nat /\ Reverse!Align(n, step) \in Nat
<1>1. n % step \in 0 .. n
  BY DEF Unchecked!Align
<1>2. QED
  BY <1>1 DEF Unchecked!Align, Self!Align, Reverse!Align

\* A commit stays one as the chain grows.
LEMMA UncheckedStays ==
    ASSUME NEW x, NEW s, UncheckedOK(s), UncheckedLinked(s), NEW t \in Unchecked!Moves(x, s)
    PROVE  UncheckedLinked(t) /\ \A c : UncheckedRests(s, c) => UncheckedRests(t, c)
<1>1. t = [s EXCEPT !.times = Append(@, s.now)] /\ s.now \in Nat /\ s = [now |-> s.now, times |-> s.times]
  BY DEF Unchecked!Moves, UncheckedOK
<1>2. t.times = Append(s.times, s.now)
  BY <1>1
<1>3. Len(s.times) \in Nat /\ DOMAIN s.times = 1 .. Len(s.times)
  BY InSeq DEF UncheckedLinked
<1>4. t.times \in Seq(Nat) /\ Len(t.times) = Len(s.times) + 1 /\ \A k \in 1 .. Len(s.times) : t.times[k] = s.times[k]
  BY <1>1, <1>2, <1>3, OneMore DEF UncheckedLinked
<1>5. \A n \in 0 .. Unchecked!BlockNumber(s) : n \in 0 .. Unchecked!BlockNumber(t) /\ Unchecked!Time(t, n) = Unchecked!Time(s, n)
  BY <1>3, <1>4 DEF Unchecked!BlockNumber, Unchecked!Time
<1>6. QED
  BY <1>3, <1>4, <1>5 DEF UncheckedLinked, UncheckedRests

\* It is accepted, or too old, unless its block is later than its index.
LEMMA UncheckedServed ==
    ASSUME NEW x, x.window \in Nat, NEW s, UncheckedLinked(s), NEW a, NEW c, UncheckedRests(s, c),
           NEW d \in Nat, c.index <= d
    PROVE  \/ Unchecked!GetStorageValues(x, s, d, Unchecked!EncodeWitness(c)) \in Honest
           \/ Unchecked!Spoiled(x, a, s, d, c)
<1>1. c.t \in Nat /\ c.index \in Nat
  BY UncheckedTimes DEF UncheckedRests
<1>2. QED
  BY <1>1 DEF Unchecked!GetStorageValues, Unchecked!EncodeWitness, Unchecked!CheckWindow, Unchecked!Spoiled, Honest

-----------------------------------------------------------------------------
(* OPOutputs.tla: what is served.                                          *)

\* A commit has the root of its output.
OutputsRests(c) == c.index \in Nat /\ c.root = Outputs!Root(c.output.root.block, TRUE)

\* It is accepted, or too old, while its output is valid and the one of the
\* context is not replaced.
LEMMA OutputsServed ==
    ASSUME NEW x, x.window \in Nat, x.minAge \in Nat, x.finalization \in Nat, NEW a, OutputsOK(a),
           NEW s, OutputsOK(s), NEW c, OutputsRests(c),
           NEW d, d = Outputs!GetLatestContext(x, a), d # Outputs!NoIndex, c.index <= d
    PROVE  \/ Outputs!GetStorageValues(x, s, d, Outputs!EncodeWitness(c)) \in Honest
           \/ Outputs!Spoiled(x, a, s, d, c)
<1> SUFFICES ASSUME ~Outputs!Spoiled(x, a, s, d, c)
             PROVE  Outputs!GetStorageValues(x, s, d, Outputs!EncodeWitness(c)) \in Honest
  OBVIOUS
<1>1. d \in Nat
  <2>1. d \in 0 .. Len(a.outputs) - 1 /\ Len(a.outputs) \in Nat
    BY OutputFound, OutputsTyped DEF Outputs!GetLatestContext
  <2>2. QED
    BY <2>1
<1>2. /\ c.output.root.right /\ c.index < Len(s.outputs) /\ s.outputs[c.index + 1].root = c.output.root
      /\ d < Len(s.outputs)
  BY DEF Outputs!Spoiled, Outputs!IsCommitStillValid, Outputs!Replaced, Outputs!HasOutput, Outputs!NextOutputIndex,
         Outputs!OutputAt
<1>3. PICK i, j : i = c.index + 1 /\ j = d + 1
  OBVIOUS
<1>4. i \in DOMAIN s.outputs /\ j \in DOMAIN s.outputs /\ i <= j
  BY <1>1, <1>2, <1>3, OutputsTyped DEF OutputsRests
<1>5. s.outputs[i].time \in Nat /\ s.outputs[j].time \in Nat /\ s.outputs[i].time <= s.outputs[j].time
  BY <1>4, OutputsTyped DEF OutputsOK
<1>6. s.outputs[i].root \in [block : Nat, right : BOOLEAN]
  BY <1>4, OutputsTyped
<1>7. s.outputs[i].root = c.root
  BY <1>2, <1>3, <1>6 DEF OutputsRests, Outputs!Root
<1>8. Outputs!CheckWindow(x, s.outputs[j].time, s.outputs[i].time) \in Honest
  BY <1>5 DEF Outputs!CheckWindow, Honest
<1>9. /\ Outputs!HasOutput(s, c.index) /\ Outputs!HasOutput(s, d)
      /\ Outputs!OutputAt(s, c.index) = s.outputs[i] /\ Outputs!OutputAt(s, d) = s.outputs[j]
  BY <1>2, <1>3 DEF Outputs!HasOutput, Outputs!NextOutputIndex, Outputs!OutputAt
<1>10. QED
  BY <1>7, <1>8, <1>9 DEF Outputs!GetStorageValues, Outputs!EncodeWitness, Honest

-----------------------------------------------------------------------------
(* OPGames.tla: what is served.                                            *)

\* A root is one of a block, right or not.
RootShape(g) == g.root = Games!Root(g.root.block, g.root.right) /\ g.root.right \in BOOLEAN

\* Games are made in the order of their times.
GamesLinked(s) ==
    \A i \in Games!Games(s) :
        /\ Games!GameOf(s, i).created <= s.now /\ RootShape(Games!GameOf(s, i))
        /\ \A j \in Games!Games(s) : i <= j => Games!GameOf(s, i).created <= Games!GameOf(s, j).created

\* What a chain that goes on keeps of its games: all but how they end.
GamesSame(s, t) ==
    \A i \in Games!Games(s) : i \in Games!Games(t) /\ Games!GameOf(t, i).root = Games!GameOf(s, i).root
                                /\ Games!GameOf(t, i).created = Games!GameOf(s, i).created

\* Making and resolving games keep both.
LEMMA GamesLinks ==
    ASSUME NEW x, \A k \in x.creations : k.right \in BOOLEAN,
           NEW s, GamesOK(s), GamesLinked(s), NEW t \in Games!Moves(x, s)
    PROVE  GamesLinked(t) /\ GamesSame(s, t)
<1>0. /\ GamesTyped(s) /\ s.now \in Nat /\ Len(s.games) \in Nat /\ Games!Games(s) = 0 .. Len(s.games) - 1
      /\ DOMAIN s.games = 1 .. Len(s.games)
      /\ \A i \in Games!Games(s) : i \in Nat /\ i + 1 \in DOMAIN s.games
      /\ s = [now |-> s.now, respected |-> s.respected, games |-> s.games]
  BY GamesAre DEF GamesOK, GamesTyped
<1>1. CASE \E g \in Games!Created(x, s) : t = [s EXCEPT !.games = Append(@, g)]
  <2>1. PICK g \in Games!Created(x, s) : t = [s EXCEPT !.games = Append(@, g)]
    BY <1>1
  <2>2. PICK k \in x.creations : \E parent :
            g = [kind |-> k.type, proposer |-> k.proposer, parent |-> parent,
                 root |-> Games!Root(Len(s.games) + 1, k.right), created |-> s.now,
                 claims |-> "unchallenged", status |-> Games!InProgress, resolved |-> 0,
                 proper |-> TRUE, wasRespected |-> k.type = s.respected]
    BY DEF Games!Created
  <2>3. g.created = s.now /\ RootShape(g)
    BY <2>2 DEF RootShape, Games!Root
  <2>4. PICK S : s.games \in Seq(S)
    BY <1>0 DEF GamesTyped
  <2> DEFINE T == S \cup {g}
  <2>5. s.games \in Seq(T) /\ g \in T
    <3>1. S \subseteq T /\ g \in T
      OBVIOUS
    <3> HIDE DEF T
    <3>2. QED
      BY <2>4, <3>1
  <2> HIDE DEF T
  <2>6. t.games = Append(s.games, g) /\ t.now = s.now
    BY <1>0, <2>1
  <2>7. /\ Len(t.games) = Len(s.games) + 1 /\ t.games[Len(s.games) + 1] = g
        /\ \A i \in DOMAIN s.games : t.games[i] = s.games[i]
    BY <2>5, <2>6, OneMore
  <2>8. Games!Games(t) = 0 .. Len(s.games)
    BY <1>0, <2>7 DEF Games!Games
  <2>9. /\ \A i \in Games!Games(s) : i \in Games!Games(t) /\ Games!GameOf(t, i) = Games!GameOf(s, i)
        /\ Games!GameOf(t, Len(s.games)) = g
        /\ \A i \in Games!Games(t) : i \in Games!Games(s) \/ i = Len(s.games)
    BY <1>0, <2>7, <2>8 DEF Games!GameOf
  <2>10. GamesSame(s, t)
    BY <2>9 DEF GamesSame
  <2>11. ASSUME NEW i \in Games!Games(t), NEW j \in Games!Games(t), i <= j
         PROVE  Games!GameOf(t, i).created <= Games!GameOf(t, j).created
    <3>1. CASE j \in Games!Games(s)
      <4>1. i \in Games!Games(s)
        BY <1>0, <2>8, <2>9, <2>11, <3>1
      <4>2. QED
        BY <2>9, <2>11, <3>1, <4>1 DEF GamesLinked
    <3>2. CASE j = Len(s.games)
      <4>1. Games!GameOf(t, j).created = s.now
        BY <2>3, <2>9, <3>2
      <4>2. Games!GameOf(t, i).created <= s.now
        BY <1>0, <2>3, <2>9 DEF GamesLinked
      <4>3. QED
        BY <4>1, <4>2
    <3>3. QED
      BY <2>9, <3>1, <3>2
  <2>12. \A i \in Games!Games(t) : Games!GameOf(t, i).created <= t.now /\ RootShape(Games!GameOf(t, i))
    BY <1>0, <2>3, <2>6, <2>9 DEF GamesLinked
  <2>13. QED
    BY <2>10, <2>11, <2>12 DEF GamesLinked
<1>2. ASSUME NEW i \in Games!Games(s), NEW g, t = Games!Changed(s, i, g),
             g.root = Games!GameOf(s, i).root, g.created = Games!GameOf(s, i).created
      PROVE  GamesLinked(t) /\ GamesSame(s, t)
  <2>1. t.games = [s.games EXCEPT ![i + 1] = g] /\ t.now = s.now
    BY <1>0, <1>2 DEF Games!Changed
  <2>2. Len(t.games) = Len(s.games)
    BY <1>0, <2>1
  <2>3. Games!Games(t) = Games!Games(s)
    BY <2>2 DEF Games!Games
  <2>4. \A j \in Games!Games(s) : Games!GameOf(t, j) = IF j = i THEN g ELSE Games!GameOf(s, j)
    BY <1>0, <2>1 DEF Games!GameOf
  <2>5. \A j \in Games!Games(s) : Games!GameOf(t, j).root = Games!GameOf(s, j).root
                                    /\ Games!GameOf(t, j).created = Games!GameOf(s, j).created
    BY <1>2, <2>4
  <2>6. QED
    BY <2>1, <2>3, <2>5 DEF GamesLinked, GamesSame, RootShape
<1>3. ASSUME NEW i \in Games!Games(s), NEW w, NEW g,
             \/ g = Games!Challenged(Games!GameOf(s, i))
             \/ g = Games!Resolved(s, Games!GameOf(s, i), w)
             \/ g = Games!Blacklisted(Games!GameOf(s, i))
      PROVE  g.root = Games!GameOf(s, i).root /\ g.created = Games!GameOf(s, i).created
  <2> DEFINE old == Games!GameOf(s, i)
  <2>1. GameShape(old)
    BY DEF GamesOK, GameGood
  <2> HIDE DEF old
  <2>2. \/ g = Games!Challenged(old) \/ g = Games!Resolved(s, old, w) \/ g = Games!Blacklisted(old)
    BY <1>3 DEF old
  <2> DEFINE Ended(claims, status, at, proper) ==
                [kind |-> old.kind, proposer |-> old.proposer, parent |-> old.parent, root |-> old.root,
                 created |-> old.created, claims |-> claims, status |-> status, resolved |-> at,
                 proper |-> proper, wasRespected |-> old.wasRespected]
  <2>3. old = Ended(old.claims, old.status, old.resolved, old.proper)
    BY <2>1 DEF GameShape
  <2>4. CASE g = Games!Challenged(old)
    <3>1. g = [old EXCEPT !.claims = "challenged"]
      BY <2>4 DEF Games!Challenged
    <3>2. QED
      BY <2>3, <3>1 DEF old
  <2>5. CASE g = Games!Resolved(s, old, w)
    <3>1. PICK claims : g = [old EXCEPT !.status = w, !.resolved = s.now, !.claims = claims]
      BY <2>5, Zenon DEF Games!Resolved
    <3>2. QED
      BY <2>3, <3>1 DEF old
  <2>6. CASE g = Games!Blacklisted(old)
    <3>1. g = [Ended(old.claims, old.status, old.resolved, old.proper) EXCEPT !.proper = FALSE]
      <4> HIDE DEF Ended
      <4>1. QED
        BY <2>3, <2>6 DEF Games!Blacklisted
    <3>2. QED
      BY <3>1 DEF old
  <2>7. QED
    BY <2>2, <2>4, <2>5, <2>6
<1>4. ASSUME NEW i \in Games!Games(s), NEW w, NEW g, t = Games!Changed(s, i, g),
             \/ g = Games!Challenged(Games!GameOf(s, i))
             \/ g = Games!Resolved(s, Games!GameOf(s, i), w)
             \/ g = Games!Blacklisted(Games!GameOf(s, i))
      PROVE  GamesLinked(t) /\ GamesSame(s, t)
  <2>1. g.root = Games!GameOf(s, i).root /\ g.created = Games!GameOf(s, i).created
    BY <1>3, <1>4
  <2>2. QED
    BY <1>2, <1>4, <2>1
<1>5. CASE \E type : t = [s EXCEPT !.respected = type]
  <2>1. t.games = s.games /\ t.now = s.now
    BY <1>0, <1>5
  <2>2. Games!Games(t) = Games!Games(s) /\ \A i : Games!GameOf(t, i) = Games!GameOf(s, i)
    BY <2>1 DEF Games!Games, Games!GameOf
  <2>3. QED
    BY <2>1, <2>2 DEF GamesLinked, GamesSame
<1>6. QED
  <2>1. \/ t \in {[s EXCEPT !.games = Append(@, g)] :
                    g \in {g \in Games!Created(x, s) : Len(s.games) < x.max
                            /\ (g.kind = "fault" => g.parent = Games!Anchor)}}
        \/ t \in {Games!Changed(s, i, Games!Challenged(Games!GameOf(s, i))) :
                    i \in {i \in Games!Games(s) : Games!GameOf(s, i).status = Games!InProgress}}
        \/ t \in UNION {{Games!Changed(s, i, Games!Resolved(s, Games!GameOf(s, i), w)) :
                            w \in Games!Outcomes(x, s, Games!GameOf(s, i))} : i \in Games!Games(s)}
        \/ t \in {Games!Changed(s, i, Games!Blacklisted(Games!GameOf(s, i))) :
                    i \in IF x.blacklists THEN Games!Games(s) ELSE {}}
        \/ t \in {[s EXCEPT !.respected = type] : type \in x.respectable}
    BY DEF Games!Moves
  <2>2. CASE \E g \in Games!Created(x, s) : t = [s EXCEPT !.games = Append(@, g)]
    BY <1>1, <2>2
  <2>3. CASE \E i \in Games!Games(s) : t = Games!Changed(s, i, Games!Challenged(Games!GameOf(s, i)))
    <3>1. PICK i \in Games!Games(s) : t = Games!Changed(s, i, Games!Challenged(Games!GameOf(s, i)))
      BY <2>3
    <3>2. QED
      BY <1>4, <3>1
  <2>4. CASE \E i \in Games!Games(s) : \E w : t = Games!Changed(s, i, Games!Resolved(s, Games!GameOf(s, i), w))
    <3>1. PICK i \in Games!Games(s) :
                \E w : t = Games!Changed(s, i, Games!Resolved(s, Games!GameOf(s, i), w))
      BY <2>4
    <3>2. PICK w : t = Games!Changed(s, i, Games!Resolved(s, Games!GameOf(s, i), w))
      BY <3>1
    <3>3. QED
      BY <1>4, <3>2
  <2>5. CASE \E i \in Games!Games(s) : t = Games!Changed(s, i, Games!Blacklisted(Games!GameOf(s, i)))
    <3>1. PICK i \in Games!Games(s) : t = Games!Changed(s, i, Games!Blacklisted(Games!GameOf(s, i)))
      BY <2>5
    <3>2. QED
      BY <1>4, <3>1
  <2>6. CASE \E type : t = [s EXCEPT !.respected = type]
    BY <1>5, <2>6
  <2>7. \A i : i \in (IF x.blacklists THEN Games!Games(s) ELSE {}) => i \in Games!Games(s)
    OBVIOUS
  <2>8. QED
    BY <2>1, <2>2, <2>3, <2>4, <2>5, <2>6, <2>7

\* So does time.
LEMMA GamesLinksTick ==
    ASSUME NEW s, GamesOK(s), GamesLinked(s), NEW t, t = [s EXCEPT !.now = @ + 1]
    PROVE  GamesLinked(t) /\ GamesSame(s, t)
<1>1. t.games = s.games /\ t.now = s.now + 1 /\ s.now \in Nat
  BY DEF GamesOK, GamesTyped
<1>2. Games!Games(t) = Games!Games(s) /\ \A i : Games!GameOf(t, i) = Games!GameOf(s, i)
  BY <1>1 DEF Games!Games, Games!GameOf
<1>3. \A i \in Games!Games(s) : Games!GameOf(s, i).created \in Nat
  BY DEF GamesOK, GameGood
<1>4. QED
  BY <1>1, <1>2, <1>3 DEF GamesLinked, GamesSame

\* A commit is of a game with a right root, the one of its commit.
GamesRests(s, c) ==
    /\ c.index \in Games!Games(s) /\ c.root = Games!Root(c.game.root.block, TRUE)
    /\ Games!GameOf(s, c.index).root = c.game.root

\* The commit the gateway makes of a game is.
LEMMA GamesFetched ==
    ASSUME NEW x, NEW s, NEW i, NEW c, c = Games!FetchCommit(x, s, i), c # Games!NoCommit
    PROVE  GamesRests(s, c)
  BY DEF Games!FetchCommit, GamesRests

\* It is accepted, or too old, while its game is valid and the one of the
\* context is usable; of resolved games, unless the one of the context was
\* resolved first.
LEMMA GamesServed ==
    ASSUME NEW x, x.window \in Nat, x.minAge \in Nat, NEW a, NEW s, GamesOK(s), GamesLinked(s),
           NEW c, GamesRests(s, c), NEW d \in Games!Games(s), c.index <= d
    PROVE  \/ Games!GetStorageValues(x, s, d, Games!EncodeWitness(c)) \in Honest
           \/ Games!Spoiled(x, a, s, d, c)
<1> SUFFICES ASSUME ~Games!Spoiled(x, a, s, d, c)
             PROVE  Games!GetStorageValues(x, s, d, Games!EncodeWitness(c)) \in Honest
  OBVIOUS
<1> DEFINE i == c.index
           g(j) == Games!GameOf(s, j)
           time(j) == Games!GameTime(x, g(j))
<1>1. /\ c.game.root.right /\ Games!IsGameUsable(x, s, i)
      /\ x.minAge = 0 => ~(g(d).resolved < g(i).resolved)
  BY DEF Games!Spoiled, Games!IsCommitStillValid, Games!Unfinalized
<1>2. i \in Games!Games(s) /\ g(i).root = c.game.root /\ c.root = Games!Root(c.game.root.block, TRUE)
  BY DEF GamesRests
<1>3. g(i).root = c.root
  BY <1>1, <1>2 DEF GamesLinked, RootShape
<1>4. /\ g(i).created \in Nat /\ g(d).created \in Nat /\ g(i).resolved \in Nat /\ g(d).resolved \in Nat
      /\ g(i).created <= g(d).created
  BY <1>2 DEF GamesOK, GameGood, GamesLinked
<1>5. time(i) \in Nat /\ time(d) \in Nat /\ time(i) <= time(d)
  <2> HIDE DEF g
  <2>1. QED
    BY <1>1, <1>4 DEF Games!GameTime
<1>6. Games!CheckWindow(x, time(d), time(i)) \in Honest
  <2> HIDE DEF time
  <2>1. QED
    BY <1>5 DEF Games!CheckWindow, Honest
<1>7. QED
  BY <1>1, <1>2, <1>3, <1>6 DEF Games!GetStorageValues, Games!EncodeWitness, Honest

-----------------------------------------------------------------------------
(* NitroNodes.tla: what is served.                                         *)

\* A node is confirmed.
NitroStands(s, n) == Nitro!NodeAt(s, n).state = "confirmed"

\* Nodes are made in the order of their times, what is confirmed is at or
\* before the last confirmed node and what is pending after it, and no
\* confirmed node lies between a confirmed one and the one it was made on.
NitroLinked(s) ==
    /\ \A n, m \in Nitro!Nodes(s) : n <= m => Nitro!NodeAt(s, n).made <= Nitro!NodeAt(s, m).made
    /\ \A n \in Nitro!Nodes(s) : NitroStands(s, n) => n <= s.confirmed
    /\ \A n, m \in Nitro!Nodes(s) : NitroStands(s, n) /\ NitroStands(s, m) /\ m < n => m <= Nitro!NodeAt(s, n).prev
    /\ \A n \in Nitro!Nodes(s) : Nitro!NodeAt(s, n).state = "pending" => s.confirmed < n

\* A new node keeps that.
LEMMA NitroLinksNew ==
    ASSUME NEW s, NitroOK(s), NitroLinked(s), NEW node \in NitroNode, node.made = s.now, node.state = "pending",
           NEW t, t = [s EXCEPT !.nodes = Append(@, node)]
    PROVE  NitroLinked(t)
<1>1. /\ t.confirmed = s.confirmed /\ Nitro!Nodes(t) = Nitro!Nodes(s) \cup {Len(s.nodes)}
      /\ Nitro!NodeAt(t, Len(s.nodes)) = node
      /\ \A n \in Nitro!Nodes(s) : Nitro!NodeAt(t, n) = Nitro!NodeAt(s, n)
  BY NitroAppended DEF NitroOK
<1>2. /\ Len(s.nodes) \in Nat /\ Nitro!Nodes(s) = 0 .. Len(s.nodes) - 1 /\ s.confirmed \in Nitro!Nodes(s)
      /\ \A n \in Nitro!Nodes(s) : Nitro!NodeAt(s, n).made <= s.now
      /\ s.now \in Nat
  BY NitroNodesTyped DEF NitroOK, NitroTyped
<1> DEFINE made(n) == Nitro!NodeAt(t, n).made
<1>7. /\ \A n \in Nitro!Nodes(t) : n \in Nitro!Nodes(s) \/ n = Len(s.nodes)
      /\ \A n \in Nitro!Nodes(s) : n \in Nat /\ n < Len(s.nodes)
  BY ONLY <1>1, <1>2
<1>8. made(Len(s.nodes)) = s.now /\ \A n \in Nitro!Nodes(t) : made(n) <= s.now
  BY ONLY <1>1, <1>2, <1>7, node.made = s.now
<1>3. ASSUME NEW n \in Nitro!Nodes(t), NEW m \in Nitro!Nodes(t), n <= m
      PROVE  made(n) <= made(m)
  <2>1. CASE m = Len(s.nodes)
    BY <1>8, <2>1
  <2>2. CASE m # Len(s.nodes)
    <3>1. m \in Nitro!Nodes(s) /\ n \in Nitro!Nodes(s)
      <4>1. m \in Nitro!Nodes(s) /\ m \in Nat /\ m < Len(s.nodes)
        BY ONLY <1>3, <1>7, <2>2
      <4>2. n = Len(s.nodes) => ~(n <= m)
        BY ONLY <1>2, <4>1
      <4>3. QED
        BY ONLY <1>3, <1>7, <4>1, <4>2
    <3>2. QED
      BY <1>1, <1>3, <3>1 DEF NitroLinked
  <2>3. QED
    BY <2>1, <2>2
<1>4. \A n \in Nitro!Nodes(t) : NitroStands(t, n) => n \in Nitro!Nodes(s) /\ NitroStands(s, n)
  BY <1>1 DEF NitroStands
<1>5. \A n \in Nitro!Nodes(t) : Nitro!NodeAt(t, n).state = "pending" => t.confirmed < n
  BY <1>1, <1>2, <1>7 DEF NitroLinked
<1>6. \A n, m \in Nitro!Nodes(t) :
            NitroStands(t, n) /\ NitroStands(t, m) /\ m < n => m <= Nitro!NodeAt(t, n).prev
  BY <1>1, <1>4 DEF NitroLinked
<1>9. \A n \in Nitro!Nodes(t) : NitroStands(t, n) => n <= t.confirmed
  BY <1>1, <1>4 DEF NitroLinked
<1>10. QED
  BY <1>3, <1>5, <1>6, <1>9 DEF NitroLinked

\* So does a change that leaves the state of a node as it is,
LEMMA NitroLinksSame ==
    ASSUME NEW s, NitroOK(s), NitroLinked(s), NEW n \in Nitro!Nodes(s), NEW node \in NitroNode,
           node.prev = Nitro!NodeAt(s, n).prev, node.made = Nitro!NodeAt(s, n).made,
           node.state = Nitro!NodeAt(s, n).state, NEW t, t = NitroWith(s, n, node, s.confirmed)
    PROVE  NitroLinked(t)
<1>1. /\ t.confirmed = s.confirmed /\ Nitro!Nodes(t) = Nitro!Nodes(s) /\ Nitro!NodeAt(t, n) = node
      /\ \A m \in Nitro!Nodes(s) : m # n => Nitro!NodeAt(t, m) = Nitro!NodeAt(s, m)
  BY NitroChanged DEF NitroOK
<1>2. \A m \in Nitro!Nodes(s) :
            /\ Nitro!NodeAt(t, m).prev = Nitro!NodeAt(s, m).prev
            /\ Nitro!NodeAt(t, m).made = Nitro!NodeAt(s, m).made
            /\ Nitro!NodeAt(t, m).state = Nitro!NodeAt(s, m).state
  BY <1>1
<1>3. QED
  BY <1>1, <1>2 DEF NitroLinked, NitroStands

\* and confirming or rejecting the first pending node.
LEMMA NitroLinksResolved ==
    ASSUME NEW s, NitroOK(s), NitroLinked(s), NEW n \in Nitro!Nodes(s), Nitro!NodeAt(s, n).state = "pending",
           \A m \in Nitro!Nodes(s) : Nitro!NodeAt(s, m).state = "pending" => n <= m,
           NEW node \in NitroNode, node.prev = Nitro!NodeAt(s, n).prev, node.made = Nitro!NodeAt(s, n).made,
           node.state # "pending", node.state = "confirmed" => node.prev = s.confirmed,
           NEW t, t = NitroWith(s, n, node, IF node.state = "confirmed" THEN n ELSE s.confirmed)
    PROVE  NitroLinked(t)
<1> DEFINE last == IF node.state = "confirmed" THEN n ELSE s.confirmed
<1>0. NitroTyped(s) /\ t = NitroWith(s, n, node, last)
  BY DEF NitroOK
<1> HIDE DEF last
<1>1. /\ t.confirmed = last /\ Nitro!Nodes(t) = Nitro!Nodes(s) /\ Nitro!NodeAt(t, n) = node
      /\ \A m \in Nitro!Nodes(s) : m # n => Nitro!NodeAt(t, m) = Nitro!NodeAt(s, m)
  BY <1>0, NitroChanged
<1>2. /\ s.confirmed \in Nat /\ s.confirmed < n /\ \A m \in Nitro!Nodes(s) : m \in Nat
      /\ \A m \in Nitro!Nodes(s) : Nitro!NodeAt(s, m).prev \in Nat
  BY NitroNodesTyped DEF NitroOK, NitroLinked, NitroNode
<1>3. \A m \in Nitro!Nodes(s) :
            /\ Nitro!NodeAt(t, m).prev = Nitro!NodeAt(s, m).prev
            /\ Nitro!NodeAt(t, m).made = Nitro!NodeAt(s, m).made
            /\ Nitro!NodeAt(t, m).state = "pending" => m # n /\ Nitro!NodeAt(s, m).state = "pending"
            /\ NitroStands(t, m) => NitroStands(s, m) \/ (m = n /\ node.state = "confirmed")
  BY <1>1 DEF NitroStands
<1>4. \A m \in Nitro!Nodes(s) : NitroStands(s, m) => m <= s.confirmed
  BY DEF NitroLinked
<1>5. last \in {s.confirmed, n} /\ (node.state = "confirmed" => last = n)
  BY DEF last
<1>6. \A m \in Nitro!Nodes(t) : NitroStands(t, m) => m <= t.confirmed
  BY <1>1, <1>2, <1>3, <1>4, <1>5
<1>7. \A m \in Nitro!Nodes(t) : Nitro!NodeAt(t, m).state = "pending" => t.confirmed < m
  BY <1>1, <1>2, <1>3, <1>5
<1>8. ASSUME NEW k \in Nitro!Nodes(t), NEW m \in Nitro!Nodes(t), NitroStands(t, k), NitroStands(t, m), m < k
      PROVE  m <= Nitro!NodeAt(t, k).prev
  <2>1. NitroStands(s, m)
    <3>1. m # n
      <4>1. k <= n
        BY <1>1, <1>2, <1>3, <1>4, <1>8
      <4>2. QED
        BY <1>1, <1>2, <1>8, <4>1
    <3>2. QED
      BY <1>1, <1>3, <1>8, <3>1
  <2>2. CASE NitroStands(s, k)
    BY <1>1, <1>3, <1>8, <2>1, <2>2 DEF NitroLinked
  <2>3. CASE k = n /\ node.state = "confirmed"
    BY <1>1, <1>4, <2>1, <2>3
  <2>4. QED
    BY <1>1, <1>3, <1>8, <2>2, <2>3
<1>9. QED
  BY <1>1, <1>3, <1>6, <1>7, <1>8 DEF NitroLinked

\* So does a move of the chain.
LEMMA NitroLinks ==
    ASSUME NEW x, NEW s, NitroOK(s), NitroLinked(s), NEW t \in Nitro!Moves(x, s)
    PROVE  NitroLinked(t)
<1> DEFINE pending == {n \in Nitro!Nodes(s) : Nitro!NodeAt(s, n).state = "pending"}
           first == {n \in pending : \A m \in pending : n <= m}
<1>0. /\ s = [now |-> s.now, confirmed |-> s.confirmed, nodes |-> s.nodes] /\ s.now \in Nat
      /\ s.confirmed \in Nitro!Nodes(s)
      /\ \A n \in Nitro!Nodes(s) : n \in Nat /\ Nitro!NodeAt(s, n) \in NitroNode /\ Nitro!NodeAt(s, n).made <= s.now
  BY NitroNodesTyped DEF NitroOK, NitroTyped
<1>1. ASSUME NEW p \in pending \cup {s.confirmed},
             t = [s EXCEPT !.nodes = Append(@, [prev |-> p, made |-> s.now, staked |-> TRUE, state |-> "pending"])]
      PROVE  NitroLinked(t)
  <2> DEFINE node == [prev |-> p, made |-> s.now, staked |-> TRUE, state |-> "pending"]
  <2>1. p \in Nat
    BY <1>0
  <2>2. s.now # 0
    <3>1. Nitro!NodeAt(s, s.confirmed).made \in Nat \ {0} /\ Nitro!NodeAt(s, s.confirmed).made <= s.now
      BY <1>0 DEF NitroNode
    <3>2. QED
      BY <1>0, <3>1
  <2>3. node \in NitroNode /\ node.made = s.now /\ node.state = "pending"
    BY <1>0, <2>1, <2>2 DEF NitroNode
  <2>4. t = [s EXCEPT !.nodes = Append(@, node)]
    BY <1>1
  <2> HIDE DEF node
  <2>5. QED
    BY <2>3, <2>4, NitroLinksNew
<1>2. ASSUME NEW n \in Nitro!Nodes(s), t = [s EXCEPT !.nodes[n + 1].staked = FALSE]
      PROVE  NitroLinked(t)
  <2> DEFINE node == [Nitro!NodeAt(s, n) EXCEPT !.staked = FALSE]
  <2>1. Nitro!NodeAt(s, n) \in NitroNode
    BY <1>0
  <2>2. /\ node \in NitroNode /\ node.prev = Nitro!NodeAt(s, n).prev /\ node.made = Nitro!NodeAt(s, n).made
        /\ node.state = Nitro!NodeAt(s, n).state
    BY <2>1 DEF NitroNode
  <2>3. t = NitroWith(s, n, node, s.confirmed)
    BY <1>0, <1>2 DEF Nitro!NodeAt, NitroWith
  <2> HIDE DEF node
  <2>4. QED
    BY <2>2, <2>3, NitroLinksSame
<1>3. ASSUME NEW n \in first, NEW state \in Nitro!Resolved(x, s, n),
             t = [s EXCEPT !.nodes[n + 1].state = state, !.confirmed = IF state = "confirmed" THEN n ELSE @]
      PROVE  NitroLinked(t)
  <2> DEFINE node == [Nitro!NodeAt(s, n) EXCEPT !.state = state]
  <2>1. /\ state \in {"confirmed", "destroyed"}
        /\ state = "confirmed" => Nitro!NodeAt(s, n).prev = s.confirmed
    BY <1>3 DEF Nitro!Resolved
  <2>2. /\ n \in Nitro!Nodes(s) /\ Nitro!NodeAt(s, n) \in NitroNode /\ Nitro!NodeAt(s, n).state = "pending"
        /\ \A m \in Nitro!Nodes(s) : Nitro!NodeAt(s, m).state = "pending" => n <= m
    BY <1>0
  <2>3. /\ node \in NitroNode /\ node.prev = Nitro!NodeAt(s, n).prev /\ node.made = Nitro!NodeAt(s, n).made
        /\ node.state = state
    BY <2>1, <2>2 DEF NitroNode
  <2>4. t = NitroWith(s, n, node, IF node.state = "confirmed" THEN n ELSE s.confirmed)
    BY <1>0, <1>3, <2>3 DEF Nitro!NodeAt, NitroWith
  <2> HIDE DEF node
  <2>5. node.state # "pending" /\ (node.state = "confirmed" => node.prev = s.confirmed)
    BY <2>1, <2>3
  <2>6. QED
    BY <2>2, <2>3, <2>4, <2>5, NitroLinksResolved
<1>4. QED
  <2> DEFINE After(n, state) == [s EXCEPT !.nodes[n + 1].state = state,
                                          !.confirmed = IF state = "confirmed" THEN n ELSE @]
  <2>1. \/ t \in {[s EXCEPT !.nodes = Append(@, [prev |-> p, made |-> s.now,
                                                staked |-> TRUE, state |-> "pending"])] :
                   p \in {p \in pending \cup {s.confirmed} : Len(s.nodes) < x.max}}
        \/ t \in {[s EXCEPT !.nodes[n + 1].staked = FALSE] : n \in {n \in Nitro!Nodes(s) : Nitro!Exists(s, n)}}
        \/ t \in UNION {{After(n, state) : state \in Nitro!Resolved(x, s, n)} : n \in first}
    BY DEF Nitro!Moves
  <2>2. CASE t \in UNION {{After(n, state) : state \in Nitro!Resolved(x, s, n)} : n \in first}
    <3>1. PICK n \in first : \E state \in Nitro!Resolved(x, s, n) : t = After(n, state)
      <4> HIDE DEF After, first
      <4>1. QED
        BY <2>2
    <3>2. PICK state \in Nitro!Resolved(x, s, n) : t = After(n, state)
      BY <3>1
    <3>3. QED
      BY <1>3, <3>2
  <2>3. QED
    BY <1>1, <1>2, <2>1, <2>2

\* Time keeps it too.
LEMMA NitroLinksTick ==
    ASSUME NEW s, NitroOK(s), NitroLinked(s), NEW t, t = [s EXCEPT !.now = @ + 1]
    PROVE  NitroLinked(t)
<1>1. t.confirmed = s.confirmed /\ t.nodes = s.nodes
  BY DEF NitroOK, NitroTyped
<1>2. Nitro!Nodes(t) = Nitro!Nodes(s) /\ \A n : Nitro!NodeAt(t, n) = Nitro!NodeAt(s, n)
  BY <1>1 DEF Nitro!Nodes, Nitro!NodeAt
<1>3. QED
  BY <1>1, <1>2 DEF NitroLinked, NitroStands

\* A commit is of a node, and of a confirmed one if only those are served.
NitroRests(x, s, c) ==
    /\ c.index \in Nitro!Nodes(s) \ {0}
    /\ ~Nitro!Unfinalized(x) => NitroStands(s, c.index)

\* The commit the gateway makes of a node is.
LEMMA NitroFetched ==
    ASSUME NEW x, NEW s, NEW i, NEW c, c = Nitro!FetchCommit(x, s, i), c # Nitro!NoCommit
    PROVE  NitroRests(x, s, c)
  BY DEF Nitro!FetchCommit, Nitro!Exists, NitroRests, NitroStands

\* It stays one while the chain goes on.
LEMMA NitroRested ==
    ASSUME NEW x, NEW s, NEW t, NitroKept(s, t), NEW c, NitroRests(x, s, c)
    PROVE  NitroRests(x, t, c)
  BY DEF NitroRests, NitroKept, NitroStands

\* The verifier, walking back from a confirmed node, meets every confirmed node
\* before it.
LEMMA NitroWalked ==
    ASSUME NEW s, NitroOK(s), NitroLinked(s), NEW d \in Nitro!Nodes(s), NitroStands(s, d),
           NEW i \in Nitro!Nodes(s), NitroStands(s, i), i < d
    PROVE  i \in Nitro!Chain(s, d)
<1> DEFINE D == Nitro!Nodes(s)
           prev(m) == Nitro!NodeAt(s, m).prev
           Stands(m) == NitroStands(s, m)
           up(m) == Nitro!Chain(s, m)
           rank == [m \in D |-> m]
           S == {m \in D : Stands(m) => \A l \in D : Stands(l) /\ l < m => l \in up(m)}
<1>1. /\ Len(s.nodes) \in Nat
      /\ \A m \in D : m \in 0 .. Len(s.nodes) /\ (m # 0 => prev(m) \in D /\ prev(m) < m)
  BY NitroBefore
<1>2. /\ \A m \in D : m # 0 /\ Stands(m) => Stands(prev(m))
      /\ \A m \in D : \A l \in D : Stands(m) /\ Stands(l) /\ l < m => l <= prev(m)
  <2>1. \A m \in D : m > 0 /\ Stands(m) => Stands(prev(m))
    BY DEF NitroOK, NitroStands
  <2>2. \A m \in D : \A l \in D : Stands(m) /\ Stands(l) /\ l < m => l <= prev(m)
    BY DEF NitroLinked
  <2> HIDE DEF D, prev, Stands
  <2>3. QED
    BY <1>1, <2>1, <2>2
<1>3. rank \in [D -> 0 .. Len(s.nodes)] /\ \A m \in D : rank[m] = m
  BY <1>1
<1>4. \A m \in D : up(m) = IF m = 0 THEN {} ELSE {prev(m)} \cup up(prev(m))
  BY NitroWalks
<1> HIDE DEF D, prev, Stands, up, rank
<1>5. \A m \in D : (\A l \in D : rank[l] < rank[m] => l \in S) => m \in S
  <2> SUFFICES ASSUME NEW m \in D, \A l \in D : rank[l] < rank[m] => l \in S,
                      Stands(m), NEW l \in D, Stands(l), l < m
               PROVE  l \in up(m)
    OBVIOUS
  <2>1. m # 0 /\ l <= prev(m)
    BY <1>1, <1>2
  <2>2. prev(m) \in D /\ Stands(prev(m)) /\ prev(m) \in S
    BY <1>1, <1>2, <1>3, <2>1
  <2>3. up(m) = {prev(m)} \cup up(prev(m))
    BY <1>4, <2>1
  <2>4. l = prev(m) \/ l < prev(m)
    <3>1. l \in Nat /\ prev(m) \in Nat
      BY <1>1, <2>2
    <3>2. QED
      BY <2>1, <3>1
  <2>5. QED
    BY <2>2, <2>3, <2>4
<1>6. \A m \in D : m \in S
  <2> HIDE DEF S
  <2>1. Inductive(D, Len(s.nodes), rank, S)
    BY <1>1, <1>3, <1>5 DEF Inductive
  <2>2. QED
    BY <2>1, Induction
<1>7. QED
  BY <1>6 DEF D, Stands, up

\* So a commit is accepted, or too old, unless its node is gone or the context
\* is.
LEMMA NitroServed ==
    ASSUME NEW x, x.window \in Nat, x.minAge \in Nat, NEW a, NitroOK(a), NEW s, NitroOK(s), NitroKept(a, s),
           NitroLinked(s), NEW c, NitroRests(x, s, c),
           NEW d, d = Nitro!GetLatestContext(x, a), d # Nitro!NoIndex, c.index <= d
    PROVE  \/ Nitro!GetStorageValues(x, s, d, [index |-> c.index]) \in Honest
           \/ Nitro!Spoiled(x, a, s, d, c)
<1> SUFFICES ASSUME ~Nitro!Spoiled(x, a, s, d, c)
             PROVE  Nitro!GetStorageValues(x, s, d, [index |-> c.index]) \in Honest
  OBVIOUS
<1> DEFINE i == c.index
<1>1. d \in Nitro!Nodes(a) /\ (~Nitro!Unfinalized(x) => d = a.confirmed)
  BY NitroFound
<1>2. d \in Nitro!Nodes(s) /\ i \in Nitro!Nodes(s)
  BY <1>1 DEF NitroKept, NitroRests
<1>3. i \in Nat /\ d \in Nat /\ Nitro!NodeAt(s, i) \in NitroNode /\ Nitro!NodeAt(s, d) \in NitroNode
  BY <1>2, NitroNodesTyped DEF NitroOK
<1>4. /\ Nitro!NodeAt(s, i).made \in Nat /\ Nitro!NodeAt(s, d).made \in Nat
      /\ Nitro!NodeAt(s, i).made <= Nitro!NodeAt(s, d).made
  BY <1>2, <1>3 DEF NitroNode, NitroLinked
<1>5. CASE Nitro!Unfinalized(x)
  <2>1. Nitro!IsNodeUsable(s, i) /\ Nitro!Exists(s, d)
    BY <1>5 DEF Nitro!Spoiled
  <2>2. /\ Nitro!Exists(s, i) /\ Nitro!CreatedAtBlock(s, i) = Nitro!NodeAt(s, i).made
        /\ Nitro!CreatedAtBlock(s, d) = Nitro!NodeAt(s, d).made
    BY <2>1 DEF Nitro!IsNodeUsable, Nitro!CreatedAtBlock
  <2>3. Nitro!CheckWindow(x, Nitro!CreatedAtBlock(s, d), Nitro!CreatedAtBlock(s, i)) \in Honest
    BY <1>4, <2>2 DEF Nitro!CheckWindow, Honest
  <2>4. QED
    BY <1>5, <2>1, <2>2, <2>3 DEF Nitro!GetStorageValues, Honest
<1>6. CASE ~Nitro!Unfinalized(x)
  <2>1. NitroStands(s, d) /\ NitroStands(s, i)
    BY <1>1, <1>6 DEF NitroOK, NitroKept, NitroRests, NitroStands
  <2>2. i = d \/ i \in Nitro!Chain(s, d)
    <3>1. i = d \/ i < d
      BY <1>3
    <3>2. QED
      BY <1>2, <2>1, <3>1, NitroWalked
  <2>3. Nitro!Exists(s, i) /\ Nitro!Exists(s, d)
    BY <1>2, <2>1 DEF Nitro!Exists, NitroStands
  <2>4. /\ Nitro!CreatedAtBlock(s, i) = Nitro!NodeAt(s, i).made /\ Nitro!CreatedAtBlock(s, d) = Nitro!NodeAt(s, d).made
    BY <2>3 DEF Nitro!CreatedAtBlock
  <2>5. Nitro!CheckWindow(x, Nitro!CreatedAtBlock(s, d), Nitro!CreatedAtBlock(s, i)) \in Honest
    BY <1>4, <2>4 DEF Nitro!CheckWindow, Honest
  <2>6. QED
    BY <1>6, <2>2, <2>3, <2>5 DEF Nitro!GetStorageValues, Honest
<1>7. QED
  BY <1>5, <1>6

-----------------------------------------------------------------------------
(* DoubleNitro.tla: what is served.                                        *)

\* The rollups of the two chains are the one above, for the gateway too.
LEMMA DoubleNitroMore ==
    /\ \A x, a, s, d, c : Double!Nitro!Spoiled(x, a, s, d, c) <=> Nitro!Spoiled(x, a, s, d, c)
    /\ \A x, s, i : Double!Nitro!FetchCommit(x, s, i) = Nitro!FetchCommit(x, s, i)
<1>1. \A x, a, s, d, c : Double!Nitro!Spoiled(x, a, s, d, c) <=> Nitro!Spoiled(x, a, s, d, c)
  BY DEF Double!Nitro!Spoiled, Nitro!Spoiled, Double!Nitro!Unfinalized, Nitro!Unfinalized,
         Double!Nitro!IsNodeUsable, Nitro!IsNodeUsable, Double!Nitro!Exists, Nitro!Exists,
         Double!Nitro!NodeAt, Nitro!NodeAt, Double!Nitro!Nodes, Nitro!Nodes
<1>2. \A x, s, i : Double!Nitro!FetchCommit(x, s, i) = Nitro!FetchCommit(x, s, i)
  BY Zenon DEF Double!Nitro!FetchCommit, Nitro!FetchCommit, Double!Nitro!Unfinalized, Nitro!Unfinalized,
         Double!Nitro!Exists, Nitro!Exists, Double!Nitro!NodeAt, Nitro!NodeAt, Double!Nitro!Nodes, Nitro!Nodes,
         Double!Nitro!NoCommit, Nitro!NoCommit, Double!Nitro!NoIndex, Nitro!NoIndex
<1>3. QED
  BY <1>1, <1>2

\* A commit is of a node of the first chain and of what the second one saw of
\* it.
DoubleRests(x, s, c) == NitroRests(x, s.one, c) /\ s.seen[c.index + 1] = c.node

\* The commit the gateway makes is.
LEMMA DoubleFetched ==
    ASSUME NEW x, NEW s, NEW i, NEW c, c = Double!FetchCommit(x, s, i), c # Double!NoCommit
    PROVE  DoubleRests(x, s, c)
<1> DEFINE made == Nitro!FetchCommit(x, s.one, i)
           commit12 == Double!CommitAt(i, made)
<1>1. c = [index |-> i, prev |-> commit12.prev, node |-> s.seen[i + 1]] /\ commit12 # Double!NoCommit
  BY DoubleNitroMore DEF Double!FetchCommit
<1>2. made.index = i /\ made # Nitro!NoCommit
  BY <1>1 DEF Double!CommitAt, Double!NoCommit, Nitro!NoCommit, Double!NoIndex, Nitro!NoIndex
<1> HIDE DEF made
<1>3. NitroRests(x, s.one, made)
  BY <1>2, NitroFetched DEF made
<1>4. QED
  BY <1>1, <1>2, <1>3 DEF DoubleRests, NitroRests

\* The chains keep what the first one keeps, and a commit stays one.
LEMMA DoubleLinks ==
    ASSUME NEW x, x.confirmation \in Nat, NEW s, DoubleOK(x, s), NitroLinked(s.one), NEW t \in Double!Moves(x, s)
    PROVE  NitroLinked(t.one) /\ \A c : DoubleRests(x, s, c) => DoubleRests(x, t, c)
<1>0. /\ s = [one |-> s.one, two |-> s.two, seen |-> s.seen] /\ NitroOK(s.one) /\ s.seen \in Seq(Int)
      /\ Len(s.seen) = Len(s.one.nodes)
  BY DEF DoubleOK, DoubleTyped
<1>1. DoubleKept(s, t)
  BY DoubleStep
<1>2. ASSUME \A k \in DOMAIN s.seen : t.seen[k] = s.seen[k]
      PROVE  \A c : DoubleRests(x, s, c) => DoubleRests(x, t, c)
  <2> SUFFICES ASSUME NEW c, DoubleRests(x, s, c) PROVE DoubleRests(x, t, c)
    OBVIOUS
  <2>1. NitroRests(x, t.one, c)
    BY <1>1, NitroRested DEF DoubleKept, DoubleRests
  <2>2. c.index + 1 \in DOMAIN s.seen
    <3>1. c.index + 1 \in DOMAIN s.one.nodes /\ DOMAIN s.one.nodes = 1 .. Len(s.one.nodes)
      BY <1>0, NitroNodesTyped DEF DoubleRests, NitroRests, NitroOK
    <3>2. DOMAIN s.seen = 1 .. Len(s.seen)
      BY <1>0, InSeq
    <3>3. QED
      BY <1>0, <3>1, <3>2
  <2>3. QED
    BY <1>2, <2>1, <2>2 DEF DoubleRests
<1>3. ASSUME NEW one \in Nitro!Moves(x, s.one),
             t = [s EXCEPT !.one = one,
                           !.seen = IF Len(one.nodes) = Len(@) THEN @
                                    ELSE Append(@, Double!NodeRead(x, s.two))]
      PROVE  NitroLinked(t.one) /\ \A k \in DOMAIN s.seen : t.seen[k] = s.seen[k]
  <2>1. /\ t.one = one
        /\ t.seen = IF Len(one.nodes) = Len(s.seen) THEN s.seen
                    ELSE Append(s.seen, Double!NodeRead(x, s.two))
    BY <1>0, <1>3
  <2>2. Double!NodeRead(x, s.two) \in Int
    BY DoubleRead DEF DoubleOK
  <2>3. NitroLinked(one)
    BY <1>0, NitroLinks
  <2>4. \A k \in DOMAIN s.seen : Append(s.seen, Double!NodeRead(x, s.two))[k] = s.seen[k]
    BY <1>0, <2>2, OneMore
  <2>5. QED
    BY <2>1, <2>3, <2>4
<1>4. ASSUME NEW two, t = [s EXCEPT !.two = two]
      PROVE  NitroLinked(t.one) /\ \A k \in DOMAIN s.seen : t.seen[k] = s.seen[k]
  BY <1>0, <1>4
<1>5. ASSUME t = [s EXCEPT !.one.now = @ + 1, !.two.now = @ + 1]
      PROVE  NitroLinked(t.one) /\ \A k \in DOMAIN s.seen : t.seen[k] = s.seen[k]
  <2>1. t.one = [s.one EXCEPT !.now = @ + 1] /\ t.seen = s.seen
    BY <1>0, <1>5
  <2>2. QED
    BY <1>0, <2>1, NitroLinksTick
<1>6. NitroLinked(t.one) /\ \A k \in DOMAIN s.seen : t.seen[k] = s.seen[k]
  BY <1>3, <1>4, <1>5, DoubleNitroNames DEF Double!Moves
<1>7. QED
  BY <1>2, <1>6

\* And it is accepted, or too old, unless the commit of the first chain is
\* spoiled.
LEMMA DoubleServed ==
    ASSUME NEW x, x.window \in Nat, x.minAge \in Nat, NEW a, DoubleOK(x, a), NEW s, DoubleOK(x, s), DoubleKept(a, s),
           NitroLinked(s.one), NEW c, DoubleRests(x, s, c),
           NEW d, d = Double!GetLatestContext(x, a), d # Nitro!NoIndex, c.index <= d
    PROVE  \/ Double!GetStorageValues(x, s, d, Double!EncodeWitness(c)) \in Honest
           \/ Double!Spoiled(x, a, s, d, c)
<1>1. NitroOK(a.one) /\ NitroOK(s.one) /\ NitroKept(a.one, s.one) /\ NitroRests(x, s.one, c)
      /\ s.seen[c.index + 1] = c.node
  BY DEF DoubleOK, DoubleKept, DoubleRests
<1>2. d = Nitro!GetLatestContext(x, a.one)
  BY DoubleNitroNames DEF Double!GetLatestContext
<1>3. \/ Nitro!GetStorageValues(x, s.one, d, [index |-> c.index]) \in Honest
      \/ Nitro!Spoiled(x, a.one, s.one, d, c)
  BY <1>1, <1>2, NitroServed
<1>4. Double!Spoiled(x, a, s, d, c) <=> Nitro!Spoiled(x, a.one, s.one, d, c)
  BY DoubleNitroMore DEF Double!Spoiled
<1>5. Double!GetStorageValues(x, s, d, Double!EncodeWitness(c)) = Nitro!GetStorageValues(x, s.one, d, [index |-> c.index])
  BY <1>1, DoubleNitroNames DEF Double!GetStorageValues, Double!EncodeWitness
<1>6. QED
  BY <1>3, <1>4, <1>5

-----------------------------------------------------------------------------
(* BoLDAssertions.tla: what the chain keeps.                               *)

\* What a chain that goes on keeps of its assertions.
BoldStays(a, s) ==
    \A n \in DOMAIN a.nodes :
        /\ n \in DOMAIN s.nodes /\ s.nodes[n].parent = a.nodes[n].parent /\ s.nodes[n].made = a.nodes[n].made
        /\ s.nodes[n].finished = a.nodes[n].finished
        /\ a.nodes[n].status = "confirmed" => s.nodes[n].status = "confirmed"

\* An event of the log tells of an assertion what is so.
EventLinked(s, e) ==
    /\ e.hash \in DOMAIN s.nodes
    /\ e.name = "created" => s.nodes[e.hash].made = e.block
    /\ e.name = "confirmed" => s.nodes[e.hash].status = "confirmed"

\* The assertion confirmed last is confirmed, as is the one before each
\* confirmed one; an assertion is rivalled only if two follow it; and the log
\* is true.
BoldLinked(s) ==
    /\ s.nodes[s.confirmed].status = "confirmed"
    /\ \A n \in DOMAIN s.nodes :
        /\ s.nodes[n].made <= s.now
        /\ s.nodes[n].status = "confirmed" /\ s.nodes[n].parent # 0 =>
                s.nodes[s.nodes[n].parent].status = "confirmed"
        /\ s.nodes[n].rivalled =>
                \E x, y \in DOMAIN s.nodes : x # y /\ s.nodes[x].parent = n /\ s.nodes[y].parent = n
    /\ \A k \in DOMAIN s.log : EventLinked(s, s.log[k])

\* The assertion before an assertion is one.
LEMMA BoldParent ==
    ASSUME NEW s, BoldOK(s), NEW n \in DOMAIN s.nodes, s.nodes[n].parent # 0
    PROVE  s.nodes[n].parent \in DOMAIN s.nodes
<1>1. /\ Len(s.nodes) \in Nat /\ DOMAIN s.nodes = 1 .. Len(s.nodes)
      /\ s.nodes[n].parent \in Nat /\ s.nodes[n].parent < n
  BY BoldNodes DEF BoldOK, BoldNode
<1>2. n \in 1 .. Len(s.nodes)
  BY <1>1
<1>3. QED
  BY <1>1, <1>2

\* Creating an assertion keeps that,
LEMMA BoldLinksMade ==
    ASSUME NEW s, BoldOK(s), BoldLinked(s), NEW p \in DOMAIN s.nodes, NEW node \in BoldNode,
           node.parent = p, node.status = "pending", ~node.rivalled, node.made = s.now,
           NEW event \in BoldEvent, event.name = "created", event.hash = Len(s.nodes) + 1, event.block = s.now,
           NEW rivalled \in BOOLEAN, rivalled <=> \E a \in DOMAIN s.nodes : s.nodes[a].parent = p,
           NEW t, t = BoldMade(s, p, rivalled, node, event)
    PROVE  BoldLinked(t) /\ BoldStays(s, t)
<1> DEFINE q == [s.nodes EXCEPT ![p] = [s.nodes[p] EXCEPT !.rivalled = rivalled]]
           n == Len(s.nodes) + 1
<1>0. BoldTyped(s) /\ s.now \in Nat /\ s.confirmed \in DOMAIN s.nodes
  BY DEF BoldOK, BoldTyped
<1>1. /\ Len(s.nodes) \in Nat /\ DOMAIN s.nodes = 1 .. Len(s.nodes) /\ s.nodes \in Seq(BoldNode)
      /\ \A a \in DOMAIN s.nodes : s.nodes[a] \in BoldNode
  BY <1>0, BoldNodes DEF BoldTyped
<1>2. [s.nodes[p] EXCEPT !.rivalled = rivalled] \in BoldNode
  BY <1>1 DEF BoldNode
<1>3. q \in Seq(BoldNode) /\ Len(q) = Len(s.nodes) /\ DOMAIN q = DOMAIN s.nodes
  BY <1>1, <1>2, ExceptSeq
<1>4. \A a \in DOMAIN s.nodes :
            /\ q[a].parent = s.nodes[a].parent /\ q[a].made = s.nodes[a].made
            /\ q[a].status = s.nodes[a].status /\ q[a].finished = s.nodes[a].finished
            /\ a # p => q[a] = s.nodes[a]
            /\ a = p => (q[a].rivalled <=> rivalled)
  BY <1>1 DEF BoldNode
<1> HIDE DEF q
<1>5. t.now = s.now /\ t.confirmed = s.confirmed /\ t.nodes = Append(q, node) /\ t.log = Append(s.log, event)
  BY DEF BoldMade, q
<1>6. /\ DOMAIN t.nodes = 1 .. Len(s.nodes) + 1 /\ t.nodes[n] = node
      /\ \A a \in DOMAIN s.nodes : t.nodes[a] = q[a]
  BY <1>3, <1>5, OneMore
<1>7. /\ n \in DOMAIN t.nodes /\ n \notin DOMAIN s.nodes
      /\ \A a \in DOMAIN t.nodes : a = n \/ a \in DOMAIN s.nodes
      /\ \A a \in DOMAIN s.nodes : a \in DOMAIN t.nodes /\ a # n
  BY <1>1, <1>6
<1>8. BoldStays(s, t)
  BY <1>4, <1>6, <1>7 DEF BoldStays
<1>9. ASSUME NEW a \in DOMAIN t.nodes
      PROVE  /\ t.nodes[a].made <= t.now
             /\ t.nodes[a].status = "confirmed" /\ t.nodes[a].parent # 0 =>
                    t.nodes[t.nodes[a].parent].status = "confirmed"
             /\ t.nodes[a].rivalled =>
                    \E x, y \in DOMAIN t.nodes : x # y /\ t.nodes[x].parent = a /\ t.nodes[y].parent = a
  <2>1. CASE a = n
    BY <1>0, <1>5, <1>6, <2>1
  <2>2. CASE a \in DOMAIN s.nodes
    <3>1. t.nodes[a].made <= t.now
      BY <1>4, <1>5, <1>6, <2>2 DEF BoldLinked
    <3>2. ASSUME t.nodes[a].status = "confirmed", t.nodes[a].parent # 0
          PROVE  t.nodes[t.nodes[a].parent].status = "confirmed"
      <4>1. s.nodes[a].status = "confirmed" /\ s.nodes[a].parent # 0 /\ t.nodes[a].parent = s.nodes[a].parent
        BY <1>4, <1>6, <2>2, <3>2
      <4>2. s.nodes[a].parent \in DOMAIN s.nodes /\ s.nodes[s.nodes[a].parent].status = "confirmed"
        BY <2>2, <4>1, BoldParent DEF BoldLinked
      <4>3. QED
        BY <1>4, <1>6, <4>1, <4>2
    <3>3. ASSUME t.nodes[a].rivalled
          PROVE  \E x, y \in DOMAIN t.nodes : x # y /\ t.nodes[x].parent = a /\ t.nodes[y].parent = a
      <4>1. CASE a = p
        <5>1. PICK b \in DOMAIN s.nodes : s.nodes[b].parent = p
          BY <1>4, <1>6, <2>2, <3>3, <4>1
        <5>2. b \in DOMAIN t.nodes /\ b # n
          BY <1>7, <5>1
        <5>3. t.nodes[b].parent = a
          BY <1>4, <1>6, <4>1, <5>1
        <5>4. t.nodes[n].parent = a
          BY <1>6, <4>1
        <5>5. QED
          BY <1>7, <5>2, <5>3, <5>4
      <4>2. CASE a # p
        <5>1. s.nodes[a].rivalled
          BY <1>4, <1>6, <2>2, <3>3, <4>2
        <5>2. PICK x \in DOMAIN s.nodes, y \in DOMAIN s.nodes : x # y /\ s.nodes[x].parent = a /\ s.nodes[y].parent = a
          BY <2>2, <5>1 DEF BoldLinked
        <5>3. /\ x \in DOMAIN t.nodes /\ y \in DOMAIN t.nodes /\ t.nodes[x].parent = a /\ t.nodes[y].parent = a
          BY <1>4, <1>6, <1>7, <5>2
        <5>4. QED
          BY <5>2, <5>3
      <4>3. QED
        BY <4>1, <4>2
    <3>4. QED
      BY <3>1, <3>2, <3>3
  <2>3. QED
    BY <1>7, <2>1, <2>2
<1>10. ASSUME NEW k \in DOMAIN t.log PROVE EventLinked(t, t.log[k])
  <2>1. /\ DOMAIN t.log = 1 .. Len(s.log) + 1 /\ t.log[Len(s.log) + 1] = event
        /\ \A j \in DOMAIN s.log : t.log[j] = s.log[j]
    BY <1>0, <1>5, OneMore DEF BoldTyped
  <2>2. Len(s.log) \in Nat /\ DOMAIN s.log = 1 .. Len(s.log)
    BY <1>0, BoldNodes
  <2>3. CASE k = Len(s.log) + 1
    <3>1. t.log[k] = event /\ event.hash \in DOMAIN t.nodes /\ t.nodes[event.hash].made = event.block
      BY <1>6, <1>7, <2>1, <2>3
    <3>2. QED
      BY <3>1 DEF EventLinked
  <2>4. CASE k \in DOMAIN s.log
    <3>1. EventLinked(s, s.log[k]) /\ t.log[k] = s.log[k]
      BY <2>1, <2>4 DEF BoldLinked
    <3>2. QED
      <4>1. ASSUME NEW b \in DOMAIN s.nodes
            PROVE  /\ b \in DOMAIN t.nodes /\ t.nodes[b].made = s.nodes[b].made
                   /\ t.nodes[b].status = s.nodes[b].status
        BY <1>4, <1>6, <1>7
      <4>2. QED
        BY ONLY <3>1, <4>1 DEF EventLinked
  <2>5. QED
    BY <2>1, <2>2, <2>3, <2>4
<1>11. t.nodes[t.confirmed].status = "confirmed"
  BY <1>0, <1>4, <1>5, <1>6 DEF BoldLinked
<1>12. QED
  BY <1>8, <1>9, <1>10, <1>11 DEF BoldLinked

\* and confirming one.
LEMMA BoldLinksSettled ==
    ASSUME NEW s, BoldOK(s), BoldLinked(s), NEW a \in DOMAIN s.nodes, s.nodes[a].parent = s.confirmed,
           NEW node \in BoldNode, node.parent = s.nodes[a].parent, node.rivalled = s.nodes[a].rivalled,
           node.made = s.nodes[a].made, node.finished = s.nodes[a].finished, node.status = "confirmed",
           NEW event \in BoldEvent, event.name = "confirmed", event.hash = a,
           NEW t, t = BoldSettled(s, a, node, event)
    PROVE  BoldLinked(t) /\ BoldStays(s, t)
<1>0. BoldTyped(s) /\ s.now \in Nat /\ s.confirmed \in DOMAIN s.nodes
  BY DEF BoldOK, BoldTyped
<1>1. /\ Len(s.nodes) \in Nat /\ DOMAIN s.nodes = 1 .. Len(s.nodes) /\ s.nodes \in Seq(BoldNode)
      /\ \A b \in DOMAIN s.nodes : s.nodes[b] \in BoldNode
  BY <1>0, BoldNodes DEF BoldTyped
<1>3. t.now = s.now /\ t.confirmed = a /\ t.nodes = [s.nodes EXCEPT ![a] = node] /\ t.log = Append(s.log, event)
  BY DEF BoldSettled
<1>4. DOMAIN t.nodes = DOMAIN s.nodes
  BY <1>3
<1>5. \A b \in DOMAIN s.nodes :
            /\ t.nodes[b].parent = s.nodes[b].parent /\ t.nodes[b].rivalled = s.nodes[b].rivalled
            /\ t.nodes[b].made = s.nodes[b].made /\ t.nodes[b].finished = s.nodes[b].finished
            /\ b # a => t.nodes[b].status = s.nodes[b].status
            /\ b = a => t.nodes[b].status = "confirmed"
  BY <1>1, <1>3
<1>6. BoldStays(s, t)
  BY <1>4, <1>5 DEF BoldStays
<1>7. \A b \in DOMAIN s.nodes : s.nodes[b].status = "confirmed" => t.nodes[b].status = "confirmed"
  BY <1>5
<1>8. ASSUME NEW b \in DOMAIN t.nodes
      PROVE  /\ t.nodes[b].made <= t.now
             /\ t.nodes[b].status = "confirmed" /\ t.nodes[b].parent # 0 =>
                    t.nodes[t.nodes[b].parent].status = "confirmed"
             /\ t.nodes[b].rivalled =>
                    \E x, y \in DOMAIN t.nodes : x # y /\ t.nodes[x].parent = b /\ t.nodes[y].parent = b
  <2>1. t.nodes[b].made <= t.now
    BY <1>3, <1>4, <1>5 DEF BoldLinked
  <2>2. ASSUME t.nodes[b].status = "confirmed", t.nodes[b].parent # 0
        PROVE  t.nodes[t.nodes[b].parent].status = "confirmed"
    <3>1. CASE b = a
      BY <1>0, <1>4, <1>5, <1>7, <3>1 DEF BoldLinked
    <3>2. CASE b # a
      <4>1. s.nodes[b].status = "confirmed" /\ s.nodes[b].parent # 0 /\ t.nodes[b].parent = s.nodes[b].parent
        BY <1>4, <1>5, <2>2, <3>2
      <4>2. s.nodes[b].parent \in DOMAIN s.nodes /\ s.nodes[s.nodes[b].parent].status = "confirmed"
        BY <1>4, <4>1, BoldParent DEF BoldLinked
      <4>3. QED
        BY <1>7, <4>1, <4>2
    <3>3. QED
      BY <3>1, <3>2
  <2>3. ASSUME t.nodes[b].rivalled
        PROVE  \E x, y \in DOMAIN t.nodes : x # y /\ t.nodes[x].parent = b /\ t.nodes[y].parent = b
    <3>1. s.nodes[b].rivalled
      BY <1>4, <1>5, <2>3
    <3>2. PICK x \in DOMAIN s.nodes, y \in DOMAIN s.nodes : x # y /\ s.nodes[x].parent = b /\ s.nodes[y].parent = b
      BY <1>4, <3>1 DEF BoldLinked
    <3>3. QED
      BY <1>4, <1>5, <3>2
  <2>4. QED
    BY <2>1, <2>2, <2>3
<1>9. ASSUME NEW k \in DOMAIN t.log PROVE EventLinked(t, t.log[k])
  <2>1. /\ DOMAIN t.log = 1 .. Len(s.log) + 1 /\ t.log[Len(s.log) + 1] = event
        /\ \A j \in DOMAIN s.log : t.log[j] = s.log[j]
    BY <1>0, <1>3, OneMore DEF BoldTyped
  <2>2. Len(s.log) \in Nat /\ DOMAIN s.log = 1 .. Len(s.log)
    BY <1>0, BoldNodes
  <2>3. CASE k = Len(s.log) + 1
    BY <1>4, <1>5, <2>1, <2>3 DEF EventLinked
  <2>4. CASE k \in DOMAIN s.log
    <3>1. EventLinked(s, s.log[k]) /\ t.log[k] = s.log[k]
      BY <2>1, <2>4 DEF BoldLinked
    <3>2. QED
      BY <1>4, <1>5, <1>7, <3>1 DEF EventLinked
  <2>5. QED
    BY <2>1, <2>2, <2>3, <2>4
<1>10. t.nodes[t.confirmed].status = "confirmed"
  BY <1>3, <1>5
<1>11. QED
  BY <1>6, <1>8, <1>9, <1>10 DEF BoldLinked

\* So does a move of the chain.
LEMMA BoldLinks ==
    ASSUME NEW x, x.finishes \subseteq BOOLEAN, NEW s, BoldOK(s), BoldLinked(s), NEW t \in BoLD!Moves(x, s)
    PROVE  BoldLinked(t) /\ BoldStays(s, t)
<1>0. BoldTyped(s) /\ s.now \in Nat /\ s = [now |-> s.now, confirmed |-> s.confirmed, nodes |-> s.nodes, log |-> s.log]
  BY DEF BoldOK, BoldTyped
<1>1. /\ Len(s.nodes) \in Nat /\ DOMAIN s.nodes = 1 .. Len(s.nodes)
      /\ \A b \in DOMAIN s.nodes : s.nodes[b] \in BoldNode
  BY <1>0, BoldNodes
<1>2. CASE \E p \in DOMAIN s.nodes, f \in x.finishes : t = BoLD!Made(s, p, f)
  <2>1. PICK p \in DOMAIN s.nodes, f \in x.finishes : t = BoLD!Made(s, p, f)
    BY <1>2
  <2> DEFINE node == [parent |-> p, made |-> s.now, status |-> "pending", rivalled |-> FALSE, finished |-> f]
             event == BoLD!Event("created", Len(s.nodes) + 1, s.now)
             rivalled == \E a \in DOMAIN s.nodes : s.nodes[a].parent = p
  <2>2. /\ node \in BoldNode /\ node.parent = p /\ node.status = "pending" /\ ~node.rivalled /\ node.made = s.now
        /\ event \in BoldEvent /\ event.name = "created" /\ event.hash = Len(s.nodes) + 1 /\ event.block = s.now
    BY <1>0, <1>1 DEF BoldNode, BoldEvent, BoLD!Event
  <2>3. t = BoldMade(s, p, rivalled, node, event)
    BY <1>0, <2>1, Zenon DEF BoldMade, BoLD!Hashes, BoLD!Made
  <2>4. rivalled \in BOOLEAN
    OBVIOUS
  <2>5. PICK v \in BOOLEAN : v = rivalled
    BY <2>4
  <2> HIDE DEF node, event
  <2>6. QED
    BY <2>2, <2>3, <2>5, BoldLinksMade
<1>3. CASE \E a \in {a \in DOMAIN s.nodes : s.nodes[a].parent = s.confirmed} : t = BoLD!Settled(s, a)
  <2>1. PICK a \in DOMAIN s.nodes : s.nodes[a].parent = s.confirmed /\ t = BoLD!Settled(s, a)
    BY <1>3
  <2> DEFINE node == [s.nodes[a] EXCEPT !.status = "confirmed"]
             event == BoLD!Event("confirmed", a, s.now)
  <2>2. event \in BoldEvent /\ event.name = "confirmed" /\ event.hash = a
    BY <1>0, <1>1 DEF BoldEvent, BoLD!Event
  <2>3. t = BoldSettled(s, a, node, event)
    BY <1>0, <2>1 DEF BoldSettled, BoLD!Settled
  <2>4. /\ node \in BoldNode /\ node.parent = s.nodes[a].parent /\ node.rivalled = s.nodes[a].rivalled
        /\ node.made = s.nodes[a].made /\ node.finished = s.nodes[a].finished /\ node.status = "confirmed"
    BY <1>1 DEF BoldNode
  <2> HIDE DEF node, event
  <2>5. QED
    BY <2>1, <2>2, <2>3, <2>4, BoldLinksSettled
<1>4. QED
  BY <1>2, <1>3 DEF BoLD!Moves, BoLD!Hashes

\* So does time.
LEMMA BoldLinksTick ==
    ASSUME NEW s, BoldOK(s), BoldLinked(s), NEW t, t = [s EXCEPT !.now = @ + 1]
    PROVE  BoldLinked(t) /\ BoldStays(s, t)
<1>1. t = [now |-> s.now + 1, confirmed |-> s.confirmed, nodes |-> s.nodes, log |-> s.log]
  BY DEF BoldOK, BoldTyped
<1>2. t.now = s.now + 1 /\ t.confirmed = s.confirmed /\ t.nodes = s.nodes /\ t.log = s.log
  BY <1>1
<1>3. s.now \in Nat /\ \A n \in DOMAIN s.nodes : s.nodes[n].made \in Nat
  BY BoldNodes DEF BoldOK, BoldTyped, BoldNode
<1>4. \A n \in DOMAIN t.nodes : t.nodes[n].made <= t.now
  BY <1>2, <1>3 DEF BoldLinked
<1>5. \A k \in DOMAIN t.log : EventLinked(t, t.log[k])
  BY <1>2 DEF BoldLinked, EventLinked
<1>6. BoldStays(s, t)
  BY <1>2 DEF BoldStays
<1>7. QED
  BY <1>2, <1>4, <1>5, <1>6 DEF BoldLinked

-----------------------------------------------------------------------------
(* BoLDAssertions.tla: what the gateway remembers.                         *)

\* What the gateway keeps of an assertion.
KnownEntry ==
    [hash : Nat, parent : Nat, created : Nat, finished : BOOLEAN, confirmed : BOOLEAN, children : Nat]

\* It is true of the assertion.
EntrySays(s, e) ==
    /\ e.hash \in DOMAIN s.nodes /\ e.parent = s.nodes[e.hash].parent /\ e.created = s.nodes[e.hash].made
    /\ e.finished = s.nodes[e.hash].finished /\ (e.confirmed => s.nodes[e.hash].status = "confirmed")

\* The true entries.
Entries(s) == {e \in KnownEntry : EntrySays(s, e)}

\* What the gateway remembers is true.
BoldRemembers(s, m) ==
    /\ m = [lastBlock |-> m.lastBlock, map |-> m.map, guarded |-> m.guarded]
    /\ m.map \in Seq(Entries(s))

\* It stays true while the chain goes on.
LEMMA EntriesStay ==
    ASSUME NEW s, NEW t, BoldStays(s, t), NEW m, BoldRemembers(s, m)
    PROVE  BoldRemembers(t, m)
<1>1. \A e \in Entries(s) : e \in Entries(t)
  BY DEF Entries, EntrySays, BoldStays
<1>2. m.map \in Seq(Entries(t))
  <2>1. /\ Len(m.map) \in Nat /\ DOMAIN m.map = 1 .. Len(m.map)
        /\ \A k \in DOMAIN m.map : m.map[k] \in Entries(s)
    BY InSeq DEF BoldRemembers
  <2>2. m.map = [k \in 1 .. Len(m.map) |-> m.map[k]]
    BY <2>1 DEF BoldRemembers
  <2>3. \A k \in 1 .. Len(m.map) : m.map[k] \in Entries(t)
    BY <1>1, <2>1
  <2>4. QED
    BY ONLY <2>1, <2>2, <2>3, IsASeq
<1>3. QED
  BY <1>2 DEF BoldRemembers

\* An entry with other children, or confirmed, says of the assertion what it said.
LEMMA EntryWith ==
    ASSUME NEW s, NEW c \in Entries(s), NEW confirmed \in BOOLEAN, NEW n \in Nat,
           confirmed => s.nodes[c.hash].status = "confirmed", NEW d,
           d = [hash |-> c.hash, parent |-> c.parent, created |-> c.created, finished |-> c.finished,
                confirmed |-> confirmed, children |-> n]
    PROVE  d \in Entries(s) /\ d.hash = c.hash
  BY DEF Entries, KnownEntry, EntrySays

\* The parts of an entry.
LEMMA EntryIs ==
    ASSUME NEW s, NEW c \in Entries(s)
    PROVE  /\ c = [hash |-> c.hash, parent |-> c.parent, created |-> c.created, finished |-> c.finished,
                   confirmed |-> c.confirmed, children |-> c.children]
           /\ c.hash \in Nat /\ c.confirmed \in BOOLEAN /\ c.children \in Nat
           /\ EntrySays(s, c)
  BY DEF Entries, KnownEntry

\* An entry with one child more, if h is what it is of.
MoreFor(c, h) == [c EXCEPT !.children = IF c.hash = h THEN @ + 1 ELSE @]

\* It stays true of the assertion.
LEMMA MoreChildren ==
    ASSUME NEW s, NEW c \in Entries(s), NEW h, NEW d, d = MoreFor(c, h)
    PROVE  d \in Entries(s) /\ d.hash = c.hash
<1> DEFINE n == IF c.hash = h THEN c.children + 1 ELSE c.children
<1>1. n \in Nat
  BY EntryIs
<1>0. c = [hash |-> c.hash, parent |-> c.parent, created |-> c.created, finished |-> c.finished,
           confirmed |-> c.confirmed, children |-> c.children]
  BY EntryIs
<1>2. d = [hash |-> c.hash, parent |-> c.parent, created |-> c.created, finished |-> c.finished,
              confirmed |-> c.confirmed, children |-> n]
  BY <1>0 DEF MoreFor
<1> HIDE DEF n
<1>3. c.confirmed \in BOOLEAN /\ (c.confirmed => s.nodes[c.hash].status = "confirmed")
  BY EntryIs DEF EntrySays
<1>4. QED
  BY ONLY c \in Entries(s), <1>1, <1>2, <1>3, EntryWith

\* An entry of a confirmed assertion may say so.
LEMMA EntryConfirmed ==
    ASSUME NEW s, NEW c \in Entries(s), s.nodes[c.hash].status = "confirmed", NEW d,
           d = [c EXCEPT !.confirmed = TRUE]
    PROVE  d \in Entries(s)
<1>0. c = [hash |-> c.hash, parent |-> c.parent, created |-> c.created, finished |-> c.finished,
           confirmed |-> c.confirmed, children |-> c.children]
  BY EntryIs
<1>1. d = [hash |-> c.hash, parent |-> c.parent, created |-> c.created, finished |-> c.finished,
              confirmed |-> TRUE, children |-> c.children]
  BY <1>0
<1>2. c.children \in Nat
  BY EntryIs
<1>4. QED
  BY <1>1, <1>2, EntryWith

\* Any map over the same places is a sequence.
LEMMA Remade ==
    ASSUME NEW S, NEW T, NEW q \in Seq(S), NEW p, DOMAIN p = DOMAIN q, p = [k \in DOMAIN q |-> p[k]],
           \A k \in DOMAIN q : p[k] \in T
    PROVE  p \in Seq(T) /\ Len(p) = Len(q)
<1>1. Len(q) \in Nat /\ DOMAIN q = 1 .. Len(q)
  BY InSeq
<1>2. p = [k \in 1 .. Len(q) |-> p[k]] /\ \A k \in 1 .. Len(q) : p[k] \in T
  BY <1>1
<1>3. p \in Seq(T)
  BY ONLY <1>1, <1>2, IsASeq
<1>4. Len(p) \in Nat /\ 1 .. Len(p) = 1 .. Len(q)
  BY <1>1, <1>3, InSeq
<1>5. QED
  BY ONLY <1>1, <1>3, <1>4

\* The entries with one child more for h.
CountedFor(map, h) == [i \in DOMAIN map |-> MoreFor(map[i], h)]

\* They are true.
LEMMA Counted ==
    ASSUME NEW s, NEW map \in Seq(Entries(s)), NEW h
    PROVE  CountedFor(map, h) \in Seq(Entries(s))
<1>1. \A i \in DOMAIN map : map[i] \in Entries(s)
  BY InSeq
<1> DEFINE q == CountedFor(map, h)
<1>2. DOMAIN q = DOMAIN map /\ q = [i \in DOMAIN map |-> q[i]]
  BY DEF CountedFor
<1>3. \A i \in DOMAIN map : q[i] = MoreFor(map[i], h)
  BY Zenon DEF CountedFor
<1>4. ASSUME NEW i \in DOMAIN map PROVE q[i] \in Entries(s)
  <2>1. PICK d : d = q[i]
    OBVIOUS
  <2>2. PICK c \in Entries(s) : c = map[i]
    BY <1>1
  <2>3. d = MoreFor(c, h)
    BY <1>3, <2>1, <2>2
  <2>4. d \in Entries(s)
    BY ONLY <2>2, <2>3, MoreChildren
  <2>5. QED
    BY <2>1, <2>4
<1> HIDE DEF q
<1>5. q \in Seq(Entries(s))
  BY <1>2, <1>4, Remade
<1>6. QED
  BY <1>5 DEF q

\* So is a map with a true entry put in,
LEMMA PutIn ==
    ASSUME NEW s, NEW map \in Seq(Entries(s)), NEW known \in Entries(s)
    PROVE  BoLD!Put(map, known) \in Seq(Entries(s))
<1>1. \A i \in DOMAIN map : map[i] \in Entries(s)
  BY InSeq
<1>2. Append(map, known) \in Seq(Entries(s))
  BY OneMore
<1> DEFINE q == [i \in DOMAIN map |-> IF map[i].hash = known.hash THEN known ELSE map[i]]
<1>3. DOMAIN q = DOMAIN map /\ q = [i \in DOMAIN map |-> q[i]] /\ \A i \in DOMAIN map : q[i] \in Entries(s)
  BY <1>1
<1> HIDE DEF q
<1>4. q \in Seq(Entries(s))
  BY <1>3, Remade
<1>5. QED
  BY <1>2, <1>4 DEF q, BoLD!Put

\* a map told of a new assertion,
LEMMA CreatedIn ==
    ASSUME NEW s, NEW map \in Seq(Entries(s)), NEW known \in Entries(s)
    PROVE  BoLD!OnCreated(map, known) \in Seq(Entries(s))
<1>1. BoLD!OnCreated(map, known) = BoLD!Put(CountedFor(map, known.parent), known)
  BY Zenon DEF BoLD!OnCreated, CountedFor, MoreFor
<1>2. PICK q \in Seq(Entries(s)) : q = CountedFor(map, known.parent)
  BY Counted
<1>3. QED
  BY <1>1, <1>2, PutIn

\* and a map told of a confirmed one.
LEMMA ConfirmedIn ==
    ASSUME NEW s, NEW map \in Seq(Entries(s)), NEW h, s.nodes[h].status = "confirmed"
    PROVE  BoLD!OnConfirmed(map, h) \in Seq(Entries(s))
<1>1. Len(map) \in Nat /\ DOMAIN map = 1 .. Len(map) /\ \A i \in DOMAIN map : map[i] \in Entries(s)
  BY InSeq
<1>2. CASE BoLD!Known(map, h) = {}
  BY <1>2 DEF BoLD!OnConfirmed
<1>3. CASE BoLD!Known(map, h) # {}
  <2>1. PICK i : i = CHOOSE j \in BoLD!Known(map, h) : TRUE
    OBVIOUS
  <2>2. i \in DOMAIN map /\ map[i].hash = h
    BY <1>3, <2>1 DEF BoLD!Known
  <2>3. PICK d : d = [map[i] EXCEPT !.confirmed = TRUE]
    OBVIOUS
  <2>4. PICK c \in Entries(s) : c = map[i]
    BY <1>1, <2>2
  <2>5. d \in Entries(s)
    BY ONLY s.nodes[h].status = "confirmed", <2>2, <2>3, <2>4, EntryConfirmed
  <2>6. PICK q : q = [map EXCEPT ![i] = d]
    OBVIOUS
  <2>7. q \in Seq(Entries(s)) /\ Len(q) = Len(map)
    BY <1>1, <2>2, <2>5, <2>6, ExceptSeq
  <2>8. BoLD!OnConfirmed(map, h) = SubSeq(q, i, Len(map))
    BY <1>3, <2>1, <2>3, <2>6 DEF BoLD!OnConfirmed
  <2>9. \A k \in i .. Len(map) : q[k] \in Entries(s)
    <3>1. DOMAIN q = 1 .. Len(map) /\ \A k \in DOMAIN q : q[k] \in Entries(s)
      BY <2>7, InSeq
    <3>2. \A k \in i .. Len(map) : k \in 1 .. Len(map)
      BY <1>1, <2>2
    <3>3. QED
      BY <3>1, <3>2
  <2>10. i \in Int /\ Len(map) \in Int
    BY <1>1, <2>2
  <2>11. QED
    BY <2>8, <2>9, <2>10, SubSeqProperties
<1>4. QED
  BY <1>2, <1>3

\* One event of the log.
OnEvent(s, e, block0, block1, map) ==
    IF e.block < block0 \/ e.block > block1 THEN map
    ELSE IF e.name = "created" THEN BoLD!OnCreated(map, BoLD!KnownFromCreatedEvent(s, e))
    ELSE BoLD!OnConfirmed(map, e.hash)

\* A map told of an event of the log stays true.
LEMMA EventIn ==
    ASSUME NEW s, BoldOK(s), NEW e \in BoldEvent, EventLinked(s, e), NEW map \in Seq(Entries(s)), NEW b0, NEW b1
    PROVE  OnEvent(s, e, b0, b1, map) \in Seq(Entries(s))
<1>1. CASE e.name = "created"
  <2>1. PICK known : known = BoLD!KnownFromCreatedEvent(s, e)
    OBVIOUS
  <2>2. e.hash \in DOMAIN s.nodes /\ s.nodes[e.hash] \in BoldNode
    BY BoldNodes DEF BoldOK, EventLinked
  <2>3. known \in Entries(s)
    BY <1>1, <2>1, <2>2
       DEF BoLD!KnownFromCreatedEvent, Entries, KnownEntry, EntrySays, EventLinked, BoldEvent, BoldNode
  <2>4. BoLD!OnCreated(map, known) \in Seq(Entries(s))
    BY <2>3, CreatedIn
  <2>5. QED
    BY <1>1, <2>1, <2>4 DEF OnEvent
<1>2. CASE e.name = "confirmed"
  <2>1. BoLD!OnConfirmed(map, e.hash) \in Seq(Entries(s))
    BY <1>2, ConfirmedIn DEF EventLinked
  <2>2. QED
    BY <1>2, <2>1 DEF OnEvent
<1>3. QED
  BY <1>1, <1>2 DEF BoldEvent

\* Where it is after each event.
Syncing(s, map, b0, b1, f) ==
    \A n \in 0 .. Len(s.log) : f[n] = IF n = 0 THEN map ELSE OnEvent(s, s.log[n], b0, b1, f[n - 1])

\* So SyncAssertions goes from a true map to a true map, event by event.
LEMMA SyncIs ==
    ASSUME NEW s, BoldOK(s), BoldLinked(s), NEW map \in Seq(Entries(s)), NEW b0, NEW b1
    PROVE  \E f \in [0 .. Len(s.log) -> Seq(Entries(s))] :
              BoLD!SyncAssertions(s, map, b0, b1) = f[Len(s.log)] /\ Syncing(s, map, b0, b1, f)
<1> DEFINE N == Len(s.log)
           D == 0 .. N
           V == Seq(Entries(s))
           rank == [n \in D |-> n]
           Step(n, m) == OnEvent(s, s.log[n], b0, b1, m)
           G == [n \in D |-> [f \in [D -> V] |-> IF n = 0 THEN map ELSE Step(n, f[n - 1])]]
           sync == CHOOSE sync : sync = [n \in 0..Len(s.log) |->
                      IF n = 0 THEN map
                      ELSE IF s.log[n].block < b0 \/ s.log[n].block > b1 THEN sync[n - 1]
                      ELSE IF s.log[n].name = "created"
                           THEN BoLD!OnCreated(sync[n - 1], BoLD!KnownFromCreatedEvent(s, s.log[n]))
                           ELSE BoLD!OnConfirmed(sync[n - 1], s.log[n].hash)]
<1>1. BoLD!SyncAssertions(s, map, b0, b1) = sync[N]
  BY Zenon DEF BoLD!SyncAssertions
<1>2. N \in Nat /\ \A n \in D : n # 0 => s.log[n] \in BoldEvent /\ EventLinked(s, s.log[n]) /\ n - 1 \in D
  <2>1. N \in Nat /\ DOMAIN s.log = 1 .. N /\ \A n \in DOMAIN s.log : s.log[n] \in BoldEvent
    BY BoldNodes DEF BoldOK
  <2>2. \A n \in D : n # 0 => n \in DOMAIN s.log /\ n - 1 \in D
    BY <2>1
  <2>3. QED
    BY <2>1, <2>2 DEF BoldLinked
<1>3. \A n \in D : n # 0 => \A m \in V : Step(n, m) \in V
  BY <1>2, EventIn
<1>4. rank \in [D -> 0 .. N] /\ \A n \in D : rank[n] = n
  OBVIOUS
<1>5. map \in V
  OBVIOUS
<1> HIDE DEF D, V, rank, Step, N
<1>6. G \in [D -> [[D -> V] -> V]]
  BY <1>2, <1>3, <1>5
<1>7. \A n \in D : \A f, h \in [D -> V] : SameBelow(D, rank, rank[n], f, h) => G[n][f] = G[n][h]
  <2> SUFFICES ASSUME NEW n \in D, NEW f \in [D -> V], NEW h \in [D -> V], SameBelow(D, rank, rank[n], f, h)
               PROVE  G[n][f] = G[n][h]
    OBVIOUS
  <2>1. n # 0 => f[n - 1] = h[n - 1]
    <3>1. n # 0 => n - 1 \in D /\ n \in 0 .. N
      BY <1>2, <1>4
    <3>2. n # 0 => n - 1 \in D /\ rank[n - 1] < rank[n]
      BY <1>2, <1>4, <3>1
    <3>3. QED
      BY <3>2 DEF SameBelow
  <2>2. QED
    BY <2>1
<1>8. Rule(D, V, N, rank, G)
  <2> HIDE DEF G
  <2>1. QED
    BY <1>2, <1>4, <1>5, <1>6, <1>7 DEF Rule
<1>9. PICK f \in [D -> V] : \A n \in D : f[n] = G[n][f]
  BY <1>8, Recursion
<1>10. \A n \in D : f[n] = IF n = 0 THEN map ELSE Step(n, f[n - 1])
  BY <1>9
<1>11. f = [n \in 0..Len(s.log) |->
                      IF n = 0 THEN map
                      ELSE IF s.log[n].block < b0 \/ s.log[n].block > b1 THEN f[n - 1]
                      ELSE IF s.log[n].name = "created"
                           THEN BoLD!OnCreated(f[n - 1], BoLD!KnownFromCreatedEvent(s, s.log[n]))
                           ELSE BoLD!OnConfirmed(f[n - 1], s.log[n].hash)]
  BY <1>10, Zenon DEF D, N, Step, OnEvent
<1>12. sync = [n \in 0..Len(s.log) |->
                      IF n = 0 THEN map
                      ELSE IF s.log[n].block < b0 \/ s.log[n].block > b1 THEN sync[n - 1]
                      ELSE IF s.log[n].name = "created"
                           THEN BoLD!OnCreated(sync[n - 1], BoLD!KnownFromCreatedEvent(s, s.log[n]))
                           ELSE BoLD!OnConfirmed(sync[n - 1], s.log[n].hash)]
  BY <1>11, Zenon
<1> HIDE DEF sync, G
<1>13. DOMAIN sync = D /\ \A n \in D : sync[n] = IF n = 0 THEN map ELSE Step(n, sync[n - 1])
  BY <1>12, Zenon DEF D, N, Step, OnEvent
<1> DEFINE S == {n \in D : sync[n] \in V}
<1>14. \A n \in D : (\A m \in D : rank[m] < rank[n] => m \in S) => n \in S
  <2> SUFFICES ASSUME NEW n \in D, \A m \in D : rank[m] < rank[n] => m \in S PROVE sync[n] \in V
    OBVIOUS
  <2>1. CASE n = 0
    BY <1>5, <1>13, <2>1
  <2>2. CASE n # 0
    <3>1. n - 1 \in D /\ n \in 0 .. N
      BY <1>2, <1>4, <2>2
    <3>2. rank[n - 1] < rank[n]
      BY <1>2, <1>4, <3>1
    <3>3. n - 1 \in S
      BY <3>1, <3>2
    <3>4. QED
      BY <1>3, <1>13, <2>2, <3>3
  <2>3. QED
    BY <2>1, <2>2
<1>15. \A n \in D : n \in S
  <2> HIDE DEF S
  <2>1. Inductive(D, N, rank, S)
    BY <1>2, <1>4, <1>14 DEF Inductive
  <2>2. QED
    BY <2>1, Induction
<1>16. sync = [n \in D |-> sync[n]]
  BY <1>12, <1>13 DEF D
<1>17. sync \in [D -> V]
  BY <1>15, <1>16
<1>18. QED
  BY <1>1, <1>13, <1>17 DEF D, V, N, Step, Syncing

\* What it makes of a true map, over any range, is true.
LEMMA SyncIn ==
    ASSUME NEW s, BoldOK(s), BoldLinked(s), NEW map \in Seq(Entries(s)), NEW b0, NEW b1
    PROVE  BoLD!SyncAssertions(s, map, b0, b1) \in Seq(Entries(s))
<1>1. PICK f \in [0 .. Len(s.log) -> Seq(Entries(s))] : BoLD!SyncAssertions(s, map, b0, b1) = f[Len(s.log)]
  BY SyncIs
<1>2. Len(s.log) \in 0 .. Len(s.log)
  BY BoldNodes DEF BoldOK
<1>3. QED
  BY <1>1, <1>2

\* What the guarded call leaves is true.
LEMMA BoldGuarded ==
    ASSUME NEW x, NEW view, NEW s, BoldOK(s), BoldLinked(s), NEW m, BoldRemembers(s, m),
           NEW n \in BoLD!Guarded(x, view, s, m)
    PROVE  BoldRemembers(s, n)
<1>1. CASE n = m
  BY <1>1
<1>2. ASSUME NEW b0, NEW b1, NEW last, NEW guarded,
             n = [lastBlock |-> last, guarded |-> guarded, map |-> BoLD!SyncAssertions(s, m.map, b0, b1)]
      PROVE  BoldRemembers(s, n)
  <2>1. BoLD!SyncAssertions(s, m.map, b0, b1) \in Seq(Entries(s))
    BY SyncIn DEF BoldRemembers
  <2>2. QED
    BY <1>2, <2>1 DEF BoldRemembers
<1>3. ASSUME NEW b0, NEW b1, n = [m EXCEPT !.map = BoLD!SyncAssertions(s, m.map, b0, b1)]
      PROVE  BoldRemembers(s, n)
  <2>1. n = [lastBlock |-> m.lastBlock, guarded |-> m.guarded, map |-> BoLD!SyncAssertions(s, m.map, b0, b1)]
    BY <1>3 DEF BoldRemembers
  <2>2. QED
    BY <1>2, <2>1
<1>4. QED
  <2> DEFINE block1 == view.now - x.minAge
             confirmed == s.log[BoLD!LatestConfirmed(s, block1)].hash
             block0 == IF m.lastBlock + 1 = 0 THEN s.nodes[confirmed].made ELSE m.lastBlock + 1
             failed == {b \in block0 - 1..block1 - 1 : (b - block0 + 1) % x.step = 0}
  <2>1. \/ n = m
        \/ n = [lastBlock |-> block1, guarded |-> TRUE, map |-> BoLD!SyncAssertions(s, m.map, block0, block1)]
        \/ \E b \in IF x.fails THEN failed ELSE {} :
                n = [m EXCEPT !.map = BoLD!SyncAssertions(s, m.map, block0, b)]
    BY Zenon DEF BoLD!Guarded
  <2> HIDE DEF block1, block0, confirmed, failed
  <2>2. QED
    BY <1>1, <1>2, <1>3, <2>1

\* What has expired was true.
LEMMA BoldForgotten ==
    ASSUME NEW s, NEW m, BoldRemembers(s, m), NEW n, n = [m EXCEPT !.guarded = FALSE]
    PROVE  BoldRemembers(s, n)
<1>0. m = [lastBlock |-> m.lastBlock, map |-> m.map, guarded |-> m.guarded] /\ m.map \in Seq(Entries(s))
  BY DEF BoldRemembers
<1>1. n = [lastBlock |-> m.lastBlock, map |-> m.map, guarded |-> FALSE]
  BY <1>0
<1>2. QED
  BY <1>0, <1>1 DEF BoldRemembers

\* Nothing is true.
LEMMA BoldNothing ==
    ASSUME NEW s
    PROVE  BoldRemembers(s, BoLD!NoMemory)
<1>1. << >> \in Seq(Entries(s))
  BY EmptySeq
<1>2. QED
  BY <1>1 DEF BoldRemembers, BoLD!NoMemory

-----------------------------------------------------------------------------
(* BoLDAssertions.tla: the chains it collects of that, and what is served. *)

\* A chain of entries, each of which names the one before it, up to that of h.
EntryChain(s, h, q) ==
    /\ q \in Seq(Entries(s))
    /\ q # << >> => q[Len(q)].hash = h
    /\ \A k \in 2 .. Len(q) : q[k].parent = q[k - 1].hash

\* One more entry makes a longer chain.
LEMMA ChainGrows ==
    ASSUME NEW s, NEW h, NEW q, EntryChain(s, h, q), NEW e \in Entries(s), e.parent = h
    PROVE  EntryChain(s, e.hash, Append(q, e))
<1>1. q \in Seq(Entries(s)) /\ Len(q) \in Nat
  BY InSeq DEF EntryChain
<1>2. /\ Append(q, e) \in Seq(Entries(s)) /\ Len(Append(q, e)) = Len(q) + 1
      /\ Append(q, e)[Len(q) + 1] = e /\ DOMAIN q = 1 .. Len(q)
      /\ \A k \in DOMAIN q : Append(q, e)[k] = q[k]
  BY <1>1, OneMore, InSeq
<1>3. q # << >> => q[Len(q)].hash = h
  BY DEF EntryChain
<1>4. ASSUME NEW k \in 2 .. Len(q) + 1 PROVE Append(q, e)[k].parent = Append(q, e)[k - 1].hash
  <2>1. k - 1 \in 1 .. Len(q) /\ Append(q, e)[k - 1] = q[k - 1]
    BY <1>1, <1>2
  <2>2. CASE k = Len(q) + 1
    <3>1. q # << >> /\ k - 1 = Len(q)
      BY <1>1, <2>1, <2>2, EmptySeq
    <3>2. QED
      BY <1>2, <1>3, <2>1, <2>2, <3>1
  <2>3. CASE k # Len(q) + 1
    <3>1. k \in 2 .. Len(q) /\ k \in DOMAIN q
      BY <1>1, <1>2, <2>3
    <3>2. QED
      BY <1>2, <2>1, <3>1 DEF EntryChain
  <2>4. QED
    BY <2>2, <2>3
<1>5. QED
  BY <1>2, <1>4 DEF EntryChain

\* An entry is a chain.
LEMMA ChainStarts ==
    ASSUME NEW s, NEW e \in Entries(s)
    PROVE  EntryChain(s, e.hash, <<e>>)
<1>1. <<e>> \in Seq(Entries(s)) /\ Len(<<e>>) = 1 /\ <<e>>[1] = e
  OBVIOUS
<1>2. QED
  BY <1>1 DEF EntryChain

\* So is nothing.
LEMMA NoChain ==
    ASSUME NEW s, NEW h
    PROVE  EntryChain(s, h, << >>)
<1>1. << >> \in Seq(Entries(s)) /\ Len(<< >>) = 0
  BY EmptySeq
<1>2. QED
  BY <1>1 DEF EntryChain

\* What the map has of an assertion, if it has it.
KnownAt(m, h) == m.map[CHOOSE i \in BoLD!Known(m.map, h) : TRUE]

\* It is the entry of that assertion, and that of its parent is before it.
LEMMA KnownIs ==
    ASSUME NEW s, BoldOK(s), NEW m, BoldRemembers(s, m), NEW h, BoLD!Known(m.map, h) # {}
    PROVE  /\ KnownAt(m, h) \in Entries(s) /\ KnownAt(m, h).hash = h /\ h \in DOMAIN s.nodes
           /\ KnownAt(m, h).parent = s.nodes[h].parent /\ KnownAt(m, h).parent \in Nat
           /\ KnownAt(m, h).parent < h
           /\ \E place \in DOMAIN m.map : m.map[place] = KnownAt(m, h)
<1>1. PICK i \in BoLD!Known(m.map, h) : i = CHOOSE j \in BoLD!Known(m.map, h) : TRUE
  OBVIOUS
<1>2. i \in DOMAIN m.map /\ m.map[i].hash = h /\ KnownAt(m, h) = m.map[i]
  BY <1>1 DEF BoLD!Known, KnownAt
<1>3. \A j \in DOMAIN m.map : m.map[j] \in Entries(s)
  BY InSeq DEF BoldRemembers
<1>4. PICK e \in Entries(s) : e = KnownAt(m, h) /\ e.hash = h
  BY <1>2, <1>3
<1>5. h \in DOMAIN s.nodes /\ e.parent = s.nodes[h].parent
  BY <1>4 DEF Entries, EntrySays
<1>6. s.nodes[h].parent \in Nat /\ s.nodes[h].parent < h
  BY <1>5, BoldNodes DEF BoldOK, BoldNode
<1>7. QED
  BY <1>2, <1>4, <1>5, <1>6

\* It is an entry of the map, and of an assertion there is.
LEMMA KnownThere ==
    ASSUME NEW s, BoldOK(s), NEW m, BoldRemembers(s, m), NEW h, BoLD!Known(m.map, h) # {}
    PROVE  \E j \in DOMAIN m.map : m.map[j] = KnownAt(m, h) /\ m.map[j] \in Entries(s) /\ m.map[j].hash = h
<1>1. KnownAt(m, h) \in Entries(s) /\ KnownAt(m, h).hash = h
  BY KnownIs
<1>2. PICK j \in DOMAIN m.map : m.map[j] = KnownAt(m, h)
  BY KnownIs
<1>3. QED
  BY <1>1, <1>2

\* The walk of UnfinalizedAssertionChain: it ends at one that is confirmed or
\* not known.
Walks(m, hash, walk) ==
    \A h \in 0 .. hash :
        walk[h] = IF BoLD!Known(m.map, h) = {} THEN << >>
                  ELSE IF KnownAt(m, h).confirmed THEN <<KnownAt(m, h)>>
                  ELSE Append(walk[KnownAt(m, h).parent], KnownAt(m, h))

\* The chain it collects is that of such a walk.
LEMMA ChainWalks ==
    ASSUME NEW s, BoldOK(s), NEW m, BoldRemembers(s, m), NEW hash \in Nat
    PROVE  \E walk : BoLD!UnfinalizedAssertionChain(m, hash) = walk[hash] /\ Walks(m, hash, walk)
<1> DEFINE D == 0 .. hash
           At(h) == BoLD!Known(m.map, h)
           K(h) == KnownAt(m, h)
           V == Seq(Entries(s))
           rank == [h \in D |-> h]
           G == [h \in D |-> [f \in [D -> V] |->
                    IF At(h) = {} THEN << >> ELSE IF K(h).confirmed THEN <<K(h)>>
                    ELSE Append(f[K(h).parent], K(h))]]
           walk == CHOOSE walk : walk = [h \in 0..hash |->
                      IF BoLD!Known(m.map, h) = {} THEN << >>
                      ELSE IF m.map[CHOOSE i \in BoLD!Known(m.map, h) : TRUE].confirmed
                           THEN <<m.map[CHOOSE i \in BoLD!Known(m.map, h) : TRUE]>>
                      ELSE Append(walk[m.map[CHOOSE i \in BoLD!Known(m.map, h) : TRUE].parent],
                                  m.map[CHOOSE i \in BoLD!Known(m.map, h) : TRUE])]
<1>1. BoLD!UnfinalizedAssertionChain(m, hash) = walk[hash]
  BY Zenon DEF BoLD!UnfinalizedAssertionChain
<1>2. \A h \in D : At(h) # {} => K(h) \in Entries(s) /\ K(h).parent \in Nat /\ K(h).parent < h
  BY KnownIs
<1>3. \A h \in D : At(h) # {} => K(h).parent \in D /\ K(h).parent < h
  <2> SUFFICES ASSUME NEW h \in D, At(h) # {} PROVE K(h).parent \in D
    BY <1>2
  <2>1. PICK p \in Nat : p = K(h).parent /\ p < h
    BY <1>2
  <2> HIDE DEF K
  <2>2. QED
    BY <2>1
<1>4. rank \in [D -> 0 .. hash] /\ \A h \in D : rank[h] = h
  OBVIOUS
<1>5. << >> \in V /\ \A e \in Entries(s) : <<e>> \in V /\ \A q \in V : Append(q, e) \in V
  BY EmptySeq, OneMore
<1> HIDE DEF D, At, K, V, rank
<1>6. G \in [D -> [[D -> V] -> V]]
  BY <1>2, <1>3, <1>5
<1>7. \A h \in D : \A f, g \in [D -> V] : SameBelow(D, rank, rank[h], f, g) => G[h][f] = G[h][g]
  <2> SUFFICES ASSUME NEW h \in D, NEW f \in [D -> V], NEW g \in [D -> V], SameBelow(D, rank, rank[h], f, g)
               PROVE  G[h][f] = G[h][g]
    OBVIOUS
  <2>1. At(h) # {} => f[K(h).parent] = g[K(h).parent]
    BY <1>3, <1>4 DEF SameBelow
  <2>2. QED
    BY <2>1
<1>8. Rule(D, V, hash, rank, G)
  <2> HIDE DEF G
  <2>1. QED
    BY <1>4, <1>5, <1>6, <1>7 DEF Rule
<1>9. PICK f \in [D -> V] : \A h \in D : f[h] = G[h][f]
  <2> HIDE DEF G
  <2>1. QED
    BY ONLY <1>8, Recursion
<1>10. \A h \in D : f[h] = IF At(h) = {} THEN << >> ELSE IF K(h).confirmed THEN <<K(h)>>
                          ELSE Append(f[K(h).parent], K(h))
  BY <1>9
<1>11. f = [h \in 0..hash |->
                      IF BoLD!Known(m.map, h) = {} THEN << >>
                      ELSE IF m.map[CHOOSE i \in BoLD!Known(m.map, h) : TRUE].confirmed
                           THEN <<m.map[CHOOSE i \in BoLD!Known(m.map, h) : TRUE]>>
                      ELSE Append(f[m.map[CHOOSE i \in BoLD!Known(m.map, h) : TRUE].parent],
                                  m.map[CHOOSE i \in BoLD!Known(m.map, h) : TRUE])]
  BY <1>10, Zenon DEF D, At, K, KnownAt
<1>12. walk = [h \in 0..hash |->
                      IF BoLD!Known(m.map, h) = {} THEN << >>
                      ELSE IF m.map[CHOOSE i \in BoLD!Known(m.map, h) : TRUE].confirmed
                           THEN <<m.map[CHOOSE i \in BoLD!Known(m.map, h) : TRUE]>>
                      ELSE Append(walk[m.map[CHOOSE i \in BoLD!Known(m.map, h) : TRUE].parent],
                                  m.map[CHOOSE i \in BoLD!Known(m.map, h) : TRUE])]
  BY <1>11, Zenon
<1> HIDE DEF walk, G
<1>13. \A h \in 0 .. hash :
            walk[h] = IF BoLD!Known(m.map, h) = {} THEN << >>
                      ELSE IF KnownAt(m, h).confirmed THEN <<KnownAt(m, h)>>
                      ELSE Append(walk[KnownAt(m, h).parent], KnownAt(m, h))
  BY <1>12, Zenon DEF KnownAt
<1>14. Walks(m, hash, walk)
  BY <1>13, Zenon DEF Walks
<1>15. QED
  BY <1>1, <1>14

\* On such a walk chains are collected, of entries.
LEMMA WalkKnown ==
    ASSUME NEW s, BoldOK(s), NEW m, BoldRemembers(s, m), NEW hash \in Nat, NEW walk, Walks(m, hash, walk)
    PROVE  \A h \in 0 .. hash : EntryChain(s, h, walk[h])
<1> DEFINE D == 0 .. hash
           At(h) == BoLD!Known(m.map, h)
           K(h) == KnownAt(m, h)
           rank == [h \in D |-> h]
           S == {h \in D : EntryChain(s, h, walk[h])}
<1>1. \A h \in D : walk[h] = IF At(h) = {} THEN << >> ELSE IF K(h).confirmed THEN <<K(h)>>
                          ELSE Append(walk[K(h).parent], K(h))
  BY Zenon DEF Walks
<1>2. rank \in [D -> 0 .. hash] /\ \A h \in D : rank[h] = h
  OBVIOUS
<1> HIDE DEF rank
<1>3. \A h \in D : (\A g \in D : rank[g] < rank[h] => g \in S) => h \in S
  <2> SUFFICES ASSUME NEW h \in D, \A g \in D : rank[g] < rank[h] => g \in S PROVE EntryChain(s, h, walk[h])
    OBVIOUS
  <2>1. CASE At(h) = {}
    BY <1>1, <2>1, NoChain
  <2>2. CASE At(h) # {} /\ K(h).confirmed
    <3>0. K(h) \in Entries(s) /\ K(h).hash = h
      BY ONLY BoldOK(s), BoldRemembers(s, m), <2>2, KnownIs
    <3>1. PICK e \in Entries(s) : e = K(h) /\ e.hash = h
      BY ONLY <3>0
    <3>2. walk[h] = <<e>>
      BY <1>1, <2>2, <3>1
    <3>3. QED
      BY <3>1, <3>2, ChainStarts
  <2>3. CASE At(h) # {} /\ ~K(h).confirmed
    <3>0. K(h) \in Entries(s) /\ K(h).hash = h /\ K(h).parent \in Nat /\ K(h).parent < h
      BY ONLY BoldOK(s), BoldRemembers(s, m), <2>3, KnownIs
    <3>1. PICK e \in Entries(s) : e = K(h) /\ e.hash = h /\ e.parent \in Nat /\ e.parent < h
      BY ONLY <3>0
    <3>2. e.parent \in D /\ rank[e.parent] < rank[h]
      BY <1>2, <3>1
    <3>3. PICK q : q = walk[e.parent]
      OBVIOUS
    <3>4. EntryChain(s, e.parent, q)
      BY <3>2, <3>3
    <3>5. walk[h] = Append(q, e)
      BY <1>1, <2>3, <3>1, <3>3
    <3>6. QED
      BY <3>1, <3>4, <3>5, ChainGrows
  <2>4. QED
    BY <2>1, <2>2, <2>3
<1>4. QED
  <2> HIDE DEF S
  <2>1. Inductive(D, hash, rank, S)
    BY <1>2, <1>3 DEF Inductive
  <2>2. \A h \in D : h \in S
    BY <2>1, Induction
  <2>3. QED
    BY <2>2 DEF S

\* What UnfinalizedAssertionChain collects is a chain.
LEMMA ChainKnown ==
    ASSUME NEW s, BoldOK(s), NEW m, BoldRemembers(s, m), NEW hash \in Nat
    PROVE  EntryChain(s, hash, BoLD!UnfinalizedAssertionChain(m, hash))
<1>1. PICK walk : BoLD!UnfinalizedAssertionChain(m, hash) = walk[hash] /\ Walks(m, hash, walk)
  BY ChainWalks
<1>2. hash \in 0 .. hash
  OBVIOUS
<1>3. QED
  BY <1>1, <1>2, WalkKnown

\* The assertions q, n of them, are a branch from a confirmed one to one that
\* finished, made in the block of the index; all confirmed, if only those are
\* served.
RestsOn(x, s, index, q, n) ==
    /\ n >= 2 /\ Len(q) = n /\ DOMAIN q = 1 .. n
    /\ \A k \in 1 .. n : q[k] \in DOMAIN s.nodes
    /\ \A k \in 2 .. n : /\ s.nodes[q[k]].parent = q[k - 1]
                         /\ ~BoLD!Unfinalized(x) => s.nodes[q[k]].status = "confirmed"
    /\ s.nodes[q[1]].status = "confirmed" /\ s.nodes[q[n]].finished /\ s.nodes[q[n]].made = index

\* The assertions of a commit are such a branch.
BoldRests(x, s, c) == \E n \in Nat : RestsOn(x, s, c.index, c.assertions, n)

\* It stays one while the chain goes on.
LEMMA BoldRested ==
    ASSUME NEW x, NEW s, NEW t, BoldStays(s, t), NEW c, BoldRests(x, s, c)
    PROVE  BoldRests(x, t, c)
<1>1. PICK n \in Nat : RestsOn(x, s, c.index, c.assertions, n)
  BY DEF BoldRests
<1>2. PICK q : q = c.assertions
  OBVIOUS
<1>3. RestsOn(x, s, c.index, q, n)
  BY <1>1, <1>2
<1>4. 1 \in 1 .. n /\ n \in 1 .. n /\ \A k \in 2 .. n : k \in 1 .. n
  BY <1>3 DEF RestsOn
<1>5. RestsOn(x, t, c.index, q, n)
  BY <1>3, <1>4 DEF RestsOn, BoldStays
<1>6. QED
  BY <1>2, <1>5 DEF BoldRests

\* The last of a sequence with a property, and 0 if there is none.
LEMMA LastAssertion ==
    ASSUME NEW S, NEW m, m.map \in Seq(S), NEW first, NEW last, NEW i, i = BoLD!LatestAssertion(m, first, last), i # 0
    PROVE  /\ i \in DOMAIN m.map /\ first <= m.map[i].created /\ m.map[i].created <= last
           /\ BoLD!IsValidAssertionChain(BoLD!UnfinalizedAssertionChain(m, m.map[i].hash))
<1> DEFINE I == {k \in 1 .. Len(m.map) :
                    /\ first <= m.map[k].created /\ m.map[k].created <= last
                    /\ BoLD!IsValidAssertionChain(BoLD!UnfinalizedAssertionChain(m, m.map[k].hash))}
<1>1. i = IF I # {} THEN BoLD!Max(I) ELSE 0
  BY Zenon DEF BoLD!LatestAssertion, BoLD!SelectLastInSeq
<1>2. Len(m.map) \in Nat /\ DOMAIN m.map = 1 .. Len(m.map)
  BY InSeq
<1>3. I \subseteq 0 .. Len(m.map) /\ I \subseteq DOMAIN m.map
  BY <1>2
<1>4. I # {} /\ i = BoLD!Max(I)
  BY <1>1
<1>5. i \in I
  <2> HIDE DEF I
  <2>1. PICK k \in I : \A y \in I : y <= k
    BY <1>2, <1>3, <1>4, GreatestOf
  <2>2. \A y \in I : k >= y
    BY <1>2, <1>3, <2>1
  <2>3. QED
    BY <1>4, <2>1, <2>2 DEF BoLD!Max
<1>6. QED
  BY <1>3, <1>5

\* The commit the gateway makes of what it remembers is such a branch.
LEMMA BoldFetched ==
    ASSUME NEW x, NEW s, BoldOK(s), BoldLinked(s), NEW m, BoldRemembers(s, m), NEW i \in Int,
           NEW c, c = BoLD!FetchCommit(x, s, m, i), c # BoLD!NoCommit
    PROVE  BoldRests(x, s, c)
<1> DEFINE found == BoLD!FindAssertionChainAtIndex(x, s, m, i)
           j == IF BoLD!Unfinalized(x) THEN BoLD!LatestAssertion(m, i, i) ELSE 0
           known == BoLD!UnfinalizedAssertionChain(m, m.map[j].hash)
           I == {k \in 1 .. Len(s.nodes) : /\ s.nodes[k].made = i /\ s.nodes[k].finished
                                           /\ s.nodes[k].status = "confirmed" /\ s.nodes[k].parent # 0}
           made == IF I # {} THEN BoLD!Max(I) ELSE 0
<1>1. found # << >> /\ c.index = i /\ c.assertions = found
  BY DEF BoLD!FetchCommit
<1>2. \/ j # 0 /\ found = [k \in DOMAIN known |-> known[k].hash]
      \/ made # 0 /\ found = <<s.nodes[made].parent, made>>
  BY <1>1, Zenon DEF BoLD!FindAssertionChainAtIndex, BoLD!SelectLastInSeq
<1>3. /\ Len(s.nodes) \in Nat /\ DOMAIN s.nodes = 1 .. Len(s.nodes)
      /\ \A a \in DOMAIN s.nodes : s.nodes[a] \in BoldNode
  BY BoldNodes DEF BoldOK
<1> HIDE DEF found
<1>4. CASE j # 0 /\ found = [k \in DOMAIN known |-> known[k].hash]
  <2>1. j = BoLD!LatestAssertion(m, i, i) /\ BoLD!Unfinalized(x)
    BY <1>4
  <2>2. m.map \in Seq(Entries(s))
    BY DEF BoldRemembers
  <2> HIDE DEF j
  <2>3. /\ j \in DOMAIN m.map /\ i <= m.map[j].created /\ m.map[j].created <= i
        /\ BoLD!IsValidAssertionChain(known)
    BY <1>4, <2>1, <2>2, LastAssertion
  <2>4. PICK e \in Entries(s) : e = m.map[j]
    BY <2>2, <2>3, InSeq
  <2>5. EntrySays(s, e) /\ e.hash \in Nat /\ e.created \in Nat
    BY <2>4 DEF Entries, KnownEntry
  <2>6. s.nodes[e.hash].made = i
    BY <2>3, <2>4, <2>5 DEF EntrySays
  <2>7. PICK q : q = known
    OBVIOUS
  <2>8. EntryChain(s, e.hash, q) /\ BoLD!IsValidAssertionChain(q)
    BY <2>3, <2>4, <2>5, <2>7, ChainKnown
  <2>9. found = [k \in DOMAIN q |-> q[k].hash]
    BY <1>4, <2>7
  <2>10. /\ q \in Seq(Entries(s)) /\ Len(q) \in Nat /\ DOMAIN q = 1 .. Len(q)
         /\ \A k \in DOMAIN q : q[k] \in Entries(s)
         /\ \A k \in 2 .. Len(q) : q[k].parent = q[k - 1].hash
    BY <2>8, InSeq DEF EntryChain
  <2>11. Len(q) >= 2 /\ q[1].confirmed /\ q[Len(q)].finished
    BY <2>8 DEF BoLD!IsValidAssertionChain
  <2>12. q # << >>
    BY <2>11, EmptySeq
  <2>13. q[Len(q)].hash = e.hash
    BY <2>8, <2>12 DEF EntryChain
  <2>14. \A k \in DOMAIN q : EntrySays(s, q[k]) /\ q[k].hash \in Nat
    BY <2>10 DEF Entries, KnownEntry
  <2>15. DOMAIN found = DOMAIN q /\ found = [k \in DOMAIN q |-> found[k]] /\ \A k \in DOMAIN q : found[k] = q[k].hash
    BY <2>9
  <2>16. \A k \in DOMAIN q : found[k] \in Nat
    BY <2>14, <2>15
  <2>17. Len(found) = Len(q)
    BY ONLY <2>10, <2>15, <2>16, Remade
  <2> DEFINE n == Len(q)
  <2>18. \A k \in 1 .. n : found[k] \in DOMAIN s.nodes
    BY <2>10, <2>14, <2>15 DEF EntrySays
  <2>19. \A k \in 2 .. n : s.nodes[found[k]].parent = found[k - 1]
    <3> SUFFICES ASSUME NEW k \in 2 .. n PROVE s.nodes[found[k]].parent = found[k - 1]
      OBVIOUS
    <3>1. k \in DOMAIN q /\ k - 1 \in DOMAIN q
      BY <2>10
    <3>2. found[k] = q[k].hash /\ found[k - 1] = q[k - 1].hash /\ q[k].parent = q[k - 1].hash
      BY <2>10, <2>15, <3>1
    <3>3. s.nodes[q[k].hash].parent = q[k].parent
      BY <2>14, <3>1 DEF EntrySays
    <3>4. QED
      BY <3>2, <3>3
  <2>20. 1 \in DOMAIN q /\ n \in DOMAIN q
    BY <2>10, <2>11
  <2>21. s.nodes[found[1]].status = "confirmed" /\ s.nodes[found[n]].finished /\ s.nodes[found[n]].made = i
    BY <2>6, <2>11, <2>13, <2>14, <2>15, <2>20 DEF EntrySays
  <2>22. RestsOn(x, s, i, found, n)
    BY <2>1, <2>10, <2>11, <2>15, <2>17, <2>18, <2>19, <2>21 DEF RestsOn
  <2>23. QED
    BY <1>1, <2>10, <2>22 DEF BoldRests
<1>5. CASE made # 0 /\ found = <<s.nodes[made].parent, made>>
  <2>1. I # {} /\ made = BoLD!Max(I)
    BY <1>5
  <2>2. I \subseteq 0 .. Len(s.nodes)
    BY <1>3
  <2>3. made \in I
    <3> HIDE DEF I, made
    <3>1. PICK k \in I : \A y \in I : y <= k
      BY <1>3, <2>1, <2>2, GreatestOf
    <3>2. \A y \in I : k >= y
      BY <1>3, <2>2, <3>1
    <3>3. QED
      BY <2>1, <3>1, <3>2 DEF BoLD!Max
  <2> HIDE DEF made
  <2>4. /\ made \in DOMAIN s.nodes /\ s.nodes[made].made = i /\ s.nodes[made].finished
        /\ s.nodes[made].status = "confirmed" /\ s.nodes[made].parent # 0
    BY <1>3, <2>3
  <2>5. PICK p \in DOMAIN s.nodes : p = s.nodes[made].parent
    BY <2>4, BoldParent
  <2>6. s.nodes[p].status = "confirmed"
    BY <2>4, <2>5 DEF BoldLinked
  <2>7. found = <<p, made>> /\ Len(found) = 2 /\ DOMAIN found = 1 .. 2 /\ found[1] = p /\ found[2] = made
    BY <1>5, <2>5
  <2>8. \A k \in 1 .. 2 : found[k] \in DOMAIN s.nodes
    BY <2>4, <2>5, <2>7
  <2>9. \A k \in 2 .. 2 : s.nodes[found[k]].parent = found[k - 1] /\ s.nodes[found[k]].status = "confirmed"
    BY <2>4, <2>5, <2>7
  <2>10. s.nodes[found[1]].status = "confirmed" /\ s.nodes[found[2]].finished /\ s.nodes[found[2]].made = i
    BY <2>4, <2>6, <2>7
  <2>11. RestsOn(x, s, i, found, 2)
    BY <2>7, <2>8, <2>9, <2>10 DEF RestsOn
  <2>12. QED
    BY <1>1, <2>11 DEF BoldRests
<1>6. QED
  BY <1>2, <1>4, <1>5, Zenon

\* Down a standing branch every assertion is confirmed, or stands: so a commit
\* is accepted, or too old, while its branch stands.
LEMMA BoldServed ==
    ASSUME NEW x, x.window \in Nat, x.minAge \in Nat, NEW a, BoldOK(a), NEW s, BoldOK(s), BoldLinked(s),
           NEW c, BoldRests(x, s, c), NEW d, d = BoLD!GetLatestContext(x, a), c.index <= d
    PROVE  \/ BoLD!GetStorageValues(x, s, d, BoLD!EncodeWitness(c)) \in Honest
           \/ BoLD!Spoiled(x, a, s, d, c)
<1>1. PICK n \in Nat : RestsOn(x, s, c.index, c.assertions, n)
  BY DEF BoldRests
<1>0. PICK q : q = c.assertions
  OBVIOUS
<1>2. /\ q = c.assertions /\ n >= 2 /\ Len(q) = n /\ DOMAIN q = 1 .. n
      /\ \A k \in 1 .. n : q[k] \in DOMAIN s.nodes
      /\ \A k \in 2 .. n : /\ s.nodes[q[k]].parent = q[k - 1]
                           /\ ~BoLD!Unfinalized(x) => s.nodes[q[k]].status = "confirmed"
      /\ s.nodes[q[1]].status = "confirmed" /\ s.nodes[q[n]].finished /\ s.nodes[q[n]].made = c.index
  BY <1>0, <1>1 DEF RestsOn
<1> SUFFICES ASSUME ~BoLD!Spoiled(x, a, s, d, c)
             PROVE  BoLD!GetStorageValues(x, s, d, BoLD!EncodeWitness(c)) \in Honest
  OBVIOUS
<1> DEFINE last == q[n]
           Sure(y) == s.nodes[y].status = "confirmed"
<1>3. BoLD!Standing(s, s.now, last) /\ last \in DOMAIN s.nodes
  BY <1>2 DEF BoLD!Spoiled
<1>4. /\ Len(s.nodes) \in Nat /\ DOMAIN s.nodes = 1 .. Len(s.nodes)
      /\ \A y \in DOMAIN s.nodes : s.nodes[y] \in BoldNode /\ s.nodes[y].parent < y
      /\ a.now \in Nat /\ a.nodes[a.confirmed].made \in Nat
  BY BoldNodes DEF BoldOK, BoldTyped, BoldNode
<1>5. PICK stands :
            /\ BoLD!Standing(s, s.now, last) <=> s.nodes[last].finished /\ stands[last]
            /\ \A y \in 0 .. last :
                      stands[y] <=> \/ y \in BoLD!ConfirmedBy(s, s.now)
                                    \/ /\ y # 0
                                       /\ ~BoLD!Rivalled(s, s.now, s.nodes[y].parent)
                                       /\ stands[s.nodes[y].parent]
  BY <1>3, StandingIs
<1>6. \A y \in BoLD!ConfirmedBy(s, s.now) : Sure(y)
  BY DEF BoLD!ConfirmedBy, BoldLinked, EventLinked
<1>7. stands[last]
  BY <1>3, <1>5
<1> HIDE DEF last
<1>8. \A y \in 0 .. last : stands[y] => \/ Sure(y)
                                        \/ /\ ~BoLD!Rivalled(s, s.now, s.nodes[y].parent)
                                           /\ stands[s.nodes[y].parent]
  BY <1>5, <1>6
<1> DEFINE down == [k \in 1 .. n |-> n - k]
           Q(k) == q[k] \in 0 .. last /\ (Sure(q[k]) \/ stands[q[k]])
           S == {k \in 1 .. n : Q(k)}
<1>9. \A k \in 2 .. n : k \in 1 .. n /\ k - 1 \in 1 .. n /\ q[k] # 0 /\ q[k - 1] \in DOMAIN s.nodes
  <2>1. \A k \in 2 .. n : k \in 1 .. n /\ k - 1 \in 1 .. n
    BY <1>2
  <2>2. \A y \in DOMAIN s.nodes : y # 0
    BY ONLY <1>4
  <2>3. 1 <= n /\ \A k \in 1 .. n : q[k] \in DOMAIN s.nodes
    BY <1>2
  <2>4. QED
    BY ONLY <2>1, <2>2, <2>3
<1>10. ASSUME NEW k \in 2 .. n, Q(k)
       PROVE  Q(k - 1) /\ (~Sure(q[k]) => ~BoLD!Rivalled(s, s.now, q[k - 1]))
  <2>1. PICK y \in DOMAIN s.nodes : y = q[k]
    BY <1>2, <1>9
  <2>2. PICK p \in DOMAIN s.nodes : p = q[k - 1] /\ s.nodes[y].parent = p
    BY <1>2, <1>9, <2>1
  <2>3. p \in 0 .. last
    <3>1. last \in DOMAIN s.nodes /\ y \in 0 .. last /\ p < y
      BY <1>3, <1>4, <1>10, <2>1, <2>2
    <3>2. QED
      BY <1>4, <2>2, <3>1
  <2>4. Sure(y) => Sure(p)
    <3>1. p # 0
      BY <1>4
    <3>2. QED
      BY <2>2, <3>1 DEF BoldLinked
  <2>5. y \in 0 .. last /\ (Sure(y) \/ stands[y])
    BY <1>10, <2>1
  <2>6. Sure(y) \/ (~BoLD!Rivalled(s, s.now, p) /\ stands[p])
    BY <1>8, <2>2, <2>5
  <2>7. QED
    BY <2>1, <2>2, <2>3, <2>4, <2>6
<1>11. Q(n)
  <2>1. last \in DOMAIN s.nodes /\ q[n] = last
    BY <1>3 DEF last
  <2>2. last \in 0 .. last
    BY <1>4, <2>1
  <2>3. QED
    BY <1>7, <2>1, <2>2
<1> HIDE DEF Q
<1>12. \A k \in 1 .. n : (\A l \in 1 .. n : down[l] < down[k] => l \in S) => k \in S
  <2> SUFFICES ASSUME NEW k \in 1 .. n, \A l \in 1 .. n : down[l] < down[k] => l \in S PROVE Q(k)
    OBVIOUS
  <2>1. CASE k = n
    BY <1>11, <2>1
  <2>2. CASE k # n
    <3>1. k + 1 \in 2 .. n /\ k + 1 \in 1 .. n /\ k + 1 - 1 = k
      BY <1>2, <2>2
    <3>2. down[k + 1] < down[k]
      BY <1>2, <3>1
    <3>3. k + 1 \in S
      BY <3>1, <3>2
    <3>4. Q(k + 1)
      BY <3>3
    <3>5. Q(k + 1 - 1)
      BY <1>10, <3>1, <3>4
    <3>6. QED
      BY <3>1, <3>5
  <2>3. QED
    BY <2>1, <2>2
<1>13. \A k \in 1 .. n : k \in S
  <2>1. down \in [1 .. n -> 0 .. n]
    BY <1>2
  <2> HIDE DEF S, down
  <2>2. Inductive(1 .. n, n, down, S)
    BY <1>2, <1>12, <2>1 DEF Inductive
  <2>3. QED
    BY <2>2, Induction
<1>14. \A k \in 2 .. n : ~Sure(q[k]) => ~s.nodes[q[k - 1]].rivalled
  <2> SUFFICES ASSUME NEW k \in 2 .. n, ~Sure(q[k]) PROVE ~s.nodes[q[k - 1]].rivalled
    OBVIOUS
  <2>1. Q(k)
    BY <1>9, <1>13
  <2>2. ~BoLD!Rivalled(s, s.now, q[k - 1]) /\ q[k - 1] \in DOMAIN s.nodes
    BY <1>9, <1>10, <2>1
  <2>3. QED
    BY <2>2 DEF BoldLinked, BoLD!Rivalled, BoLD!Hashes
<1>15. BoLD!VerifyAssertionChain(x, s, q) = "ok"
  <2>1. q[1] \in BoLD!Hashes(s) /\ ~(Len(q) < 2)
    BY <1>2 DEF BoLD!Hashes
  <2>2. \A k \in 2 .. Len(q) : q[k] \in BoLD!Hashes(s) /\ s.nodes[q[k]].parent = q[k - 1]
    BY <1>2, <1>9 DEF BoLD!Hashes
  <2>3. \A k \in 2 .. Len(q) : Sure(q[k]) \/ BoLD!Unfinalized(x)
    BY <1>2
  <2>4. \A k \in 2 .. Len(q) : Sure(q[k]) \/ ~s.nodes[q[k - 1]].rivalled
    BY <1>2, <1>14
  <2>5. Sure(q[1])
    BY <1>2
  <2>6. QED
    BY <2>1, <2>2, <2>3, <2>4, <2>5 DEF BoLD!VerifyAssertionChain
<1>16. BoLD!CheckWindow(x, d, c.index) \in Honest
  <2>1. c.index \in Nat
    BY <1>2, <1>3, <1>4 DEF last, BoldNode
  <2>2. d \in Int
    BY <1>4 DEF BoLD!GetLatestContext
  <2>3. QED
    BY <2>1, <2>2 DEF BoLD!CheckWindow, Honest
<1>17. BoLD!EncodeWitness(c).assertions = q
  BY <1>2 DEF BoLD!EncodeWitness
<1>18. QED
  BY <1>2, <1>15, <1>16, <1>17 DEF BoLD!GetStorageValues

-----------------------------------------------------------------------------
(* What the gateway fetches, of the rollups whose commits are simple.      *)

\* The commit the gateway made last is signed.
LEMMA TrustedFetched ==
    ASSUME NEW x, NEW s, NEW m, TrustedMemory(m), NEW i, NEW c, c = Trusted!FetchCommit(x, s, m, i), c # NoCommit
    PROVE  [signedAt |-> c.signedAt, root |-> c.root] \in m.signed
  BY DEF Trusted!FetchCommit, TrustedMemory

\* The gateway makes a commit of a block whose root is kept.
LEMMA LineaFetched ==
    ASSUME NEW x, NEW s, NEW i, NEW c, c = Linea!FetchCommit(x, s, i), c # Linea!NoCommit
    PROVE  c.index \in Linea!StateRootHashes(s)
<1>1. c.index = i /\ i \in {s.finals[k] : k \in DOMAIN s.finals}
  BY DEF Linea!FetchCommit
<1>2. QED
  BY <1>1 DEF Linea!StateRootHashes

\* A commit is of a finalized batch.
BatchesRests(x, s, c) == c.index \in Nat /\ (x.kind # "zkevm" => c.index \in Batches!FinalizedStateRoots(x, s))

\* The commit the gateway makes is.
LEMMA BatchesFetched ==
    ASSUME NEW x, NEW s, BatchesOK(s), NEW i, NEW c, c = Batches!FetchCommit(x, s, i), c # Batches!NoCommit
    PROVE  BatchesRests(x, s, c)
<1>1. c.index = i /\ Batches!IsFinalized(x, s, i)
  BY DEF Batches!FetchCommit
<1>2. CASE x.kind = "zksync"
  <2>1. i \in 1 .. Batches!LastFinalized(s, s.now)
    BY <1>1, <1>2 DEF Batches!IsFinalized, Batches!IsExecuted
  <2>2. i \in Nat
    BY <2>1, LastBatch
  <2>3. QED
    BY <1>1, <1>2, <2>1, <2>2 DEF BatchesRests, Batches!FinalizedStateRoots
<1>3. CASE x.kind # "zksync"
  <2>1. Batches!FinalEvents(s, i) # {}
    BY <1>1, <1>3 DEF Batches!IsFinalized, Batches!HasStateRoot, Batches!EndsItsBlobs, Batches!EndsABundle
  <2>2. PICK k \in DOMAIN s.finals : s.finals[k].index = i
    BY <2>1 DEF Batches!FinalEvents
  <2>3. s.finals[k] \in [index : Nat, block : Nat]
    BY <2>2, InSeq DEF BatchesOK
  <2>4. i \in Nat
    BY <2>2, <2>3
  <2>5. QED
    BY <1>1, <1>3, <2>2, <2>4 DEF BatchesRests, Batches!FinalizedStateRoots
<1>4. QED
  BY <1>2, <1>3

\* A commit is of a synced block that was written.
TaikoRests(x, s, c) == c.index \in s.written /\ c.index % x.sync = 0

\* The commit the gateway makes is.
LEMMA TaikoFetched ==
    ASSUME NEW x, NEW s, NEW i, i % x.sync = 0, NEW c, c = Taiko!FetchCommit(x, s, i), c # Taiko!NoCommit
    PROVE  TaikoRests(x, s, c)
  BY DEF Taiko!FetchCommit, TaikoRests

\* The commit the gateway makes of a block rests on the second chain.
LEMMA ReverseFetched ==
    ASSUME NEW x, x.depth \in Nat, NEW s, ReverseOK(s), NEW i \in Nat, NEW c, c = Reverse!FetchCommit(x, s, i),
           c # Reverse!NoCommit
    PROVE  ReverseRests(s, c)
<1>1. PICK n : n = Reverse!FindL2Block(x, s, i)
  OBVIOUS
<1>2. n # Reverse!NoIndex /\ c = [index |-> i, l2Block |-> n]
  BY <1>1 DEF Reverse!FetchCommit
<1>3. n \in 0 .. Reverse!BlockNumber(s) /\ Reverse!L1Number(s, n) = i
  BY <1>1, <1>2, L2BlockFound
<1>4. QED
  BY <1>2, <1>3 DEF ReverseRests

\* The commit the gateway makes of a time rests on the chain.
LEMMA UncheckedFetched ==
    ASSUME NEW x, x.depth \in Nat \ {0}, NEW s, UncheckedLinked(s), NEW i \in Nat, NEW c,
           c = Unchecked!FetchCommit(x, s, i), c # Unchecked!NoCommit
    PROVE  UncheckedRests(s, c)
<1>1. PICK n : n = Unchecked!FindVisibleBlock(x, s, i)
  OBVIOUS
<1>2. n # Unchecked!NoIndex /\ c = [index |-> i, block |-> n, t |-> Unchecked!Time(s, n)]
  BY <1>1 DEF Unchecked!FetchCommit
<1>3. n \in 0 .. Unchecked!BlockNumber(s)
  BY <1>1, <1>2, VisibleFound
<1>4. QED
  BY <1>2, <1>3 DEF UncheckedRests

\* The commit the gateway makes of an output has the root of its output.
LEMMA OutputsFetched ==
    ASSUME NEW x, NEW s, NEW i \in Nat, NEW c, c = Outputs!FetchCommit(x, s, i), c # Outputs!NoCommit
    PROVE  OutputsRests(c)
<1>1. c = [index |-> i, output |-> Outputs!OutputAt(s, i),
           root |-> Outputs!Root(Outputs!OutputAt(s, i).root.block, TRUE)]
  BY DEF Outputs!FetchCommit
<1>2. QED
  BY <1>1 DEF OutputsRests

\* The indices the gateway finds where indices are just numbers.
LEMMA NumberedFound ==
    ASSUME NEW x, x.max \in Nat, NEW s, NEW i, i # NoIndex
    PROVE  /\ OutputsOK(s) /\ x.finalization \in Nat /\ x.minAge \in Nat /\ i = Outputs!FindOutputIndex(x, s) => i \in Nat
           /\ UncheckedLinked(s) /\ i = Unchecked!FetchLatestCommitIndex(x, s) => i \in Nat
           /\ s.now \in Nat /\ x.step \in Nat \ {0} /\ i = Self!FetchLatestCommitIndex(x, s) => i \in Int
           /\ InteractiveOK(s) /\ i = Interactive!FetchLatestCommitIndex(x, s) => i \in Nat
           /\ ReverseOK(s) /\ x.step \in Nat \ {0} /\ i = Reverse!FetchLatestCommitIndex(x, s) => i \in Nat
<1>1. ASSUME OutputsOK(s), x.finalization \in Nat, x.minAge \in Nat, i = Outputs!FindOutputIndex(x, s)
      PROVE  i \in Nat
  <2>1. i \in 0 .. Len(s.outputs) - 1
    BY <1>1, OutputFound DEF NoIndex, Outputs!NoIndex
  <2>2. Len(s.outputs) \in Nat
    BY <1>1, OutputsTyped
  <2>3. QED
    BY <2>1, <2>2
<1>2. ASSUME UncheckedLinked(s), i = Unchecked!FetchLatestCommitIndex(x, s) PROVE i \in Nat
  BY <1>2, UncheckedTimes DEF Unchecked!FetchLatestCommitIndex
<1>3. ASSUME s.now \in Nat, x.step \in Nat \ {0}, i = Self!FetchLatestCommitIndex(x, s) PROVE i \in Int
  BY <1>3 DEF Self!FetchLatestCommitIndex, Self!Align
<1>4. ASSUME InteractiveOK(s), i = Interactive!FetchLatestCommitIndex(x, s) PROVE i \in Nat
  BY <1>4 DEF InteractiveOK, Interactive!FetchLatestCommitIndex
<1>5. ASSUME ReverseOK(s), x.step \in Nat \ {0}, i = Reverse!FetchLatestCommitIndex(x, s) PROVE i \in Nat
  <2>1. Reverse!L1Number(s, Reverse!BlockNumber(s)) \in Nat
    BY <1>5, InSeq DEF ReverseOK, Reverse!L1Number, Reverse!BlockNumber
  <2>2. QED
    BY <1>5, <2>1, AlignDown DEF Reverse!FetchLatestCommitIndex
<1>6. QED
  BY <1>1, <1>2, <1>3, <1>4, <1>5

-----------------------------------------------------------------------------
(* Rollups.tla: what the gateway goes by and what a commit rests on, whatever   *)
(* rollup is read; and that a commit that rests on the chain is accepted.      *)

\* No batch is finalized in a block to come.
BatchesLinked(s) == \A k \in DOMAIN s.finals : s.finals[k].block <= s.now

\* What more holds of the chain, whatever rollup is read,
ChainLinked(x, s) ==
    /\ x.rollup = "games" => GamesLinked(s)
    /\ x.rollup = "nitro" => NitroLinked(s)
    /\ x.rollup = "double" => NitroLinked(s.one)
    /\ x.rollup = "bold" => BoldLinked(s)
    /\ x.rollup = "unchecked" => UncheckedLinked(s)
    /\ x.rollup = "interactive" => InteractiveLinked(s)
    /\ x.rollup = "taiko" => TaikoLinked(x, s)
    /\ x.rollup = "batches" => BatchesLinked(s)
    /\ x.rollup = "checkpoints" => CheckpointLinked(s)

\* and of what the gateway remembers of it.
MemoryLinked(x, s, m) ==
    /\ x.rollup = "bold" => BoldRemembers(s, m)
    /\ x.rollup = "trusted" => TrustedMemory(m)

\* An index there can be.
IndexOK(x, i) ==
    /\ x.rollup \in {"outputs", "reverse", "unchecked", "interactive"} => i \in Nat
    /\ x.rollup \in {"bold", "self"} => i \in Int
    /\ x.rollup = "taiko" => i % x.sync = 0

\* What a commit rests on, on the chain and among what is remembered.
CommitRests(x, s, m, c) ==
    /\ x.rollup = "outputs" => OutputsRests(c)
    /\ x.rollup = "games" => GamesRests(s, c)
    /\ x.rollup = "reverse" => ReverseRests(s, c)
    /\ x.rollup = "nitro" => NitroRests(x, s, c)
    /\ x.rollup = "double" => DoubleRests(x, s, c)
    /\ x.rollup = "bold" => BoldRests(x, s, c)
    /\ x.rollup = "trusted" => [signedAt |-> c.signedAt, root |-> c.root] \in m.signed
    /\ x.rollup = "unchecked" => UncheckedRests(s, c)
    /\ x.rollup = "interactive" => c.index \in Nat /\ c.right = TRUE
    /\ x.rollup = "self" => c.index \in Int
    /\ x.rollup = "linea" => c.index \in Linea!StateRootHashes(s)
    /\ x.rollup # "shnarfs"
    /\ x.rollup = "batches" => BatchesRests(x, s, c)
    /\ x.rollup = "taiko" => TaikoRests(x, s, c)
    /\ x.rollup = "checkpoints" => CheckpointRests(s, c)

\* A chain starts so, and the gateway remembers nothing.
LEMMA LinkedStart ==
    ASSUME NEW x, IsSetting(x)
    PROVE  ChainLinked(x, Start(x)) /\ MemoryLinked(x, Start(x), NoMemory(x))
<1>1. ASSUME x.rollup = "games" PROVE GamesLinked(Start(x))
  <2>1. Start(x) = Games!Start(x)
    BY <1>1 DEF Start
  <2>2. Games!Start(x).games = << >>
    BY DEF Games!Start
  <2>3. Games!Games(Games!Start(x)) = {}
    BY <2>2 DEF Games!Games
  <2>4. QED
    BY <2>1, <2>3 DEF GamesLinked
<1>2. ASSUME x.rollup \in {"nitro", "double"} PROVE NitroLinked(Nitro!Start(x))
  <2> DEFINE node == [prev |-> 0, made |-> 1, staked |-> FALSE, state |-> "confirmed"]
             s == Nitro!Start(x)
  <2>1. s.confirmed = 0 /\ s.nodes = <<node>>
    BY DEF Nitro!Start
  <2> HIDE DEF s
  <2>2. Nitro!Nodes(s) = {0} /\ Nitro!NodeAt(s, 0) = node
    BY <2>1 DEF Nitro!Nodes, Nitro!NodeAt
  <2>3. node.made = 1 /\ node.prev = 0 /\ node.state = "confirmed"
    OBVIOUS
  <2> HIDE DEF node
  <2>4. QED
    BY <2>1, <2>2, <2>3 DEF NitroLinked, NitroStands, s
<1>3. ASSUME x.rollup = "bold" PROVE BoldLinked(Start(x)) /\ BoldRemembers(Start(x), NoMemory(x))
  <2> DEFINE s == BoLD!Start(x)
             node == s.nodes[1]
  <2>1. Start(x) = s /\ NoMemory(x) = BoLD!NoMemory /\ x.start \in Nat \ {0}
    BY <1>3 DEF Start, NoMemory, IsSetting
  <2>2. /\ s.now = x.start /\ s.confirmed = 1 /\ DOMAIN s.nodes = {1} /\ DOMAIN s.log = {1, 2}
        /\ node.made = 1 /\ node.parent = 0 /\ node.status = "confirmed" /\ node.rivalled = FALSE
        /\ s.log[1].hash = 1 /\ s.log[1].name = "created" /\ s.log[1].block = 1
        /\ s.log[2].hash = 1 /\ s.log[2].name = "confirmed"
    BY DEF BoLD!Start, BoLD!Event
  <2> HIDE DEF s
  <2>3. EventLinked(s, s.log[1]) /\ EventLinked(s, s.log[2])
    BY <2>2 DEF EventLinked
  <2>4. BoldLinked(s)
    BY <2>1, <2>2, <2>3 DEF BoldLinked
  <2>5. QED
    BY <2>1, <2>4, BoldNothing
<1>4. ASSUME x.rollup = "unchecked" PROVE UncheckedLinked(Start(x))
  <2>1. Start(x).times = <<1>>
    BY <1>4 DEF Start, Unchecked!Start
  <2>2. QED
    BY <2>1 DEF UncheckedLinked
<1>5. ASSUME x.rollup = "interactive" PROVE InteractiveLinked(Start(x))
  <2>1. Start(x).commits = << >>
    BY <1>5 DEF Start, Interactive!Start
  <2>2. QED
    BY <2>1 DEF InteractiveLinked
<1>6. ASSUME x.rollup = "taiko" PROVE TaikoLinked(x, Start(x))
  <2>1. Start(x).synced = 0 /\ Start(x).written = {} /\ Start(x).verified = 0
    BY <1>6 DEF Start, Taiko!Start
  <2>2. x.sync \in Nat \ {0}
    BY <1>6 DEF IsSetting
  <2>3. 0 % x.sync = 0
    BY <2>2
  <2>4. QED
    BY <2>1, <2>3 DEF TaikoLinked
<1>7. ASSUME x.rollup = "checkpoints" PROVE CheckpointLinked(Start(x))
  <2>1. Start(x).headers = << >>
    BY <1>7 DEF Start, Checkpoint!Start
  <2>2. QED
    BY <2>1 DEF CheckpointLinked
<1>8. ASSUME x.rollup = "trusted" PROVE TrustedMemory(NoMemory(x))
  <2>1. NoMemory(x).latest = Trusted!NoCommit
    BY <1>8 DEF NoMemory, Trusted!NoMemory
  <2>2. QED
    BY <2>1 DEF TrustedMemory, NoCommit, Trusted!NoCommit, NoIndex, Trusted!NoIndex
<1>9. x.rollup = "nitro" => NitroLinked(Start(x))
  BY <1>2 DEF Start
<1>10. x.rollup = "double" => NitroLinked(Start(x).one)
  <2>1. Double!Nitro!Start(x) = Nitro!Start(x)
    BY DEF Double!Nitro!Start, Nitro!Start
  <2>2. QED
    BY <1>2, <2>1 DEF Start, Double!Start
<1>11. ASSUME x.rollup = "batches" PROVE BatchesLinked(Start(x))
  <2>1. Start(x).finals = << >>
    BY <1>11 DEF Start, Batches!Start
  <2>2. QED
    BY <2>1 DEF BatchesLinked
<1>12. QED
  BY <1>11, <1>1, <1>3, <1>4, <1>5, <1>6, <1>7, <1>8, <1>9, <1>10 DEF ChainLinked, MemoryLinked

\* What is remembered and what a commit rests on outlasts the step from s to t.
Stays(x, s, t) ==
    \A m : /\ MemoryLinked(x, s, m) => MemoryLinked(x, t, m)
           /\ \A c : CommitRests(x, s, m, c) => CommitRests(x, t, m, c)

\* A commit of a game outlasts a step of the games.
LEMMA GamesSameRests ==
    ASSUME NEW s, NEW t, GamesSame(s, t), NEW c, GamesRests(s, c)
    PROVE  GamesRests(t, c)
  BY DEF GamesSame, GamesRests

\* A finalized batch stays finalized in a move of the chain,
LEMMA BatchesLater ==
    ASSUME NEW x, NEW s, BatchesOK(s), BatchesLinked(s), NEW t \in Batches!Moves(x, s)
    PROVE  BatchesLinked(t) /\ Batches!FinalizedStateRoots(x, s) \subseteq Batches!FinalizedStateRoots(x, t)
<1>1. CASE \E n : t = [s EXCEPT !.commits = Append(@, n)]
  <2>1. t.now = s.now /\ t.finals = s.finals
    BY <1>1 DEF BatchesOK
  <2>2. QED
    BY <2>1 DEF BatchesLinked, Batches!FinalizedStateRoots, Batches!LastFinalized, Batches!Finals
<1>2. CASE \E i \in Batches!LastFinalized(s, s.now) + 1 .. Batches!LastCommitted(s) :
                t = [s EXCEPT !.finals = Append(@, [index |-> i, block |-> s.now])]
  <2>1. PICK i \in Batches!LastFinalized(s, s.now) + 1 .. Batches!LastCommitted(s) :
                t = [s EXCEPT !.finals = Append(@, [index |-> i, block |-> s.now])]
    BY <1>2
  <2> DEFINE e == [index |-> i, block |-> s.now]
             S == [index : Nat, block : Nat]
  <2>2. Batches!LastFinalized(s, s.now) \in Nat /\ i \in Int /\ i > Batches!LastFinalized(s, s.now)
    BY <2>1, LastBatch
  <2>3. s.finals \in Seq(S) /\ e \in S /\ e.index = i /\ e.block = s.now /\ s.now \in Nat
    BY <2>2 DEF BatchesOK
  <2>4. t.now = s.now /\ t.finals = Append(s.finals, e)
    BY <2>1 DEF BatchesOK
  <2> HIDE DEF e, S
  <2>5. /\ DOMAIN t.finals = 1 .. Len(s.finals) + 1 /\ t.finals[Len(s.finals) + 1] = e
        /\ \A k \in DOMAIN s.finals : t.finals[k] = s.finals[k]
        /\ Len(s.finals) \in Nat /\ DOMAIN s.finals = 1 .. Len(s.finals)
    BY <2>3, <2>4, OneMore, InSeq
  <2>9. BatchesLinked(t)
    BY <2>3, <2>4, <2>5 DEF BatchesLinked
  <2>6. CASE x.kind = "zksync"
    <3> DEFINE K == Batches!Finals(t, t.now)
               last == Len(s.finals) + 1
    <3>1. last \in K /\ \A k \in K : k <= last
      BY <2>3, <2>4, <2>5 DEF Batches!Finals
    <3>2. \A k \in K : k \in Int
      BY <2>5 DEF Batches!Finals
    <3>3. (CHOOSE k \in K : \A j \in K : j <= k) = last
      <4> HIDE DEF K
      <4>1. last \in Int
        BY <2>5
      <4> HIDE DEF last
      <4>2. \A k \in K : (\A j \in K : j <= k) <=> k = last
        BY <3>1, <3>2, <4>1
      <4>3. QED
        BY <3>1, <4>2
    <3>4. Batches!LastFinalized(t, t.now) = i
      BY <2>3, <2>5, <3>1, <3>3 DEF Batches!LastFinalized
    <3>5. Batches!FinalizedStateRoots(x, s) \subseteq Batches!FinalizedStateRoots(x, t)
      BY <2>2, <2>6, <3>4 DEF Batches!FinalizedStateRoots
    <3>6. QED
      BY <2>9, <3>5
  <2>7. CASE x.kind # "zksync"
    <3>1. Batches!FinalizedStateRoots(x, s) \subseteq Batches!FinalizedStateRoots(x, t)
      BY <2>5, <2>7 DEF Batches!FinalizedStateRoots
    <3>2. QED
      BY <2>9, <3>1
  <2>8. QED
    BY <2>6, <2>7
<1>3. QED
  BY <1>1, <1>2 DEF Batches!Moves

\* and in time.
LEMMA BatchesLinksTick ==
    ASSUME NEW x, NEW s, BatchesOK(s), BatchesLinked(s), NEW t, t = [s EXCEPT !.now = @ + 1]
    PROVE  BatchesLinked(t) /\ Batches!FinalizedStateRoots(x, s) \subseteq Batches!FinalizedStateRoots(x, t)
<1>1. t.now = s.now + 1 /\ t.finals = s.finals
  BY DEF BatchesOK
<1>2. s.now \in Nat /\ \A k \in DOMAIN s.finals : s.finals[k] \in [index : Nat, block : Nat]
  BY InSeq DEF BatchesOK
<1>3. \A k \in DOMAIN s.finals : s.finals[k].block \in Nat /\ s.finals[k].block <= s.now
  BY <1>2 DEF BatchesLinked
<1>4. Batches!Finals(t, t.now) = Batches!Finals(s, s.now)
  BY <1>1, <1>2, <1>3 DEF Batches!Finals
<1>5. Batches!LastFinalized(t, t.now) = Batches!LastFinalized(s, s.now)
  <2>1. PICK K : K = Batches!Finals(s, s.now) /\ K = Batches!Finals(t, t.now)
    BY <1>4
  <2>2. PICK last : last = CHOOSE k \in K : \A m \in K : m <= k
    OBVIOUS
  <2>3. Batches!LastFinalized(s, s.now) = IF K = {} THEN 0 ELSE s.finals[last].index
    BY <2>1, <2>2 DEF Batches!LastFinalized
  <2>4. Batches!LastFinalized(t, t.now) = IF K = {} THEN 0 ELSE t.finals[last].index
    BY <2>1, <2>2 DEF Batches!LastFinalized
  <2>5. QED
    BY <1>1, <2>3, <2>4
<1>6. BatchesLinked(t)
  BY <1>1, <1>2, <1>3 DEF BatchesLinked
<1>7. QED
  BY <1>1, <1>5, <1>6 DEF Batches!FinalizedStateRoots

\* A move of the chain.
LEMMA LinkedMoves ==
    ASSUME NEW x, IsSetting(x), NEW s, ChainOK(x, s), ChainLinked(x, s), NEW t \in Moves(x, s)
    PROVE  ChainLinked(x, t) /\ Stays(x, s, t)
<1>0. x.max \in Nat /\ ChainOK(x, t) /\ ChainKept(x, s, t)
  BY ChainMoves DEF IsSetting
<1>1. CASE x.rollup = "games"
  <2>1. t \in Games!Moves(x, s)
    BY <1>1 DEF Moves
  <2>2. GamesOK(s) /\ GamesLinked(s) /\ \A k \in x.creations : k.right \in BOOLEAN
    BY <1>0, <1>1 DEF ChainOK, ChainKept, ChainLinked, IsSetting
  <2>3. GamesLinked(t) /\ GamesSame(s, t)
    BY ONLY <2>1, <2>2, GamesLinks
  <2>4. \A c : GamesRests(s, c) => GamesRests(t, c)
    BY ONLY <2>1, <2>2, <2>3, GamesSameRests
  <2>5. QED
    BY <1>1, <2>3, <2>4 DEF ChainLinked, Stays, MemoryLinked, CommitRests
<1>2. CASE x.rollup = "reverse"
  <2>1. t \in Reverse!Moves(x, s)
    BY <1>2 DEF Moves
  <2>2. ReverseOK(s) /\ s = [l2 |-> s.l2]
    BY <1>0, <1>2 DEF ChainOK, ChainKept, ChainLinked, IsSetting
  <2>3. \A c : ReverseRests(s, c) => ReverseRests(t, c)
    BY ONLY <2>1, <2>2, ReverseStays
  <2>4. QED
    BY <1>2, <2>3 DEF ChainLinked, Stays, MemoryLinked, CommitRests
<1>3. CASE x.rollup = "nitro"
  <2>1. t \in Nitro!Moves(x, s)
    BY <1>3 DEF Moves
  <2>2. NitroOK(s) /\ NitroLinked(s) /\ NitroKept(s, t)
    BY <1>0, <1>3 DEF ChainOK, ChainKept, ChainLinked, IsSetting
  <2>3. NitroLinked(t)
    BY ONLY <2>1, <2>2, NitroLinks
  <2>4. \A c : NitroRests(x, s, c) => NitroRests(x, t, c)
    BY ONLY <2>1, <2>2, <2>3, NitroRested
  <2>5. QED
    BY <1>3, <2>3, <2>4 DEF ChainLinked, Stays, MemoryLinked, CommitRests
<1>4. CASE x.rollup = "double"
  <2>1. t \in Double!Moves(x, s)
    BY <1>4 DEF Moves
  <2>2. DoubleOK(x, s) /\ NitroLinked(s.one) /\ x.confirmation \in Nat
    BY <1>0, <1>4 DEF ChainOK, ChainKept, ChainLinked, IsSetting
  <2>3. NitroLinked(t.one) /\ \A c : DoubleRests(x, s, c) => DoubleRests(x, t, c)
    BY ONLY <2>1, <2>2, DoubleLinks
  <2>4. QED
    BY <1>4, <2>3 DEF ChainLinked, Stays, MemoryLinked, CommitRests
<1>5. CASE x.rollup = "bold"
  <2>1. t \in BoLD!Moves(x, s)
    BY <1>5 DEF Moves
  <2>2. BoldOK(s) /\ BoldLinked(s) /\ x.finishes \subseteq BOOLEAN
    BY <1>0, <1>5 DEF ChainOK, ChainKept, ChainLinked, IsSetting
  <2>3. BoldLinked(t) /\ BoldStays(s, t)
    BY ONLY <2>1, <2>2, BoldLinks
  <2>4. /\ \A m : BoldRemembers(s, m) => BoldRemembers(t, m)
        /\ \A c : BoldRests(x, s, c) => BoldRests(x, t, c)
    BY ONLY <2>1, <2>2, <2>3, EntriesStay, BoldRested
  <2>5. QED
    BY <1>5, <2>3, <2>4 DEF ChainLinked, Stays, MemoryLinked, CommitRests
<1>6. CASE x.rollup = "unchecked"
  <2>1. t \in Unchecked!Moves(x, s)
    BY <1>6 DEF Moves
  <2>2. UncheckedOK(s) /\ UncheckedLinked(s)
    BY <1>0, <1>6 DEF ChainOK, ChainKept, ChainLinked, IsSetting
  <2>3. UncheckedLinked(t) /\ \A c : UncheckedRests(s, c) => UncheckedRests(t, c)
    BY ONLY <2>1, <2>2, UncheckedStays
  <2>4. QED
    BY <1>6, <2>3 DEF ChainLinked, Stays, MemoryLinked, CommitRests
<1>7. CASE x.rollup = "interactive"
  <2>1. t \in Interactive!Moves(x, s)
    BY <1>7 DEF Moves
  <2>2. InteractiveOK(s) /\ InteractiveLinked(s)
    BY <1>0, <1>7 DEF ChainOK, ChainKept, ChainLinked, IsSetting
  <2>3. InteractiveLinked(t)
    BY ONLY <2>1, <2>2, <1>0, InteractiveLinks
  <2>4. QED
    BY <1>7, <2>3 DEF ChainLinked, Stays, MemoryLinked, CommitRests
<1>8. CASE x.rollup = "linea"
  <2>1. t \in Linea!Moves(x, s)
    BY <1>8 DEF Moves
  <2>2. LineaOK(s) /\ LineaOK(t) /\ LineaKept(s, t)
    BY <1>0, <1>8 DEF ChainOK, ChainKept, ChainLinked, IsSetting
  <2>3. Linea!StateRootHashes(s) \subseteq Linea!StateRootHashes(t)
    BY ONLY <2>1, <2>2, LineaStays
  <2>4. QED
    BY <1>8, <2>3 DEF ChainLinked, Stays, MemoryLinked, CommitRests
<1>9. CASE x.rollup = "batches"
  <2>1. t \in Batches!Moves(x, s)
    BY <1>9 DEF Moves
  <2>2. BatchesOK(s) /\ BatchesLinked(s)
    BY <1>0, <1>9 DEF ChainOK, ChainKept, ChainLinked, IsSetting
  <2>3. BatchesLinked(t) /\ Batches!FinalizedStateRoots(x, s) \subseteq Batches!FinalizedStateRoots(x, t)
    BY ONLY <2>1, <2>2, BatchesLater
  <2>4. QED
    BY <1>9, <2>3 DEF ChainLinked, Stays, MemoryLinked, CommitRests, BatchesRests
<1>10. CASE x.rollup = "taiko"
  <2>1. t \in Taiko!Moves(x, s)
    BY <1>10 DEF Moves
  <2>2. TaikoOK(x, s) /\ TaikoLinked(x, s) /\ x.sync \in Nat \ {0}
    BY <1>0, <1>10 DEF ChainOK, ChainKept, ChainLinked, IsSetting
  <2>3. TaikoLinked(x, t) /\ s.written \subseteq t.written
    BY ONLY <2>1, <2>2, <1>0, TaikoLinks
  <2>4. QED
    BY <1>10, <2>3 DEF ChainLinked, Stays, MemoryLinked, CommitRests, TaikoRests
<1>11. CASE x.rollup = "checkpoints"
  <2>1. t \in Checkpoint!Moves(x, s)
    BY <1>11 DEF Moves
  <2>2. CheckpointOK(s) /\ CheckpointLinked(s) /\ CheckpointOK(t) /\ CheckpointKept(s, t) /\ x.deployed \in Nat
    BY <1>0, <1>11 DEF ChainOK, ChainKept, ChainLinked, IsSetting
  <2>3. CheckpointLinked(t) /\ s.posts \subseteq t.posts
    BY ONLY <2>1, <2>2, <1>0, CheckpointLinks
  <2>4. \A c : CheckpointRests(s, c) => CheckpointRests(t, c)
    BY ONLY <2>1, <2>2, <2>3, CheckpointRested
  <2>5. QED
    BY <1>11, <2>3, <2>4 DEF ChainLinked, Stays, MemoryLinked, CommitRests
<1>12. CASE x.rollup \in {"trusted", "self"}
  BY <1>12 DEF Moves, Trusted!Moves, Self!Moves
<1>13. CASE x.rollup \in {"outputs", "shnarfs", "updates"}
  BY <1>13 DEF ChainLinked, Stays, MemoryLinked, CommitRests
<1>14. QED
  BY <1>1, <1>2, <1>3, <1>4, <1>5, <1>6, <1>7, <1>8, <1>9, <1>10, <1>11, <1>12, <1>13 DEF IsSetting

\* Time passes.
LEMMA LinkedTicks ==
    ASSUME NEW x, IsSetting(x), NEW s, ChainOK(x, s), ChainLinked(x, s), "now" \in DOMAIN s, NEW t, t = [s EXCEPT !.now = @ + 1]
    PROVE  ChainLinked(x, t) /\ Stays(x, s, t)
<1>0. ChainOK(x, t) /\ ChainKept(x, s, t)
  BY ChainTicks
<1>1. CASE x.rollup = "games"
  <2>1. GamesOK(s) /\ GamesLinked(s)
    BY <1>0, <1>1 DEF ChainOK, ChainKept, ChainLinked
  <2>2. GamesLinked(t) /\ GamesSame(s, t)
    BY ONLY <2>1, t = [s EXCEPT !.now = @ + 1], GamesLinksTick
  <2>3. \A c : GamesRests(s, c) => GamesRests(t, c)
    BY ONLY <2>1, <2>2, GamesSameRests
  <2>4. QED
    BY <1>1, <2>2, <2>3 DEF ChainLinked, Stays, MemoryLinked, CommitRests
<1>2. CASE x.rollup = "nitro"
  <2>1. NitroOK(s) /\ NitroLinked(s) /\ NitroKept(s, t)
    BY <1>0, <1>2 DEF ChainOK, ChainKept, ChainLinked
  <2>2. NitroLinked(t)
    BY ONLY <2>1, t = [s EXCEPT !.now = @ + 1], NitroLinksTick
  <2>3. \A c : NitroRests(x, s, c) => NitroRests(x, t, c)
    BY ONLY <2>1, <2>2, NitroRested
  <2>4. QED
    BY <1>2, <2>2, <2>3 DEF ChainLinked, Stays, MemoryLinked, CommitRests
<1>3. CASE x.rollup = "bold"
  <2>1. BoldOK(s) /\ BoldLinked(s)
    BY <1>0, <1>3 DEF ChainOK, ChainKept, ChainLinked
  <2>2. BoldLinked(t) /\ BoldStays(s, t)
    BY ONLY <2>1, t = [s EXCEPT !.now = @ + 1], BoldLinksTick
  <2>3. /\ \A m : BoldRemembers(s, m) => BoldRemembers(t, m)
        /\ \A c : BoldRests(x, s, c) => BoldRests(x, t, c)
    BY ONLY <2>1, <2>2, EntriesStay, BoldRested
  <2>4. QED
    BY <1>3, <2>2, <2>3 DEF ChainLinked, Stays, MemoryLinked, CommitRests
<1>4. CASE x.rollup = "linea"
  <2>1. LineaOK(s) /\ LineaOK(t) /\ LineaKept(s, t)
    BY <1>0, <1>4 DEF ChainOK, ChainKept, ChainLinked
  <2>2. Linea!StateRootHashes(s) \subseteq Linea!StateRootHashes(t)
    BY ONLY <2>1, t = [s EXCEPT !.now = @ + 1], LineaStays
  <2>3. QED
    BY <1>4, <2>2 DEF ChainLinked, Stays, MemoryLinked, CommitRests
<1>5. CASE x.rollup = "batches"
  <2>1. BatchesOK(s) /\ BatchesLinked(s)
    BY <1>0, <1>5 DEF ChainOK, ChainKept, ChainLinked
  <2>2. BatchesLinked(t) /\ Batches!FinalizedStateRoots(x, s) \subseteq Batches!FinalizedStateRoots(x, t)
    BY ONLY <2>1, t = [s EXCEPT !.now = @ + 1], BatchesLinksTick
  <2>3. QED
    BY <1>5, <2>2 DEF ChainLinked, Stays, MemoryLinked, CommitRests, BatchesRests
<1>6. CASE x.rollup = "unchecked"
  <2>1. s = [now |-> s.now, times |-> s.times]
    BY <1>6 DEF ChainOK, UncheckedOK
  <2>2. t.times = s.times
    BY <2>1
  <2>3. QED
    BY <1>6, <2>2 DEF ChainLinked, Stays, MemoryLinked, CommitRests, UncheckedLinked, UncheckedRests, Unchecked!BlockNumber, Unchecked!Time
<1>7. CASE x.rollup = "taiko"
  <2>1. s = [now |-> s.now, proved |-> s.proved, verified |-> s.verified, synced |-> s.synced, written |-> s.written]
    BY <1>7 DEF ChainOK, TaikoOK
  <2>2. t.proved = s.proved /\ t.verified = s.verified /\ t.synced = s.synced /\ t.written = s.written
    BY <2>1
  <2>3. QED
    BY <1>7, <2>2 DEF ChainLinked, Stays, MemoryLinked, CommitRests, TaikoLinked, TaikoRests
<1>8. CASE x.rollup = "checkpoints"
  <2>1. s = [now |-> s.now, tip |-> s.tip, posts |-> s.posts, headers |-> s.headers]
    BY <1>8 DEF ChainOK, CheckpointOK
  <2>2. t.headers = s.headers /\ t.posts = s.posts
    BY <2>1
  <2>3. QED
    BY <1>8, <2>2 DEF ChainLinked, Stays, MemoryLinked, CommitRests, CheckpointLinked, CheckpointRests, Checkpoint!PostsIn
<1>9. CASE x.rollup = "reverse"
  <2>1. s = [l2 |-> s.l2]
    BY <1>9 DEF ChainOK
  <2>2. QED
    BY ONLY "now" \in DOMAIN s, <2>1
<1>10. CASE x.rollup = "double"
  <2>1. s = [one |-> s.one, two |-> s.two, seen |-> s.seen]
    BY <1>10 DEF ChainOK, DoubleOK, DoubleTyped
  <2>2. QED
    BY ONLY "now" \in DOMAIN s, <2>1
<1>11. CASE x.rollup = "interactive"
  <2>1. s = [latest |-> s.latest, commits |-> s.commits]
    BY <1>11 DEF ChainOK, InteractiveOK
  <2>2. QED
    BY ONLY "now" \in DOMAIN s, <2>1
<1>12. CASE x.rollup \in {"outputs", "trusted", "self", "shnarfs", "updates"}
  BY <1>12 DEF ChainLinked, Stays, MemoryLinked, CommitRests
<1>13. QED
  BY <1>1, <1>2, <1>3, <1>4, <1>5, <1>6, <1>7, <1>8, <1>9, <1>10, <1>11, <1>12 DEF IsSetting

\* What is left of the memory, and what a call makes of it.
LEMMA MemoryLinks ==
    ASSUME NEW x, NEW view, NEW s, ChainOK(x, s), ChainLinked(x, s), NEW m, MemoryOK(x, m), MemoryLinked(x, s, m)
    PROVE  /\ MemoryLinked(x, s, Forgotten(x, m))
           /\ \A c : CommitRests(x, s, m, c) => CommitRests(x, s, Forgotten(x, m), c)
           /\ \A n \in Remembered(x, view, s, m) : MemoryLinked(x, s, n)
<1>1. CASE x.rollup = "trusted"
  <2>1. m = [latest |-> m.latest, count |-> m.count, signed |-> m.signed] /\ TrustedMemory(m)
    BY <1>1 DEF MemoryOK, MemoryLinked
  <2>2. Forgotten(x, m) = Trusted!Expired(m) /\ Remembered(x, view, s, m) = {Trusted!Latest(x, s, m)}
    BY <1>1 DEF Forgotten, Remembered
  <2>3. TrustedMemory(Trusted!Latest(x, s, m)) /\ TrustedMemory(Trusted!Expired(m)) /\ m.signed = Trusted!Expired(m).signed
    BY ONLY <2>1, TrustedRemembers
  <2>4. QED
    BY <1>1, <2>2, <2>3 DEF MemoryLinked, CommitRests
<1>2. CASE x.rollup = "bold"
  <2>1. BoldOK(s) /\ BoldLinked(s) /\ BoldRemembers(s, m)
    BY <1>2 DEF ChainOK, ChainLinked, MemoryLinked
  <2>2. Forgotten(x, m) = [m EXCEPT !.guarded = FALSE] /\ Remembered(x, view, s, m) = BoLD!Guarded(x, view, s, m)
    BY <1>2 DEF Forgotten, Remembered
  <2>3. BoldRemembers(s, Forgotten(x, m))
    BY ONLY <2>1, <2>2, BoldForgotten
  <2>4. \A n \in Remembered(x, view, s, m) : BoldRemembers(s, n)
    BY ONLY <2>1, <2>2, BoldGuarded
  <2>5. QED
    BY <1>2, <2>3, <2>4 DEF MemoryLinked, CommitRests
<1>3. CASE x.rollup \notin {"trusted", "bold"}
  BY <1>3 DEF MemoryLinked, Forgotten
<1>4. QED
  BY <1>1, <1>2, <1>3

\* A commit the gateway makes rests on the chain it sees.
LEMMA CommitFetched ==
    ASSUME NEW x, IsSetting(x), NEW s, ChainOK(x, s), ChainLinked(x, s), NEW m, MemoryLinked(x, s, m),
           NEW i, IndexOK(x, i), NEW c, c = FetchCommit(x, s, m, i), c # NoCommit
    PROVE  CommitRests(x, s, m, c)
<1>1. c = MadeCommit(x, s, m, i) /\ c.index = i
  BY DEF FetchCommit, CommitAt
<1>2. /\ NoCommit = Outputs!NoCommit /\ NoCommit = Games!NoCommit /\ NoCommit = Reverse!NoCommit
      /\ NoCommit = Nitro!NoCommit /\ NoCommit = Double!NoCommit /\ NoCommit = BoLD!NoCommit
      /\ NoCommit = Unchecked!NoCommit /\ NoCommit = Linea!NoCommit /\ NoCommit = Batches!NoCommit
      /\ NoCommit = Taiko!NoCommit /\ NoCommit = Checkpoint!NoCommit /\ NoCommit = Shnarfs!NoCommit
  BY DEF NoCommit, Outputs!NoCommit, Games!NoCommit, Reverse!NoCommit, Nitro!NoCommit, Double!NoCommit, BoLD!NoCommit,
         Unchecked!NoCommit, Linea!NoCommit, Batches!NoCommit, Taiko!NoCommit, Checkpoint!NoCommit, Shnarfs!NoCommit,
         NoIndex, Outputs!NoIndex, Games!NoIndex, Reverse!NoIndex, Nitro!NoIndex, Double!NoIndex, BoLD!NoIndex,
         Unchecked!NoIndex, Linea!NoIndex, Batches!NoIndex, Taiko!NoIndex, Checkpoint!NoIndex, Shnarfs!NoIndex
<1>3. CASE x.rollup = "outputs"
  <2>1. c = Outputs!FetchCommit(x, s, i) /\ c # Outputs!NoCommit /\ i \in Nat
    BY <1>1, <1>2, <1>3 DEF MadeCommit, IndexOK
  <2>2. OutputsRests(c)
    BY ONLY <2>1, OutputsFetched
  <2>3. QED
    BY <1>3, <2>2 DEF CommitRests
<1>4. CASE x.rollup = "games"
  <2>1. c = Games!FetchCommit(x, s, i) /\ c # Games!NoCommit
    BY <1>1, <1>2, <1>4 DEF MadeCommit
  <2>2. GamesRests(s, c)
    BY ONLY <2>1, GamesFetched
  <2>3. QED
    BY <1>4, <2>2 DEF CommitRests
<1>5. CASE x.rollup = "reverse"
  <2>1. c = Reverse!FetchCommit(x, s, i) /\ c # Reverse!NoCommit /\ ReverseOK(s) /\ x.depth \in Nat /\ i \in Nat
    BY <1>1, <1>2, <1>5 DEF MadeCommit, ChainOK, IsSetting, IndexOK
  <2>2. ReverseRests(s, c)
    BY ONLY <2>1, ReverseFetched
  <2>3. QED
    BY <1>5, <2>2 DEF CommitRests
<1>6. CASE x.rollup = "nitro"
  <2>1. c = Nitro!FetchCommit(x, s, i) /\ c # Nitro!NoCommit
    BY <1>1, <1>2, <1>6 DEF MadeCommit
  <2>2. NitroRests(x, s, c)
    BY ONLY <2>1, NitroFetched
  <2>3. QED
    BY <1>6, <2>2 DEF CommitRests
<1>7. CASE x.rollup = "double"
  <2>1. c = Double!FetchCommit(x, s, i) /\ c # Double!NoCommit
    BY <1>1, <1>2, <1>7 DEF MadeCommit
  <2>2. DoubleRests(x, s, c)
    BY ONLY <2>1, DoubleFetched
  <2>3. QED
    BY <1>7, <2>2 DEF CommitRests
<1>8. CASE x.rollup = "bold"
  <2>1. /\ c = BoLD!FetchCommit(x, s, m, i) /\ c # BoLD!NoCommit /\ i \in Int
        /\ BoldOK(s) /\ BoldLinked(s) /\ BoldRemembers(s, m)
    BY <1>1, <1>2, <1>8 DEF MadeCommit, ChainOK, ChainLinked, MemoryLinked, IndexOK
  <2>2. BoldRests(x, s, c)
    BY ONLY <2>1, BoldFetched
  <2>3. QED
    BY <1>8, <2>2 DEF CommitRests
<1>9. CASE x.rollup = "trusted"
  <2>1. c = Trusted!FetchCommit(x, s, m, i) /\ c # NoCommit /\ TrustedMemory(m)
    BY <1>1, <1>9 DEF MadeCommit, MemoryLinked
  <2>2. [signedAt |-> c.signedAt, root |-> c.root] \in m.signed
    BY ONLY <2>1, TrustedFetched
  <2>3. QED
    BY <1>9, <2>2 DEF CommitRests
<1>10. CASE x.rollup = "unchecked"
  <2>1. /\ c = Unchecked!FetchCommit(x, s, i) /\ c # Unchecked!NoCommit /\ UncheckedLinked(s)
        /\ x.depth \in Nat \ {0} /\ i \in Nat
    BY <1>1, <1>2, <1>10 DEF MadeCommit, ChainLinked, IsSetting, IndexOK
  <2>2. UncheckedRests(s, c)
    BY ONLY <2>1, UncheckedFetched
  <2>3. QED
    BY <1>10, <2>2 DEF CommitRests
<1>11. CASE x.rollup = "interactive"
  <2>1. c = Interactive!FetchCommit(x, s, i) /\ i \in Nat
    BY <1>1, <1>11 DEF MadeCommit, IndexOK
  <2>2. QED
    BY <1>11, <2>1 DEF CommitRests, Interactive!FetchCommit
<1>12. CASE x.rollup = "self"
  BY <1>1, <1>12 DEF CommitRests, IndexOK
<1>13. CASE x.rollup = "linea"
  <2>1. c = Linea!FetchCommit(x, s, i) /\ c # Linea!NoCommit
    BY <1>1, <1>2, <1>13 DEF MadeCommit
  <2>2. c.index \in Linea!StateRootHashes(s)
    BY ONLY <2>1, LineaFetched
  <2>3. QED
    BY <1>13, <2>2 DEF CommitRests
<1>14. CASE x.rollup = "shnarfs"
  BY <1>1, <1>2, <1>14 DEF MadeCommit, Shnarfs!FetchCommit
<1>15. CASE x.rollup = "batches"
  <2>1. c = Batches!FetchCommit(x, s, i) /\ c # Batches!NoCommit /\ BatchesOK(s)
    BY <1>1, <1>2, <1>15 DEF MadeCommit, ChainOK
  <2>2. BatchesRests(x, s, c)
    BY ONLY <2>1, BatchesFetched
  <2>3. QED
    BY <1>15, <2>2 DEF CommitRests
<1>16. CASE x.rollup = "taiko"
  <2>1. c = Taiko!FetchCommit(x, s, i) /\ c # Taiko!NoCommit /\ i % x.sync = 0
    BY <1>1, <1>2, <1>16 DEF MadeCommit, IndexOK
  <2>2. TaikoRests(x, s, c)
    BY ONLY <2>1, TaikoFetched
  <2>3. QED
    BY <1>16, <2>2 DEF CommitRests
<1>17. CASE x.rollup = "checkpoints"
  <2>1. c = Checkpoint!FetchCommit(x, s, i) /\ c # Checkpoint!NoCommit /\ CheckpointOK(s)
    BY <1>1, <1>2, <1>17 DEF MadeCommit, ChainOK
  <2>2. CheckpointRests(s, c)
    BY ONLY <2>1, CheckpointFetched
  <2>3. QED
    BY <1>17, <2>2 DEF CommitRests
<1>18. CASE x.rollup = "updates"
  BY <1>18 DEF CommitRests
<1>19. QED
  BY <1>3, <1>4, <1>5, <1>6, <1>7, <1>8, <1>9, <1>10, <1>11, <1>12, <1>13, <1>14, <1>15, <1>16, <1>17, <1>18 DEF IsSetting

\* The latest event of a confirmation by a block is one, and the last one.
LEMMA LatestIs ==
    ASSUME NEW s, BoldOK(s), NEW block, NEW l, l = BoLD!LatestConfirmed(s, block)
    PROVE  /\ l # 0 => l \in DOMAIN s.log /\ s.log[l].name = "confirmed" /\ s.log[l].block <= block
           /\ \A j \in DOMAIN s.log : s.log[j].name = "confirmed" /\ s.log[j].block <= block => l # 0 /\ j <= l
<1> DEFINE I == {j \in 1 .. Len(s.log) : s.log[j].name = "confirmed" /\ s.log[j].block <= block}
<1>1. l = IF I # {} THEN BoLD!Max(I) ELSE 0
  BY Zenon DEF BoLD!LatestConfirmed, BoLD!SelectLastInSeq
<1>2. Len(s.log) \in Nat /\ DOMAIN s.log = 1 .. Len(s.log)
  BY BoldNodes DEF BoldOK
<1>3. I \subseteq 0 .. Len(s.log) /\ I \subseteq DOMAIN s.log /\ 0 \notin I
  BY <1>2
<1>4. ASSUME I # {} PROVE l \in I /\ \A j \in I : j <= l
  <2> HIDE DEF I
  <2>1. PICK j \in I : \A y \in I : y <= j
    BY <1>2, <1>3, <1>4, GreatestOf
  <2>2. \A y \in I : j >= y
    BY <1>2, <1>3, <2>1
  <2>3. l \in I /\ \A y \in I : l >= y
    BY <1>1, <1>4, <2>1, <2>2 DEF BoLD!Max
  <2>4. QED
    BY <1>2, <1>3, <2>3
<1>5. QED
  BY <1>1, <1>2, <1>3, <1>4

\* An assertion that was confirmed by a block, if there is one, was made in
\* some block.
LEMMA ConfirmedFound ==
    ASSUME NEW s, BoldOK(s), BoldLinked(s), NEW block, NEW k, k = BoLD!LatestConfirmed(s, block), k # 0
    PROVE  s.nodes[s.log[k].hash].made \in Nat
<1>1. k \in DOMAIN s.log
  BY LatestIs
<1>2. s.log[k].hash \in DOMAIN s.nodes
  BY <1>1 DEF BoldLinked, EventLinked
<1>3. QED
  BY <1>2, BoldNodes DEF BoldOK, BoldNode

\* The index the BoLD gateway finds is a block.
LEMMA BoldLatest ==
    ASSUME NEW x, NEW view, NEW s, BoldOK(s), BoldLinked(s), NEW m, BoldRemembers(s, m),
           NEW i, i = BoLD!FetchLatestCommitIndex(x, view, s, m)
    PROVE  i \in Int
<1> DEFINE k == BoLD!LatestAssertion(m, 0, m.lastBlock)
           block == IF BoLD!Unfinalized(x) THEN m.lastBlock ELSE view.now
           j == BoLD!LatestConfirmed(s, block)
<1>1. \/ i = BoLD!NoIndex
      \/ k # 0 /\ i = m.map[k].created
      \/ j # 0 /\ i = s.nodes[s.log[j].hash].made
  BY DEF BoLD!FetchLatestCommitIndex
<1>2. ASSUME k # 0 PROVE m.map[k].created \in Int
  <2>1. m.map \in Seq(Entries(s))
    BY DEF BoldRemembers
  <2>2. k \in DOMAIN m.map
    BY <1>2, <2>1, LastAssertion
  <2>3. m.map[k] \in Entries(s)
    BY <2>1, <2>2, InSeq
  <2>4. QED
    BY <2>3 DEF Entries, KnownEntry
<1>3. ASSUME j # 0 PROVE s.nodes[s.log[j].hash].made \in Int
  <2>1. s.nodes[s.log[j].hash].made \in Nat
    BY <1>3, ConfirmedFound
  <2>2. QED
    BY <2>1
<1>4. BoLD!NoIndex \in Int
  BY DEF BoLD!NoIndex
<1>5. QED
  BY <1>1, <1>2, <1>3, <1>4

\* The latest index the gateway finds is one there can be,
LEMMA LatestIndex ==
    ASSUME NEW x, IsSetting(x), NEW view, ChainOK(x, view), ChainLinked(x, view), NEW s, ChainOK(x, s), ChainLinked(x, s),
           NEW m, MemoryLinked(x, s, m), NEW i, i = FetchLatestCommitIndex(x, view, s, m), i # NoIndex
    PROVE  IndexOK(x, i)
<1>0. x.max \in Nat
  BY DEF IsSetting
<1>1. CASE x.rollup = "outputs"
  <2>1. i = Outputs!FindOutputIndex(x, view) /\ OutputsOK(view) /\ x.finalization \in Nat /\ x.minAge \in Nat
    BY <1>1 DEF FetchLatestCommitIndex, Outputs!FetchLatestCommitIndex, ChainOK, IsSetting
  <2>2. i \in Nat
    BY <1>0, <2>1, NumberedFound
  <2>3. QED
    BY <1>1, <2>2 DEF IndexOK
<1>2. CASE x.rollup = "reverse"
  <2>1. i = Reverse!FetchLatestCommitIndex(x, view) /\ ReverseOK(view) /\ x.step \in Nat \ {0}
    BY <1>2 DEF FetchLatestCommitIndex, ChainOK, IsSetting
  <2>2. i \in Nat
    BY <1>0, <2>1, NumberedFound
  <2>3. QED
    BY <1>2, <2>2 DEF IndexOK
<1>3. CASE x.rollup = "unchecked"
  <2>1. i = Unchecked!FetchLatestCommitIndex(x, s) /\ UncheckedLinked(s)
    BY <1>3 DEF FetchLatestCommitIndex, ChainLinked
  <2>2. i \in Nat
    BY <1>0, <2>1, NumberedFound
  <2>3. QED
    BY <1>3, <2>2 DEF IndexOK
<1>4. CASE x.rollup = "interactive"
  <2>1. i = Interactive!FetchLatestCommitIndex(x, view) /\ InteractiveOK(view)
    BY <1>4 DEF FetchLatestCommitIndex, ChainOK
  <2>2. i \in Nat
    BY <1>0, <2>1, NumberedFound
  <2>3. QED
    BY <1>4, <2>2 DEF IndexOK
<1>5. CASE x.rollup = "self"
  <2>1. i = Self!FetchLatestCommitIndex(x, view) /\ view.now \in Nat /\ x.step \in Nat \ {0}
    BY <1>5 DEF FetchLatestCommitIndex, ChainOK, IsSetting
  <2>2. i \in Int
    BY <1>0, <2>1, NumberedFound
  <2>3. QED
    BY <1>5, <2>2 DEF IndexOK
<1>6. CASE x.rollup = "bold"
  <2>1. i = BoLD!FetchLatestCommitIndex(x, view, s, m) /\ BoldOK(s) /\ BoldLinked(s) /\ BoldRemembers(s, m)
    BY <1>6 DEF FetchLatestCommitIndex, ChainOK, ChainLinked, MemoryLinked
  <2>2. i \in Int
    BY <2>1, BoldLatest
  <2>3. QED
    BY <1>6, <2>2 DEF IndexOK
<1>7. CASE x.rollup = "taiko"
  BY <1>7 DEF IndexOK, FetchLatestCommitIndex, Taiko!FetchLatestCommitIndex, ChainLinked, TaikoLinked
<1>8. CASE x.rollup \notin {"outputs", "reverse", "unchecked", "interactive", "self", "bold", "taiko"}
  BY <1>8 DEF IndexOK
<1>9. QED
  BY <1>1, <1>2, <1>3, <1>4, <1>5, <1>6, <1>7, <1>8

\* the context a verifier makes is,
LEMMA ContextIndex ==
    ASSUME NEW x, IsSetting(x), NEW s, ChainOK(x, s), ChainLinked(x, s), NEW i, i = GetLatestContext(x, s), i # NoIndex
    PROVE  IndexOK(x, i)
<1>0. x.max \in Nat
  BY DEF IsSetting
<1>1. CASE x.rollup = "outputs"
  <2>1. i = Outputs!FindOutputIndex(x, s) /\ OutputsOK(s) /\ x.finalization \in Nat /\ x.minAge \in Nat
    BY <1>1 DEF GetLatestContext, Outputs!GetLatestContext, ChainOK, IsSetting
  <2>2. i \in Nat
    BY <1>0, <2>1, NumberedFound
  <2>3. QED
    BY <1>1, <2>2 DEF IndexOK
<1>2. CASE x.rollup = "reverse"
  <2>1. i = Reverse!L1Number(s, Reverse!BlockNumber(s)) /\ ReverseOK(s)
    BY <1>2 DEF GetLatestContext, Reverse!GetLatestContext, ChainOK
  <2>2. i \in Nat
    BY <2>1, InSeq DEF ReverseOK, Reverse!L1Number, Reverse!BlockNumber
  <2>3. QED
    BY <1>2, <2>2 DEF IndexOK
<1>3. CASE x.rollup = "unchecked"
  BY <1>3 DEF IndexOK, GetLatestContext, Unchecked!GetLatestContext, ChainOK, UncheckedOK
<1>4. CASE x.rollup = "interactive"
  BY <1>4 DEF IndexOK, GetLatestContext, Interactive!GetLatestContext, ChainOK, InteractiveOK
<1>5. CASE x.rollup = "self"
  <2>1. i = s.now - 1 /\ s.now \in Nat
    BY <1>5 DEF GetLatestContext, Self!GetLatestContext, ChainOK
  <2>2. QED
    BY <1>5, <2>1 DEF IndexOK
<1>6. CASE x.rollup = "bold"
  <2>1. i = BoLD!GetLatestContext(x, s) /\ BoldOK(s) /\ x.minAge \in Nat
    BY <1>6 DEF GetLatestContext, ChainOK, IsSetting
  <2>2. s.now \in Nat /\ s.nodes[s.confirmed] \in BoldNode
    BY <2>1, BoldNodes DEF BoldOK, BoldTyped
  <2>3. i \in Int
    BY <2>1, <2>2 DEF BoLD!GetLatestContext, BoldNode
  <2>4. QED
    BY <1>6, <2>3 DEF IndexOK
<1>7. CASE x.rollup = "taiko"
  BY <1>7 DEF IndexOK, GetLatestContext, Taiko!GetLatestContext, ChainLinked, TaikoLinked
<1>8. CASE x.rollup \notin {"outputs", "reverse", "unchecked", "interactive", "self", "bold", "taiko"}
  BY <1>8 DEF IndexOK
<1>9. QED
  BY <1>1, <1>2, <1>3, <1>4, <1>5, <1>6, <1>7, <1>8

\* and the index of the commit before.
LEMMA ParentFound ==
    ASSUME NEW x, IsSetting(x), NEW s, ChainOK(x, s), ChainLinked(x, s), NEW m, NEW c, CommitRests(x, s, m, c),
           NEW i, i = FetchParentCommitIndex(x, s, c), i # NoIndex
    PROVE  IndexOK(x, i)
<1>0. i = FoundParent(x, s, c) /\ c.index # 0 /\ ~(i >= c.index) /\ ~(i < 0)
  BY DEF FetchParentCommitIndex, ParentIndex
<1>1. CASE x.rollup = "outputs"
  <2>1. i = c.index - 1 /\ c.index \in Nat
    BY <1>0, <1>1 DEF FoundParent, Outputs!FetchParentCommitIndex, CommitRests, OutputsRests
  <2>2. QED
    BY <1>0, <1>1, <2>1 DEF IndexOK
<1>2. CASE x.rollup = "reverse"
  <2>1. i = Reverse!Align(c.index - 1, x.step) /\ ReverseOK(s) /\ x.step \in Nat \ {0} /\ ReverseRests(s, c)
    BY <1>0, <1>2 DEF FoundParent, Reverse!FetchParentCommitIndex, ChainOK, CommitRests, IsSetting
  <2>2. c.index \in Nat
    BY <2>1, InSeq DEF ReverseOK, ReverseRests, Reverse!L1Number, Reverse!BlockNumber
  <2>3. c.index - 1 \in Nat
    BY <1>0, <2>2
  <2>4. i \in Nat
    BY <2>1, <2>3, AlignDown
  <2>5. QED
    BY <1>2, <2>4 DEF IndexOK
<1>3. CASE x.rollup = "unchecked"
  <2>1. /\ c.block # 0 /\ i = Unchecked!Time(s, Unchecked!Align(c.block - 1, x.step))
        /\ UncheckedLinked(s) /\ UncheckedRests(s, c) /\ x.step \in Nat \ {0}
    BY <1>0, <1>3 DEF FoundParent, Unchecked!FetchParentCommitIndex, ChainLinked, CommitRests, IsSetting, NoIndex, Unchecked!NoIndex
  <2>2. Unchecked!BlockNumber(s) \in Nat /\ \A n \in 0 .. Unchecked!BlockNumber(s) : Unchecked!Time(s, n) \in Nat
    BY <2>1, UncheckedTimes
  <2>3. c.block \in 0 .. Unchecked!BlockNumber(s) /\ c.block - 1 \in Nat
    BY <2>1, <2>2 DEF UncheckedRests
  <2>4. Unchecked!Align(c.block - 1, x.step) \in 0 .. c.block - 1
    BY <2>1, <2>3, AlignDown
  <2>5. i \in Nat
    BY <2>1, <2>2, <2>3, <2>4
  <2>6. QED
    BY <1>3, <2>5 DEF IndexOK
<1>4. CASE x.rollup = "interactive"
  <2>1. i = Interactive!CommitOf(s, c.index).prev /\ InteractiveLinked(s)
    BY <1>0, <1>4 DEF FoundParent, Interactive!FetchParentCommitIndex, ChainLinked
  <2>2. i \in Nat
    BY <2>1 DEF InteractiveLinked, Interactive!CommitOf, Interactive!Unset
  <2>3. QED
    BY <1>4, <2>2 DEF IndexOK
<1>5. CASE x.rollup = "self"
  <2>1. i = Self!Align(c.index - 1, x.step) /\ c.index \in Int /\ x.step \in Nat \ {0}
    BY <1>0, <1>5 DEF FoundParent, Self!FetchParentCommitIndex, CommitRests, IsSetting
  <2>2. i \in Int
    BY <2>1 DEF Self!Align
  <2>3. QED
    BY <1>5, <2>2 DEF IndexOK
<1>6. CASE x.rollup = "bold"
  <2>1. i = s.nodes[c.assertions[Len(c.assertions) - 1]].made /\ BoldOK(s) /\ BoldRests(x, s, c)
    BY <1>0, <1>6 DEF FoundParent, BoLD!FetchParentCommitIndex, ChainOK, CommitRests
  <2>2. PICK n \in Nat : RestsOn(x, s, c.index, c.assertions, n)
    BY <2>1 DEF BoldRests
  <2>3. n - 1 \in 1 .. n /\ Len(c.assertions) = n
    BY <2>2 DEF RestsOn
  <2>4. c.assertions[n - 1] \in DOMAIN s.nodes
    BY <2>2, <2>3 DEF RestsOn
  <2>5. s.nodes[c.assertions[n - 1]] \in BoldNode
    BY <2>1, <2>4, BoldNodes DEF BoldOK
  <2>6. i \in Int
    BY <2>1, <2>3, <2>5 DEF BoldNode
  <2>7. QED
    BY <1>6, <2>6 DEF IndexOK
<1>7. CASE x.rollup = "taiko"
  <2>1. i = c.index - x.sync * x.span /\ x.sync \in Nat \ {0} /\ x.span \in Nat \ {0} /\ TaikoLinked(x, s) /\ TaikoRests(x, s, c)
    BY <1>0, <1>7 DEF FoundParent, Taiko!FetchParentCommitIndex, ChainLinked, CommitRests, IsSetting
  <2>2. c.index \in Nat /\ c.index % x.sync = 0
    BY <2>1 DEF TaikoLinked, TaikoRests, IsSetting
  <2>3. x.sync * x.span \in Nat
    BY <2>1
  <2>4. c.index - x.sync * x.span \in Nat
    BY <1>0, <2>1, <2>2, <2>3
  <2>5. i % x.sync = 0
    BY <2>1, <2>2, <2>4, TaikoParent
  <2>6. QED
    BY <1>7, <2>5 DEF IndexOK
<1>8. CASE x.rollup \notin {"outputs", "reverse", "unchecked", "interactive", "self", "bold", "taiko"}
  BY <1>8 DEF IndexOK
<1>9. QED
  BY <1>1, <1>2, <1>3, <1>4, <1>5, <1>6, <1>7, <1>8

\* What is served is accepted, or is too old, or what it rests on is gone.
LEMMA RestServed ==
    ASSUME NEW x, IsSetting(x), NEW m, MemoryOK(x, m), NEW a, ChainOK(x, a), ChainLinked(x, a), NEW s, ChainOK(x, s), ChainLinked(x, s),
           ChainKept(x, a, s), NEW c, CommitRests(x, s, m, c), NEW d, d = GetLatestContext(x, a), d # NoIndex, d >= c.index
    PROVE  \/ GetStorageValues(x, s, m, d, EncodeWitness(x, c)) \in Honest
           \/ Spoiled(x, a, s, d, c)
<1>0. x.window \in Nat /\ x.max \in Nat /\ c.index <= d
  BY DEF IsSetting
<1>1. CASE x.rollup = "outputs"
  <2>1. d = Outputs!GetLatestContext(x, a)
    BY <1>1 DEF GetLatestContext
  <2>2. OutputsOK(a) /\ OutputsOK(s) /\ OutputsRests(c) /\ x.minAge \in Nat /\ x.finalization \in Nat
    BY <1>1 DEF ChainOK, ChainKept, ChainLinked, CommitRests, MemoryOK, IsSetting
  <2>3. d # Outputs!NoIndex
    BY DEF NoIndex, Outputs!NoIndex
  <2>4. \/ Outputs!GetStorageValues(x, s, d, Outputs!EncodeWitness(c)) \in Honest
        \/ Outputs!Spoiled(x, a, s, d, c)
    BY ONLY <1>0, <2>1, <2>2, <2>3, OutputsServed
  <2>5. QED
    BY <1>1, <2>4 DEF GetStorageValues, EncodeWitness, Spoiled
<1>2. CASE x.rollup = "games"
  <2>1. d = Games!GetLatestContext(x, a)
    BY <1>2 DEF GetLatestContext
  <2>2. GamesOK(a) /\ GamesOK(s) /\ GamesLinked(s) /\ GamesRests(s, c) /\ GamesKept(a, s) /\ x.minAge \in Nat
    BY <1>2 DEF ChainOK, ChainKept, ChainLinked, CommitRests, MemoryOK, IsSetting
  <2>9. d # Games!NoIndex
    BY DEF NoIndex, Games!NoIndex
  <2>3. d \in Games!Games(s)
    BY <2>1, <2>2, <2>9, GameFound DEF GamesKept
  <2>4. \/ Games!GetStorageValues(x, s, d, Games!EncodeWitness(c)) \in Honest
        \/ Games!Spoiled(x, a, s, d, c)
    BY ONLY <1>0, <2>1, <2>2, <2>3, GamesServed
  <2>5. QED
    BY <1>2, <2>4 DEF GetStorageValues, EncodeWitness, Spoiled
<1>3. CASE x.rollup = "reverse"
  <2>1. d = Reverse!GetLatestContext(x, a)
    BY <1>3 DEF GetLatestContext
  <2>2. ReverseOK(a) /\ ReverseOK(s) /\ ReverseRests(s, c)
    BY <1>3 DEF ChainOK, ChainKept, ChainLinked, CommitRests, MemoryOK, IsSetting
  <2>3. d \in Nat
    BY <2>1, <2>2, InSeq DEF ReverseOK, Reverse!GetLatestContext, Reverse!L1Number, Reverse!BlockNumber
  <2>4. \/ Reverse!GetStorageValues(x, s, d, Reverse!EncodeWitness(c)) \in Honest
        \/ Reverse!Spoiled(x, a, s, d, c)
    BY ONLY <1>0, <2>1, <2>2, <2>3, ReverseServed
  <2>5. QED
    BY <1>3, <2>4 DEF GetStorageValues, EncodeWitness, Spoiled
<1>4. CASE x.rollup = "nitro"
  <2>1. d = Nitro!GetLatestContext(x, a)
    BY <1>4 DEF GetLatestContext
  <2>2. NitroOK(a) /\ NitroOK(s) /\ NitroKept(a, s) /\ NitroLinked(s) /\ NitroRests(x, s, c) /\ x.minAge \in Nat
    BY <1>4 DEF ChainOK, ChainKept, ChainLinked, CommitRests, MemoryOK, IsSetting
  <2>3. d # Nitro!NoIndex
    BY DEF NoIndex, Nitro!NoIndex
  <2>4. \/ Nitro!GetStorageValues(x, s, d, Nitro!EncodeWitness(c)) \in Honest
        \/ Nitro!Spoiled(x, a, s, d, c)
    BY ONLY <1>0, <2>1, <2>2, <2>3, NitroServed DEF Nitro!EncodeWitness
  <2>5. QED
    BY <1>4, <2>4 DEF GetStorageValues, EncodeWitness, Spoiled
<1>5. CASE x.rollup = "double"
  <2>1. d = Double!GetLatestContext(x, a)
    BY <1>5 DEF GetLatestContext
  <2>2. DoubleOK(x, a) /\ DoubleOK(x, s) /\ DoubleKept(a, s) /\ NitroLinked(s.one) /\ DoubleRests(x, s, c) /\ x.minAge \in Nat
    BY <1>5 DEF ChainOK, ChainKept, ChainLinked, CommitRests, MemoryOK, IsSetting
  <2>3. d # Nitro!NoIndex
    BY DEF NoIndex, Nitro!NoIndex
  <2>4. \/ Double!GetStorageValues(x, s, d, Double!EncodeWitness(c)) \in Honest
        \/ Double!Spoiled(x, a, s, d, c)
    BY ONLY <1>0, <2>1, <2>2, <2>3, DoubleServed
  <2>5. QED
    BY <1>5, <2>4 DEF GetStorageValues, EncodeWitness, Spoiled
<1>6. CASE x.rollup = "bold"
  <2>1. d = BoLD!GetLatestContext(x, a)
    BY <1>6 DEF GetLatestContext
  <2>2. BoldOK(a) /\ BoldOK(s) /\ BoldLinked(s) /\ BoldRests(x, s, c) /\ x.minAge \in Nat
    BY <1>6 DEF ChainOK, ChainKept, ChainLinked, CommitRests, MemoryOK, IsSetting
  <2>4. \/ BoLD!GetStorageValues(x, s, d, BoLD!EncodeWitness(c)) \in Honest
        \/ BoLD!Spoiled(x, a, s, d, c)
    BY ONLY <1>0, <2>1, <2>2, BoldServed
  <2>5. QED
    BY <1>6, <2>4 DEF GetStorageValues, EncodeWitness, Spoiled
<1>7. CASE x.rollup = "trusted"
  <2>1. d = Trusted!GetLatestContext(x, a)
    BY <1>7 DEF GetLatestContext
  <2>2. a.now \in Nat /\ SignedOK(m) /\ [signedAt |-> c.signedAt, root |-> c.root] \in m.signed
    BY <1>7 DEF ChainOK, ChainKept, ChainLinked, CommitRests, MemoryOK, IsSetting
  <2>3. d \in Nat
    BY <2>1, <2>2 DEF Trusted!GetLatestContext
  <2>4. \/ Trusted!GetStorageValues(x, s, m, d, Trusted!EncodeWitness(c)) \in Honest
        \/ Trusted!Spoiled(x, a, s, d, c)
    BY ONLY <1>0, <2>1, <2>2, <2>3, TrustedServed
  <2>5. QED
    BY <1>7, <2>4 DEF GetStorageValues, EncodeWitness, Spoiled
<1>8. CASE x.rollup = "unchecked"
  <2>1. d = Unchecked!GetLatestContext(x, a)
    BY <1>8 DEF GetLatestContext
  <2>2. a.now \in Nat /\ UncheckedLinked(s) /\ UncheckedRests(s, c)
    BY <1>8 DEF ChainOK, ChainKept, ChainLinked, CommitRests, MemoryOK, IsSetting, UncheckedOK
  <2>3. d \in Nat
    BY <2>1, <2>2 DEF Unchecked!GetLatestContext
  <2>4. \/ Unchecked!GetStorageValues(x, s, d, Unchecked!EncodeWitness(c)) \in Honest
        \/ Unchecked!Spoiled(x, a, s, d, c)
    BY ONLY <1>0, <2>1, <2>2, <2>3, UncheckedServed
  <2>5. QED
    BY <1>8, <2>4 DEF GetStorageValues, EncodeWitness, Spoiled
<1>9. CASE x.rollup = "interactive"
  <2>1. d = Interactive!GetLatestContext(x, a)
    BY <1>9 DEF GetLatestContext
  <2>2. InteractiveOK(a) /\ InteractiveLinked(s) /\ c.index \in Nat /\ c.right = TRUE
    BY <1>9 DEF ChainOK, ChainKept, ChainLinked, CommitRests, MemoryOK, IsSetting
  <2>3. d \in Nat
    BY <2>1, <2>2 DEF InteractiveOK, Interactive!GetLatestContext
  <2>4. \/ Interactive!GetStorageValues(x, s, d, Interactive!EncodeWitness(c)) \in Honest
        \/ Interactive!Spoiled(x, a, s, d, c)
    BY ONLY <1>0, <2>1, <2>2, <2>3, InteractiveServed
  <2>5. QED
    BY <1>9, <2>4 DEF GetStorageValues, EncodeWitness, Spoiled
<1>10. CASE x.rollup = "self"
  <2>1. d = Self!GetLatestContext(x, a)
    BY <1>10 DEF GetLatestContext
  <2>2. a.now \in Nat /\ c.index \in Int
    BY <1>10 DEF ChainOK, ChainKept, ChainLinked, CommitRests, MemoryOK, IsSetting
  <2>3. d \in Int
    BY <2>1, <2>2 DEF Self!GetLatestContext
  <2>4. \/ Self!GetStorageValues(x, s, d, Self!EncodeWitness(c)) \in Honest
        \/ Self!Spoiled(x, a, s, d, c)
    BY ONLY <1>0, <2>1, <2>2, <2>3, SelfServed
  <2>5. QED
    BY <1>10, <2>4 DEF GetStorageValues, EncodeWitness, Spoiled
<1>11. CASE x.rollup = "linea"
  <2>1. d = Linea!GetLatestContext(x, a)
    BY <1>11 DEF GetLatestContext
  <2>2. LineaOK(a) /\ LineaOK(s) /\ c.index \in Linea!StateRootHashes(s)
    BY <1>11 DEF ChainOK, ChainKept, ChainLinked, CommitRests, MemoryOK, IsSetting
  <2>9. Linea!CurrentL2BlockNumber(a) \in Nat
    <3>1. a.finals \in Seq(Nat) /\ Len(a.finals) \in Nat /\ DOMAIN a.finals = 1 .. Len(a.finals)
      BY <2>2, InSeq DEF LineaOK
    <3>2. a.finals # << >> => Len(a.finals) \in DOMAIN a.finals
      BY <3>1, EmptySeq
    <3>3. QED
      BY <3>1, <3>2, InSeq DEF Linea!CurrentL2BlockNumber
  <2>3. d \in Nat
    BY <2>1, <2>2, <2>9 DEF Linea!GetLatestContext
  <2>4. Linea!GetStorageValues(x, s, d, Linea!EncodeWitness(c)) \in Honest
    BY ONLY <1>0, <2>1, <2>2, <2>3, LineaServed
  <2>5. QED
    BY <1>11, <2>4 DEF GetStorageValues, EncodeWitness, Spoiled
<1>12. CASE x.rollup = "batches"
  <2>1. d = Batches!GetLatestContext(x, a)
    BY <1>12 DEF GetLatestContext
  <2>2. BatchesOK(a) /\ BatchesRests(x, s, c)
    BY <1>12 DEF ChainOK, ChainKept, ChainLinked, CommitRests, MemoryOK, IsSetting
  <2>3. d \in Nat
    BY <2>1, <2>2, LastBatch DEF Batches!GetLatestContext
  <2>4. \/ Batches!GetStorageValues(x, s, d, Batches!EncodeWitness(c)) \in Honest
        \/ Batches!Spoiled(x, a, s, d, c)
    BY ONLY <1>0, <2>1, <2>2, <2>3, BatchesServed DEF BatchesRests
  <2>5. QED
    BY <1>12, <2>4 DEF GetStorageValues, EncodeWitness, Spoiled
<1>13. CASE x.rollup = "taiko"
  <2>1. d = Taiko!GetLatestContext(x, a)
    BY <1>13 DEF GetLatestContext
  <2>2. TaikoOK(x, a) /\ TaikoOK(x, s) /\ TaikoKept(x, a, s) /\ TaikoLinked(x, s) /\ TaikoRests(x, s, c)
    BY <1>13 DEF ChainOK, ChainKept, ChainLinked, CommitRests, MemoryOK, IsSetting
  <2>4. \/ Taiko!GetStorageValues(x, s, d, Taiko!EncodeWitness(c)) \in Honest
        \/ Taiko!Spoiled(x, a, s, d, c)
    BY ONLY <1>0, <2>1, <2>2, TaikoServed DEF TaikoRests
  <2>5. QED
    BY <1>13, <2>4 DEF GetStorageValues, EncodeWitness, Spoiled
<1>14. CASE x.rollup = "checkpoints"
  <2>1. d = Checkpoint!GetLatestContext(x, a)
    BY <1>14 DEF GetLatestContext
  <2>2. CheckpointOK(a) /\ CheckpointOK(s) /\ CheckpointKept(a, s) /\ CheckpointLinked(s) /\ CheckpointRests(s, c)
    BY <1>14 DEF ChainOK, ChainKept, ChainLinked, CommitRests, MemoryOK, IsSetting
  <2>4. Checkpoint!GetStorageValues(x, s, d, Checkpoint!EncodeWitness(c)) \in Honest
    BY ONLY <1>0, <2>1, <2>2, CheckpointServed
  <2>5. QED
    BY <1>14, <2>4 DEF GetStorageValues, EncodeWitness, Spoiled
<1>15. CASE x.rollup = "updates"
  <2>1. d = Updates!GetLatestContext(x, a)
    BY <1>15 DEF GetLatestContext
  <2>4. \/ Updates!GetStorageValues(x, s, d, Updates!EncodeWitness(c)) \in Honest
        \/ Updates!Spoiled(x, a, s, d, c)
    BY ONLY <1>0, <2>1, UpdatesServed
  <2>5. QED
    BY <1>15, <2>4 DEF GetStorageValues, EncodeWitness, Spoiled
<1>16. QED
  BY <1>1, <1>2, <1>3, <1>4, <1>5, <1>6, <1>7, <1>8, <1>9, <1>10, <1>11, <1>12, <1>13, <1>14, <1>15 DEF IsSetting, CommitRests

-----------------------------------------------------------------------------
\* What the gateway goes by: what it found is an index there can be, what it
\* fetched rests on the chain, and it serves what is not newer than the context.
GatewayOK(x, s, m, c) ==
    /\ c.stage # "idle" => ChainLinked(x, c.asked)
    /\ c.stage = "found" => IndexOK(x, c.index)
    /\ c.stage \in {"walking", "served"} => CommitRests(x, s, m, c.commit)
    /\ c.stage = "served" => c.context >= c.commit.index

\* What more than Inv always holds: of the chain and the gateway's final view
\* of it, of what the gateway remembers, and of the answer it is making.
Linked ==
    /\ ChainOK(r, final) /\ ChainLinked(r, final)
    /\ ChainLinked(r, chain) /\ MemoryLinked(r, chain, memory)
    /\ GatewayOK(r, chain, memory, call)

\* It holds at first.
LEMMA LinkedInit == Init => Linked
<1> SUFFICES ASSUME Init PROVE Linked
  OBVIOUS
<1>1. r \in Settings /\ chain = Start(r) /\ final = chain /\ memory = NoMemory(r) /\ call = Idle(r.asks)
  BY DEF Init
<1>2. IsSetting(r)
  BY <1>1, SettingsAssumption
<1>3. ChainOK(r, chain) /\ ChainLinked(r, chain) /\ MemoryLinked(r, chain, memory)
  BY <1>1, <1>2, ChainStart, LinkedStart
<1>4. call.stage = "idle"
  BY <1>1 DEF Idle
<1>5. GatewayOK(r, chain, memory, call)
  BY <1>4 DEF GatewayOK
<1>6. QED
  BY <1>1, <1>3, <1>5 DEF Linked

\* Every step keeps it: the chain moves or time passes, and what a commit rests
\* on stays; the gateway takes a step, and what it found or fetched rests on
\* the chain.
LEMMA LinkedNext == Inv /\ Linked /\ [Next]_vars => Linked'
<1> SUFFICES ASSUME Inv, Linked, [Next]_vars PROVE Linked'
  OBVIOUS
<1>0. /\ IsSetting(r) /\ ChainOK(r, chain) /\ MemoryOK(r, memory) /\ CallOK(call)
      /\ call.stage # "idle" => AskedBefore(r, call, chain)
  BY SettingsAssumption DEF Inv
<1>1. /\ ChainOK(r, final) /\ ChainLinked(r, final) /\ ChainLinked(r, chain)
      /\ MemoryLinked(r, chain, memory) /\ GatewayOK(r, chain, memory, call)
  BY DEF Linked
<1>2. CASE Advance
  <2>1. chain' \in Moves(r, chain) \cup Ticks(chain) /\ UNCHANGED <<r, final, memory, call>>
    BY <1>2 DEF Advance
  <2>2. ChainLinked(r, chain') /\ Stays(r, chain, chain')
    <3>1. CASE chain' \in Moves(r, chain)
      BY <1>0, <1>1, <3>1, LinkedMoves
    <3>2. CASE chain' \in Ticks(chain)
      <4>1. "now" \in DOMAIN chain /\ chain' = [chain EXCEPT !.now = @ + 1]
        BY <3>2 DEF Ticks
      <4>2. QED
        BY <1>0, <1>1, <4>1, LinkedTicks
    <3>3. QED
      BY <2>1, <3>1, <3>2
  <2>3. MemoryLinked(r, chain', memory)
    BY <1>1, <2>2 DEF Stays
  <2>4. GatewayOK(r, chain', memory, call)
    BY <1>1, <2>2 DEF Stays, GatewayOK
  <2>5. QED
    BY <1>1, <2>1, <2>2, <2>3, <2>4 DEF Linked
<1>3. CASE Finalize
  BY <1>0, <1>1, <1>3 DEF Finalize, Linked
<1>4. /\ MemoryLinked(r, chain, Forgotten(r, memory))
      /\ \A c : CommitRests(r, chain, memory, c) => CommitRests(r, chain, Forgotten(r, memory), c)
      /\ \A n \in Remembered(r, final, chain, memory) : MemoryLinked(r, chain, n)
  BY <1>0, <1>1, MemoryLinks
<1>5. CASE Forget
  <2>1. memory' = Forgotten(r, memory) /\ UNCHANGED <<r, chain, final, call>>
    BY <1>5 DEF Forget
  <2>2. GatewayOK(r, chain, memory', call)
    BY <1>1, <1>4, <2>1 DEF GatewayOK
  <2>3. QED
    BY <1>1, <1>4, <2>1, <2>2 DEF Linked
<1>6. ASSUME UNCHANGED <<r, chain, final>>, MemoryLinked(r, chain, memory'), GatewayOK(r, chain, memory', call')
      PROVE  Linked'
  BY <1>1, <1>6 DEF Linked
<1>7. CASE Ask
  <2>1. /\ UNCHANGED <<r, chain, final, memory>>
        /\ call' = [call EXCEPT !.stage = "asked", !.asks = @ - 1, !.asked = chain,
                                !.context = GetLatestContext(r, chain)]
    BY <1>7 DEF Ask
  <2>2. call' = [stage |-> "asked", asks |-> call.asks - 1, context |-> GetLatestContext(r, chain),
                 asked |-> chain, latest |-> call.latest, index |-> call.index,
                 depth |-> call.depth, commit |-> call.commit]
    BY <1>0, <2>1 DEF CallOK
  <2>3. call'.stage = "asked" /\ call'.asked = chain
    BY <2>2
  <2>4. GatewayOK(r, chain, memory', call')
    BY <1>1, <2>3 DEF GatewayOK
  <2>5. QED
    BY <1>1, <1>6, <2>1, <2>4
<1>8. CASE FindLatest
  <2>1. /\ call.stage = "asked" /\ memory' \in Remembered(r, final, chain, memory) /\ UNCHANGED <<r, chain, final>>
        /\ \E index \in {FetchLatestCommitIndex(r, final, chain, memory')} :
            call' = IF index = NoIndex THEN Idle(call.asks)
                    ELSE [call EXCEPT !.stage = "found", !.latest = index, !.index = index]
    BY <1>8 DEF FindLatest
  <2>2. PICK index : /\ index = FetchLatestCommitIndex(r, final, chain, memory')
                     /\ call' = IF index = NoIndex THEN Idle(call.asks)
                                ELSE [call EXCEPT !.stage = "found", !.latest = index, !.index = index]
    BY <2>1
  <2>3. MemoryLinked(r, chain, memory')
    BY <1>4, <2>1
  <2>4. CASE index = NoIndex
    <3>1. call'.stage = "idle"
      BY <2>2, <2>4 DEF Idle
    <3>2. GatewayOK(r, chain, memory', call')
      BY <3>1 DEF GatewayOK
    <3>3. QED
      BY <1>6, <2>1, <2>3, <3>2
  <2>5. CASE index # NoIndex
    <3>0. call' = With(call, "found", index, index, call.depth, call.commit)
      BY <1>0, <2>2, <2>5 DEF CallOK, With
    <3>1. call'.stage = "found" /\ call'.index = index /\ call'.asked = call.asked
      BY <3>0 DEF With
    <3>2. IndexOK(r, index)
      BY <1>0, <1>1, <2>2, <2>3, <2>5, LatestIndex
    <3>3. GatewayOK(r, chain, memory', call')
      BY <1>1, <2>1, <3>1, <3>2 DEF GatewayOK
    <3>4. QED
      BY <1>6, <2>1, <2>3, <3>3
  <2>6. QED
    BY <2>4, <2>5
<1>9. CASE Fetch
  <2>1. /\ call.stage = "found" /\ memory' \in Remembered(r, final, chain, memory) /\ UNCHANGED <<r, chain, final>>
        /\ \E commit \in {FetchCommit(r, chain, memory', call.index)} :
            call' = IF commit = NoCommit THEN Idle(call.asks)
                    ELSE [call EXCEPT !.commit = commit,
                                      !.stage = IF call.context >= commit.index THEN "served" ELSE "walking"]
    BY <1>9 DEF Fetch
  <2>2. PICK commit, stage :
            /\ commit = FetchCommit(r, chain, memory', call.index)
            /\ stage = IF call.context >= commit.index THEN "served" ELSE "walking"
            /\ call' = IF commit = NoCommit THEN Idle(call.asks) ELSE [call EXCEPT !.commit = commit, !.stage = stage]
    BY <2>1
  <2>3. MemoryLinked(r, chain, memory')
    BY <1>4, <2>1
  <2>4. CASE commit = NoCommit
    <3>1. call'.stage = "idle"
      BY <2>2, <2>4 DEF Idle
    <3>2. GatewayOK(r, chain, memory', call')
      BY <3>1 DEF GatewayOK
    <3>3. QED
      BY <1>6, <2>1, <2>3, <3>2
  <2>5. CASE commit # NoCommit
    <3>0. call' = With(call, stage, call.latest, call.index, call.depth, commit)
      BY <1>0, <2>2, <2>5 DEF CallOK, With
    <3>1. call'.stage = stage /\ call'.commit = commit /\ call'.asked = call.asked /\ call'.context = call.context
      BY <3>0 DEF With
    <3>2. IndexOK(r, call.index)
      BY <1>1, <2>1 DEF GatewayOK
    <3>3. CommitRests(r, chain, memory', commit)
      BY <1>0, <1>1, <2>2, <2>3, <2>5, <3>2, CommitFetched
    <3>4. stage \in {"walking", "served"} /\ (stage = "served" => call.context >= commit.index)
      BY <2>2
    <3>5. GatewayOK(r, chain, memory', call')
      BY <1>1, <2>1, <3>1, <3>3, <3>4 DEF GatewayOK
    <3>6. QED
      BY <1>6, <2>1, <2>3, <3>5
  <2>6. QED
    BY <2>4, <2>5
<1>10. CASE FindParent
  <2>1. /\ call.stage = "walking" /\ UNCHANGED <<r, chain, final, memory>>
        /\ \E index \in {FetchParentCommitIndex(r, chain, call.commit)} :
            call' = IF index = NoIndex THEN Idle(call.asks)
                    ELSE [call EXCEPT !.stage = "found", !.index = index, !.depth = @ + 1]
    BY <1>10 DEF FindParent
  <2>2. PICK index : /\ index = FetchParentCommitIndex(r, chain, call.commit)
                     /\ call' = IF index = NoIndex THEN Idle(call.asks)
                                ELSE [call EXCEPT !.stage = "found", !.index = index, !.depth = @ + 1]
    BY <2>1
  <2>3. CASE index = NoIndex
    <3>1. call'.stage = "idle"
      BY <2>2, <2>3 DEF Idle
    <3>2. GatewayOK(r, chain, memory', call')
      BY <3>1 DEF GatewayOK
    <3>3. QED
      BY <1>1, <1>6, <2>1, <3>2
  <2>4. CASE index # NoIndex
    <3>0. call' = With(call, "found", call.latest, index, call.depth + 1, call.commit)
      BY <1>0, <2>2, <2>4 DEF CallOK, With
    <3>1. call'.stage = "found" /\ call'.index = index /\ call'.asked = call.asked
      BY <3>0 DEF With
    <3>2. CommitRests(r, chain, memory, call.commit)
      BY <1>1, <2>1 DEF GatewayOK
    <3>3. IndexOK(r, index)
      BY <1>0, <1>1, <2>2, <2>4, <3>2, ParentFound
    <3>4. GatewayOK(r, chain, memory', call')
      BY <1>1, <2>1, <3>1, <3>3 DEF GatewayOK
    <3>5. QED
      BY <1>1, <1>6, <2>1, <3>4
  <2>5. QED
    BY <2>3, <2>4
<1>11. CASE TooDeep
  <2>1. /\ call.stage = "walking" /\ UNCHANGED <<r, chain, final, memory>>
        /\ call' = IF r.allowHistorical THEN [call EXCEPT !.stage = "found", !.index = call.context]
                   ELSE Idle(call.asks)
    BY <1>11 DEF TooDeep
  <2>2. CASE ~r.allowHistorical
    <3>1. call'.stage = "idle"
      BY <2>1, <2>2 DEF Idle
    <3>2. GatewayOK(r, chain, memory', call')
      BY <3>1 DEF GatewayOK
    <3>3. QED
      BY <1>1, <1>6, <2>1, <3>2
  <2>3. CASE r.allowHistorical
    <3>0. call' = With(call, "found", call.latest, call.context, call.depth, call.commit)
      BY <1>0, <2>1, <2>3 DEF CallOK, With
    <3>1. call'.stage = "found" /\ call'.index = call.context /\ call'.asked = call.asked
      BY <3>0 DEF With
    <3>2. /\ ChainOK(r, call.asked) /\ ChainLinked(r, call.asked)
          /\ call.context = GetLatestContext(r, call.asked) /\ call.context # NoIndex
      BY <1>0, <1>1, <2>1 DEF AskedBefore, GatewayOK
    <3>3. IndexOK(r, call.context)
      BY <1>0, <3>2, ContextIndex
    <3>4. GatewayOK(r, chain, memory', call')
      BY <1>1, <2>1, <3>1, <3>3 DEF GatewayOK
    <3>5. QED
      BY <1>1, <1>6, <2>1, <3>4
  <2>4. QED
    BY <2>2, <2>3
<1>12. CASE Verify
  <2>1. UNCHANGED <<r, chain, final, memory>> /\ call' = Idle(call.asks)
    BY <1>12 DEF Verify
  <2>2. call'.stage = "idle"
    BY <2>1 DEF Idle
  <2>3. GatewayOK(r, chain, memory', call')
    BY <2>2 DEF GatewayOK
  <2>4. QED
    BY <1>1, <1>6, <2>1, <2>3
<1>13. CASE UNCHANGED vars
  BY <1>1, <1>13 DEF vars, Linked
<1>14. QED
  BY <1>2, <1>3, <1>5, <1>7, <1>8, <1>9, <1>10, <1>11, <1>12, <1>13 DEF Next

\* An answer that is served rests on the chain, so its verifier accepts it.
LEMMA LinkedServes == Inv /\ Linked => HonestAccepted
<1> SUFFICES ASSUME Inv, Linked, call.stage = "served"
             PROVE  \/ Verdict(EncodeWitness(r, call.commit)) \in Honest
                    \/ Spoiled(r, call.asked, chain, call.context, call.commit)
  BY DEF HonestAccepted, Honest
<1>1. /\ IsSetting(r) /\ ChainOK(r, chain) /\ MemoryOK(r, memory)
      /\ ChainOK(r, call.asked) /\ ChainKept(r, call.asked, chain)
      /\ call.context = GetLatestContext(r, call.asked) /\ call.context # NoIndex
  BY SettingsAssumption DEF Inv, AskedBefore
<1>2. /\ ChainLinked(r, chain) /\ ChainLinked(r, call.asked)
      /\ CommitRests(r, chain, memory, call.commit) /\ call.context >= call.commit.index
  BY DEF Linked, GatewayOK
<1>3. QED
  BY <1>1, <1>2, RestServed DEF Verdict

\* The gateway and the verifiers agree, for all rollups and all settings: what
\* the gateway serves is accepted however the chain went on since it was asked,
\* unless it is older than the window or what it rests on is gone.
THEOREM HonestIsAccepted == Spec => []HonestAccepted
<1>1. Init => Linked
  BY LinkedInit
<1>2. Inv /\ Linked /\ [Next]_vars => Linked'
  BY LinkedNext
<1>3. Inv /\ Linked => HonestAccepted
  BY LinkedServes
<1>4. QED
  BY InvHolds, <1>1, <1>2, <1>3, PTL DEF Spec

-----------------------------------------------------------------------------
(* BoLDAssertions.tla: that the gateway misses nothing of the log.         *)

\* The log tells of every assertion once, in order, and of confirmations in
\* order, each after its assertion and at most of the one confirmed last.
LogLinked(s) ==
    /\ \A k \in DOMAIN s.log :
            /\ s.log[k].block >= 1 /\ s.log[k].block <= s.now
            /\ s.log[k].name = "confirmed" => s.log[k].hash <= s.confirmed
    /\ \A j, k \in DOMAIN s.log : j < k =>
            /\ s.log[j].block <= s.log[k].block
            /\ s.log[j].name = s.log[k].name => s.log[j].hash < s.log[k].hash
            /\ s.log[j].name = "confirmed" /\ s.log[k].name = "created" => s.log[j].hash # s.log[k].hash
    /\ \A a \in DOMAIN s.nodes :
            \E k \in DOMAIN s.log : s.log[k].name = "created" /\ s.log[k].hash = a

\* It does at first,
LEMMA LogStarts ==
    ASSUME NEW x, x.start \in Nat \ {0}
    PROVE  LogLinked(BoLD!Start(x))
<1>1. PICK s : s = BoLD!Start(x)
  OBVIOUS
<1>2. /\ s.now = x.start /\ s.confirmed = 1
      /\ DOMAIN s.nodes = {1} /\ DOMAIN s.log = {1, 2}
      /\ s.log[1].name = "created" /\ s.log[1].hash = 1 /\ s.log[1].block = 1
      /\ s.log[2].name = "confirmed" /\ s.log[2].hash = 1 /\ s.log[2].block = 1
  BY <1>1 DEF BoLD!Start, BoLD!Event
<1>3. x.start >= 1
  OBVIOUS
<1>4. QED
  BY <1>1, <1>2, <1>3 DEF LogLinked

\* and with one more event, of a new assertion or of the next confirmed one.
LEMMA LogGrows ==
    ASSUME NEW s, BoldOK(s), BoldLinked(s), LogLinked(s), NEW e \in BoldEvent, e.block = s.now,
           NEW t, t.now = s.now, t.log = Append(s.log, e),
           \/ /\ e.name = "created" /\ e.hash = Len(s.nodes) + 1
              /\ t.confirmed = s.confirmed /\ DOMAIN t.nodes = DOMAIN s.nodes \cup {e.hash}
           \/ /\ e.name = "confirmed" /\ e.hash \in Nat /\ s.confirmed < e.hash
              /\ t.confirmed = e.hash /\ DOMAIN t.nodes = DOMAIN s.nodes
    PROVE  LogLinked(t)
<1> DEFINE n == Len(s.log) + 1
<1>1. /\ Len(s.nodes) \in Nat /\ DOMAIN s.nodes = 1 .. Len(s.nodes)
      /\ Len(s.log) \in Nat /\ DOMAIN s.log = 1 .. Len(s.log)
      /\ s.now \in Nat /\ s.confirmed \in DOMAIN s.nodes
      /\ \A k \in DOMAIN s.log : s.log[k] \in BoldEvent
  BY BoldNodes DEF BoldOK, BoldTyped
<1>2. /\ DOMAIN t.log = 1 .. Len(s.log) + 1 /\ t.log[n] = e /\ \A k \in DOMAIN s.log : t.log[k] = s.log[k]
  BY OneMore DEF BoldOK, BoldTyped
<1>3. /\ \A k \in DOMAIN t.log : k \in DOMAIN s.log \/ k = n
      /\ \A k \in DOMAIN s.log : k \in DOMAIN t.log /\ k < n
      /\ n \in DOMAIN t.log
  BY <1>1, <1>2
<1>4. s.now >= 1
  BY <1>1 DEF LogLinked, BoldEvent
<1>5. \A k \in DOMAIN s.log : /\ s.log[k].hash \in Nat /\ s.log[k].hash <= Len(s.nodes)
                              /\ s.log[k].block \in Nat /\ s.log[k].block <= s.now /\ s.log[k].block >= 1
                              /\ s.log[k].name = "confirmed" => s.log[k].hash <= s.confirmed
  BY <1>1 DEF BoldLinked, EventLinked, LogLinked, BoldEvent
<1>6. ASSUME NEW k \in DOMAIN t.log
      PROVE  /\ t.log[k].block >= 1 /\ t.log[k].block <= t.now
             /\ t.log[k].name = "confirmed" => t.log[k].hash <= t.confirmed
  <2>1. CASE k = n
    BY <1>2, <1>4, <2>1 DEF BoldEvent
  <2>2. CASE k \in DOMAIN s.log
    <3>1. s.confirmed <= t.confirmed
      BY <1>1
    <3>2. s.confirmed \in Nat /\ t.confirmed \in Nat
      BY <1>1
    <3>3. QED
      BY <1>2, <1>5, <2>2, <3>1, <3>2
  <2>3. QED
    BY <1>3, <2>1, <2>2
<1>7. ASSUME NEW j \in DOMAIN t.log, NEW k \in DOMAIN t.log, j < k
      PROVE  /\ t.log[j].block <= t.log[k].block
             /\ t.log[j].name = t.log[k].name => t.log[j].hash < t.log[k].hash
             /\ t.log[j].name = "confirmed" /\ t.log[k].name = "created" => t.log[j].hash # t.log[k].hash
  <2>1. j \in DOMAIN s.log
    BY <1>1, <1>2, <1>7
  <2>2. CASE k = n
    <3>1. t.log[k] = e /\ t.log[j] = s.log[j]
      BY <1>2, <2>1, <2>2
    <3>2. s.log[j].block <= e.block
      BY <1>5, <2>1
    <3>3. CASE e.name = "created"
      <4>1. e.hash = Len(s.nodes) + 1
        BY <3>3
      <4>2. s.log[j].hash < e.hash
        BY <1>1, <1>5, <2>1, <4>1
      <4>3. QED
        BY <1>5, <2>1, <3>1, <3>2, <4>2
    <3>4. CASE e.name = "confirmed"
      <4>1. s.confirmed < e.hash /\ e.hash \in Nat /\ s.confirmed \in Nat
        BY <1>1, <3>4
      <4>2. s.log[j].name = "confirmed" => s.log[j].hash < e.hash
        BY <1>5, <2>1, <4>1
      <4>3. QED
        BY <3>1, <3>2, <3>4, <4>2
    <3>5. QED
      BY <3>3, <3>4
  <2>3. CASE k \in DOMAIN s.log
    BY <1>2, <1>7, <2>1, <2>3 DEF LogLinked
  <2>4. QED
    BY <1>3, <2>2, <2>3
<1>8. ASSUME NEW a \in DOMAIN t.nodes
      PROVE  \E k \in DOMAIN t.log : t.log[k].name = "created" /\ t.log[k].hash = a
  <2>1. CASE a \in DOMAIN s.nodes
    <3>1. PICK k \in DOMAIN s.log : s.log[k].name = "created" /\ s.log[k].hash = a
      BY <2>1 DEF LogLinked
    <3>2. QED
      BY <1>2, <1>3, <3>1
  <2>2. CASE a \notin DOMAIN s.nodes
    <3>1. e.name = "created" /\ a = e.hash
      BY <2>2
    <3>2. QED
      BY <1>2, <1>3, <3>1
  <2>3. QED
    BY <2>1, <2>2
<1>9. QED
  BY <1>6, <1>7, <1>8 DEF LogLinked

\* What the log told stays in it, and what comes next is of the present block.
LogStays(s, t) ==
    /\ Len(s.log) <= Len(t.log) /\ \A k \in DOMAIN s.log : t.log[k] = s.log[k]
    /\ \A k \in DOMAIN t.log : k \in DOMAIN s.log \/ t.log[k].block >= s.now
    /\ s.now <= t.now

\* A move of the chain keeps the log so.
LEMMA LogMoves ==
    ASSUME NEW x, x.finishes \subseteq BOOLEAN, NEW s, BoldOK(s), BoldLinked(s), LogLinked(s),
           NEW t \in BoLD!Moves(x, s)
    PROVE  LogLinked(t) /\ LogStays(s, t)
<1>1. /\ Len(s.nodes) \in Nat /\ DOMAIN s.nodes = 1 .. Len(s.nodes)
      /\ Len(s.log) \in Nat /\ DOMAIN s.log = 1 .. Len(s.log)
      /\ s.now \in Nat /\ s.confirmed \in DOMAIN s.nodes
      /\ \A b \in DOMAIN s.nodes : s.nodes[b] \in BoldNode
  BY BoldNodes DEF BoldOK, BoldTyped
<1>0. s = [now |-> s.now, confirmed |-> s.confirmed, nodes |-> s.nodes, log |-> s.log] /\ s.log \in Seq(BoldEvent)
      /\ s.nodes \in Seq(BoldNode)
  BY DEF BoldOK, BoldTyped
<1>2. PICK e \in BoldEvent :
        /\ e.block = s.now /\ t.now = s.now /\ t.log = Append(s.log, e)
        /\ \/ /\ e.name = "created" /\ e.hash = Len(s.nodes) + 1
              /\ t.confirmed = s.confirmed /\ DOMAIN t.nodes = DOMAIN s.nodes \cup {e.hash}
           \/ /\ e.name = "confirmed" /\ e.hash \in Nat /\ s.confirmed < e.hash
              /\ t.confirmed = e.hash /\ DOMAIN t.nodes = DOMAIN s.nodes
  <2>1. CASE \E p \in DOMAIN s.nodes, f \in x.finishes : t = BoLD!Made(s, p, f)
    <3>1. PICK p \in DOMAIN s.nodes, f \in x.finishes : t = BoLD!Made(s, p, f)
      BY <2>1
    <3> DEFINE node == [parent |-> p, made |-> s.now, status |-> "pending", rivalled |-> FALSE, finished |-> f]
               event == BoLD!Event("created", Len(s.nodes) + 1, s.now)
               rivalled == \E a \in DOMAIN s.nodes : s.nodes[a].parent = p
    <3>2. /\ node \in BoldNode
          /\ event \in BoldEvent /\ event.name = "created" /\ event.hash = Len(s.nodes) + 1 /\ event.block = s.now
      BY <1>0, <1>1 DEF BoldNode, BoldEvent, BoLD!Event
    <3>3. t = BoldMade(s, p, rivalled, node, event)
      BY <1>0, <3>1, Zenon DEF BoldMade, BoLD!Hashes, BoLD!Made
    <3>4. PICK v \in BOOLEAN : v = rivalled
      OBVIOUS
    <3> HIDE DEF node, event
    <3> DEFINE q == [s.nodes EXCEPT ![p] = [s.nodes[p] EXCEPT !.rivalled = v]]
    <3>5. q \in Seq(BoldNode) /\ Len(q) = Len(s.nodes)
      <4>1. [s.nodes[p] EXCEPT !.rivalled = v] \in BoldNode
        BY <1>1 DEF BoldNode
      <4>2. QED
        BY <1>0, <4>1, ExceptSeq
    <3>6. t.now = s.now /\ t.confirmed = s.confirmed /\ t.nodes = Append(q, node) /\ t.log = Append(s.log, event)
      BY <3>3, <3>4 DEF BoldMade
    <3> HIDE DEF q
    <3>7. DOMAIN t.nodes = 1 .. Len(s.nodes) + 1
      BY <3>2, <3>5, <3>6, OneMore
    <3>8. QED
      BY <1>1, <3>2, <3>6, <3>7
  <2>2. CASE \E a \in {a \in DOMAIN s.nodes : s.nodes[a].parent = s.confirmed} : t = BoLD!Settled(s, a)
    <3>1. PICK a \in DOMAIN s.nodes : s.nodes[a].parent = s.confirmed /\ t = BoLD!Settled(s, a)
      BY <2>2
    <3> DEFINE node == [s.nodes[a] EXCEPT !.status = "confirmed"]
               event == BoLD!Event("confirmed", a, s.now)
    <3>2. event \in BoldEvent /\ event.name = "confirmed" /\ event.hash = a /\ event.block = s.now
      BY <1>0, <1>1 DEF BoldEvent, BoLD!Event
    <3>3. t = BoldSettled(s, a, node, event)
      BY <1>0, <3>1 DEF BoldSettled, BoLD!Settled
    <3> HIDE DEF node, event
    <3>4. /\ t.now = s.now /\ t.confirmed = a /\ DOMAIN t.nodes = DOMAIN s.nodes /\ t.log = Append(s.log, event)
      BY <3>3 DEF BoldSettled
    <3>5. s.confirmed < a /\ a \in Nat
      BY <1>1, <3>1 DEF BoldOK
    <3>6. QED
      BY <3>2, <3>4, <3>5
  <2>3. QED
    BY <2>1, <2>2 DEF BoLD!Moves, BoLD!Hashes
<1>3. LogLinked(t)
  BY <1>2, LogGrows
<1>4. DOMAIN t.log = 1 .. Len(s.log) + 1 /\ t.log[Len(s.log) + 1] = e /\ Len(t.log) = Len(s.log) + 1
      /\ \A k \in DOMAIN s.log : t.log[k] = s.log[k]
  BY <1>0, <1>2, OneMore
<1>5. e.block >= s.now /\ s.now <= t.now
  BY <1>1, <1>2
<1>6. \A k \in DOMAIN t.log : k \in DOMAIN s.log \/ k = Len(s.log) + 1
  BY <1>1, <1>4
<1>7. LogStays(s, t)
  BY <1>1, <1>4, <1>5, <1>6 DEF LogStays
<1>8. QED
  BY <1>3, <1>7

\* So does time.
LEMMA LogTicks ==
    ASSUME NEW s, BoldOK(s), LogLinked(s), NEW t, t = [s EXCEPT !.now = @ + 1]
    PROVE  LogLinked(t) /\ LogStays(s, t)
<1>1. t = [now |-> s.now + 1, confirmed |-> s.confirmed, nodes |-> s.nodes, log |-> s.log]
  BY DEF BoldOK, BoldTyped
<1>2. t.now = s.now + 1 /\ t.confirmed = s.confirmed /\ t.nodes = s.nodes /\ t.log = s.log
  BY <1>1
<1>3. s.now \in Nat /\ Len(s.log) \in Nat /\ \A k \in DOMAIN s.log : s.log[k].block \in Nat
  BY BoldNodes DEF BoldOK, BoldTyped, BoldEvent
<1>4. LogStays(s, t)
  BY <1>2, <1>3 DEF LogStays
<1>5. \A k \in DOMAIN t.log : /\ t.log[k].block >= 1 /\ t.log[k].block <= t.now
                              /\ t.log[k].name = "confirmed" => t.log[k].hash <= t.confirmed
  BY <1>2, <1>3 DEF LogLinked
<1>6. QED
  BY <1>2, <1>4, <1>5 DEF LogLinked

\* The events from block b0 to block b1, and those of them up to the n-th.
Events(s, b0, b1) == {k \in DOMAIN s.log : b0 <= s.log[k].block /\ s.log[k].block <= b1}

\* The assertions that a set of events tells of, those that it says are
\* confirmed, and those made on h.
Born(s, E) == {s.log[k].hash : k \in {k \in E : s.log[k].name = "created"}}
Settles(s, E) == {s.log[k].hash : k \in {k \in E : s.log[k].name = "confirmed"}}
Children(s, E, h) == {a \in Born(s, E) : s.nodes[a].parent = h}

\* The map says of its assertions what the events of E say, and has all of them
\* that are not before a confirmed one.
Tells(s, E, map) ==
    /\ map \in Seq(Entries(s))
    /\ \A i, j \in DOMAIN map : i < j => map[i].hash < map[j].hash
    /\ \A i \in DOMAIN map :
            /\ map[i].hash \in Born(s, E)
            /\ map[i].confirmed <=> map[i].hash \in Settles(s, E)
            /\ map[i].children = Cardinality(Children(s, E, map[i].hash))
    /\ \A a \in Born(s, E) : (\A b \in Settles(s, E) : b <= a) =>
            \E i \in DOMAIN map : map[i].hash = a

\* What one more event tells.
LEMMA OneMoreEvent ==
    ASSUME NEW s, NEW E, NEW n
    PROVE  /\ s.log[n].name = "created" => /\ Born(s, E \cup {n}) = Born(s, E) \cup {s.log[n].hash}
                                           /\ Settles(s, E \cup {n}) = Settles(s, E)
           /\ s.log[n].name = "confirmed" => /\ Born(s, E \cup {n}) = Born(s, E)
                                             /\ Settles(s, E \cup {n}) = Settles(s, E) \cup {s.log[n].hash}
  BY DEF Born, Settles

\* What E tells is of assertions there are.
LEMMA BornThere ==
    ASSUME NEW s, BoldOK(s), BoldLinked(s), NEW E, E \subseteq DOMAIN s.log
    PROVE  /\ \A a \in Born(s, E) : a \in DOMAIN s.nodes /\ a \in Nat
           /\ IsFiniteSet(Born(s, E)) /\ \A h : IsFiniteSet(Children(s, E, h))
<1>1. Len(s.nodes) \in Nat /\ DOMAIN s.nodes = 1 .. Len(s.nodes)
  BY BoldNodes DEF BoldOK
<1>2. \A a \in Born(s, E) : a \in DOMAIN s.nodes
  BY DEF Born, BoldLinked, EventLinked
<1>3. IsFiniteSet(1 .. Len(s.nodes))
  BY <1>1, FS_Interval
<1>4. Born(s, E) \subseteq 1 .. Len(s.nodes)
  BY <1>1, <1>2
<1>5. IsFiniteSet(Born(s, E))
  BY <1>3, <1>4, FS_Subset
<1>6. \A h : Children(s, E, h) \subseteq Born(s, E)
  BY DEF Children
<1>7. QED
  BY <1>1, <1>2, <1>5, <1>6, FS_Subset

\* The map with one assertion more tells of it too.
LEMMA TellsCreated ==
    ASSUME NEW s, BoldOK(s), BoldLinked(s), LogLinked(s), NEW n \in DOMAIN s.log,
           NEW E, E \subseteq DOMAIN s.log, \A k \in E : k < n, s.log[n].name = "created",
           NEW map, Tells(s, E, map), NEW known \in Entries(s), known.hash = s.log[n].hash,
           known.confirmed = FALSE, known.children = 0
    PROVE  Tells(s, E \cup {n}, BoLD!OnCreated(map, known))
<1> DEFINE h == s.log[n].hash
           q == CountedFor(map, known.parent)
<1>1. /\ Len(s.nodes) \in Nat /\ DOMAIN s.nodes = 1 .. Len(s.nodes)
      /\ \A a \in DOMAIN s.nodes : s.nodes[a].parent < a
  BY BoldNodes DEF BoldOK
<1>2. h \in DOMAIN s.nodes /\ h \in Nat
  BY <1>1 DEF BoldLinked, EventLinked
<1>3. known.parent = s.nodes[h].parent
  BY DEF Entries, EntrySays
<1>4. map \in Seq(Entries(s)) /\ Len(map) \in Nat /\ DOMAIN map = 1 .. Len(map) /\ \A i \in DOMAIN map : map[i] \in Entries(s)
  BY InSeq DEF Tells
<1>5. \A a \in Born(s, E) : a \in DOMAIN s.nodes /\ a \in Nat /\ a < h
  <2>1. \A a \in Born(s, E) : a \in DOMAIN s.nodes /\ a \in Nat
    BY BornThere
  <2>2. \A k \in E : s.log[k].name = "created" => s.log[k].hash < h
    BY DEF LogLinked
  <2>3. QED
    BY <2>1, <2>2 DEF Born
<1>6. h \notin Settles(s, E)
  BY DEF Settles, LogLinked
<1>7. \A i \in DOMAIN map : map[i].hash \in Nat /\ map[i].hash < h
  BY <1>5 DEF Tells
<1>8. q \in Seq(Entries(s)) /\ DOMAIN q = DOMAIN map /\ Len(q) = Len(map)
  <2>1. q \in Seq(Entries(s))
    BY <1>4, Counted
  <2>2. DOMAIN q = DOMAIN map
    BY DEF CountedFor
  <2> HIDE DEF q
  <2>3. DOMAIN q = 1 .. Len(q) /\ Len(q) \in Nat
    BY <2>1, InSeq
  <2>4. QED
    BY ONLY <1>4, <2>1, <2>2, <2>3
<1>9. \A i \in DOMAIN map : /\ q[i].hash = map[i].hash /\ q[i].confirmed = map[i].confirmed
                            /\ q[i].children = IF map[i].hash = known.parent THEN map[i].children + 1 ELSE map[i].children
  <2> SUFFICES ASSUME NEW i \in DOMAIN map
               PROVE  /\ q[i].hash = map[i].hash /\ q[i].confirmed = map[i].confirmed
                      /\ q[i].children = IF map[i].hash = known.parent THEN map[i].children + 1 ELSE map[i].children
    OBVIOUS
  <2>1. PICK c \in Entries(s) : c = map[i]
    BY <1>4
  <2>2. c = [hash |-> c.hash, parent |-> c.parent, created |-> c.created, finished |-> c.finished,
             confirmed |-> c.confirmed, children |-> c.children]
    BY EntryIs
  <2>3. q[i] = MoreFor(c, known.parent)
    BY <2>1 DEF CountedFor
  <2> HIDE DEF q
  <2>4. QED
    BY <2>1, <2>2, <2>3 DEF MoreFor
<1> HIDE DEF q
<1>10. BoLD!OnCreated(map, known) = Append(q, known)
  <2>1. BoLD!OnCreated(map, known) = BoLD!Put(q, known)
    BY Zenon DEF BoLD!OnCreated, CountedFor, MoreFor, q
  <2>2. BoLD!Known(q, known.hash) = {}
    <3>1. \A i \in DOMAIN q : q[i].hash # known.hash
      BY <1>2, <1>7, <1>8, <1>9
    <3>2. QED
      BY <3>1 DEF BoLD!Known
  <2>3. QED
    BY <2>1, <2>2 DEF BoLD!Put
<1> DEFINE p == Append(q, known)
           m == Len(map) + 1
           F == E \cup {n}
<1>11. /\ p \in Seq(Entries(s)) /\ DOMAIN p = 1 .. Len(map) + 1 /\ p[m] = known
       /\ \A i \in DOMAIN map : p[i] = q[i]
  BY <1>8, OneMore
<1>12. /\ \A i \in DOMAIN p : i \in DOMAIN map \/ i = m
       /\ \A i \in DOMAIN map : i \in DOMAIN p /\ i < m
       /\ m \in DOMAIN p
  BY <1>4, <1>11
<1>13. Born(s, F) = Born(s, E) \cup {h} /\ Settles(s, F) = Settles(s, E)
  BY OneMoreEvent
<1> HIDE DEF p, F, h
<1>14. ASSUME NEW i \in DOMAIN p, NEW j \in DOMAIN p, i < j
       PROVE  p[i].hash < p[j].hash
  <2>1. i \in DOMAIN map
    BY <1>4, <1>11, <1>14
  <2>2. CASE j = m
    BY <1>7, <1>9, <1>11, <2>1, <2>2 DEF h
  <2>3. CASE j \in DOMAIN map
    <3>1. p[i].hash = map[i].hash /\ p[j].hash = map[j].hash
      BY <1>9, <1>11, <2>1, <2>3
    <3>2. map[i].hash < map[j].hash
      BY <1>14, <2>1, <2>3 DEF Tells
    <3>3. QED
      BY <3>1, <3>2
  <2>4. QED
    BY <1>12, <2>2, <2>3
<1>15. ASSUME NEW i \in DOMAIN p
       PROVE  /\ p[i].hash \in Born(s, F)
              /\ p[i].confirmed <=> p[i].hash \in Settles(s, F)
              /\ p[i].children = Cardinality(Children(s, F, p[i].hash))
  <2>1. CASE i = m
    <3>1. p[i].hash = h /\ p[i].confirmed = FALSE /\ p[i].children = 0
      BY <1>11, <2>1 DEF h
    <3>2. Children(s, F, h) = {}
      <4>1. ASSUME NEW a \in Born(s, F), s.nodes[a].parent = h PROVE FALSE
        <5>1. a \in DOMAIN s.nodes /\ a \in Nat /\ a <= h
          BY <1>2, <1>5, <1>13
        <5>2. s.nodes[a].parent < a
          BY <1>1, <5>1
        <5>3. QED
          BY <1>2, <4>1, <5>1, <5>2
      <4>2. QED
        BY <4>1 DEF Children
    <3>3. QED
      BY <1>6, <1>13, <3>1, <3>2, FS_EmptySet
  <2>2. CASE i \in DOMAIN map
    <3>1. PICK g \in Nat : g = map[i].hash
      BY <1>7, <2>2
    <3>2. /\ p[i].hash = g /\ p[i].confirmed = map[i].confirmed
          /\ p[i].children = IF g = known.parent THEN map[i].children + 1 ELSE map[i].children
      BY <1>9, <1>11, <2>2, <3>1
    <3>3. g \in Born(s, E) /\ (map[i].confirmed <=> g \in Settles(s, E)) /\ map[i].children = Cardinality(Children(s, E, g))
      BY <2>2, <3>1 DEF Tells
    <3>4. h \notin Children(s, E, g) /\ IsFiniteSet(Children(s, E, g))
      <4>1. h \notin Born(s, E)
        BY <1>2, <1>5
      <4>2. h \notin Children(s, E, g)
        BY ONLY <4>1 DEF Children
      <4>3. QED
        BY <4>2, BornThere
    <3>5. g \in Born(s, F) /\ (p[i].confirmed <=> g \in Settles(s, F))
      BY ONLY <1>13, <3>2, <3>3
    <3>6. p[i].children = Cardinality(Children(s, F, g))
      <4>1. CASE g = known.parent
        <5>1. Children(s, F, g) = Children(s, E, g) \cup {h}
          BY <1>3, <1>13, <4>1 DEF Children
        <5>2. Cardinality(Children(s, F, g)) = Cardinality(Children(s, E, g)) + 1
          BY <3>4, <5>1, FS_AddElement
        <5>3. QED
          BY ONLY <3>2, <3>3, <4>1, <5>2
      <4>2. CASE g # known.parent
        <5>1. Children(s, F, g) = Children(s, E, g)
          BY <1>3, <1>13, <4>2 DEF Children
        <5>2. QED
          BY ONLY <3>2, <3>3, <4>2, <5>1
      <4>3. QED
        BY <4>1, <4>2
    <3>7. QED
      BY ONLY <3>2, <3>5, <3>6
  <2>3. QED
    BY <1>12, <2>1, <2>2
<1>16. ASSUME NEW a \in Born(s, F), \A b \in Settles(s, F) : b <= a
       PROVE  \E i \in DOMAIN p : p[i].hash = a
  <2>1. CASE a = h
    BY <1>11, <1>12, <2>1 DEF h
  <2>2. CASE a \in Born(s, E)
    <3>1. PICK i \in DOMAIN map : map[i].hash = a
      BY <1>13, <1>16, <2>2 DEF Tells
    <3>2. i \in DOMAIN p /\ p[i].hash = a
      BY <1>9, <1>11, <1>12, <3>1
    <3>3. QED
      BY <3>2
  <2>3. QED
    BY <1>13, <1>16, <2>1, <2>2
<1>17. Tells(s, F, p)
  BY <1>11, <1>14, <1>15, <1>16 DEF Tells
<1>18. QED
  BY <1>10, <1>17 DEF p, F

\* So does the map without the assertions before one that is confirmed.
LEMMA TellsConfirmed ==
    ASSUME NEW s, BoldOK(s), BoldLinked(s), LogLinked(s), NEW n \in DOMAIN s.log,
           NEW E, E \subseteq DOMAIN s.log, \A k \in E : k < n, s.log[n].name = "confirmed",
           NEW map, Tells(s, E, map)
    PROVE  Tells(s, E \cup {n}, BoLD!OnConfirmed(map, s.log[n].hash))
<1> DEFINE h == s.log[n].hash
           F == E \cup {n}
           p == BoLD!OnConfirmed(map, h)
<1>1. map \in Seq(Entries(s)) /\ Len(map) \in Nat /\ DOMAIN map = 1 .. Len(map) /\ \A i \in DOMAIN map : map[i] \in Entries(s)
  BY InSeq DEF Tells
<1>2. h \in Nat /\ s.nodes[h].status = "confirmed"
  <2>1. h \in DOMAIN s.nodes /\ s.nodes[h].status = "confirmed"
    BY DEF BoldLinked, EventLinked
  <2>2. DOMAIN s.nodes = 1 .. Len(s.nodes) /\ Len(s.nodes) \in Nat
    BY BoldNodes DEF BoldOK
  <2>3. QED
    BY <2>1, <2>2
<1>3. Born(s, F) = Born(s, E) /\ Settles(s, F) = Settles(s, E) \cup {h}
  BY OneMoreEvent
<1>4. \A g : Children(s, F, g) = Children(s, E, g)
  BY <1>3 DEF Children
<1>5. \A i \in DOMAIN map : map[i].hash \in Nat
  BY <1>1 DEF Entries, KnownEntry
<1>6. p \in Seq(Entries(s))
  BY <1>1, <1>2, ConfirmedIn
<1> HIDE DEF F
<1>7. CASE BoLD!Known(map, h) = {}
  <2>1. p = map
    BY <1>7 DEF BoLD!OnConfirmed
  <2>2. \A i \in DOMAIN map : map[i].hash # h
    BY <1>7 DEF BoLD!Known
  <2> HIDE DEF h, p
  <2>3. \A i \in DOMAIN map :
           map[i].hash \in Born(s, F) /\ map[i].children = Cardinality(Children(s, F, map[i].hash))
    BY <1>3, <1>4 DEF Tells
  <2>4. \A i \in DOMAIN map : map[i].confirmed <=> map[i].hash \in Settles(s, F)
    BY <1>3, <2>2 DEF Tells
  <2>5. \A a \in Born(s, F) : (\A b \in Settles(s, F) : b <= a) => \E i \in DOMAIN map : map[i].hash = a
    BY <1>3 DEF Tells
  <2>6. \A i, j \in DOMAIN map : i < j => map[i].hash < map[j].hash
    BY DEF Tells
  <2>7. Tells(s, F, map)
    BY ONLY <1>1, <2>3, <2>4, <2>5, <2>6 DEF Tells
  <2>8. QED
    BY <2>1, <2>7 DEF p, F, h
<1>8. CASE BoLD!Known(map, h) # {}
  <2>1. PICK i : i = CHOOSE j \in BoLD!Known(map, h) : TRUE
    OBVIOUS
  <2>2. i \in DOMAIN map /\ map[i].hash = h
    BY <1>8, <2>1 DEF BoLD!Known
  <2>3. PICK q : q = [map EXCEPT ![i].confirmed = TRUE]
    OBVIOUS
  <2>4. p = SubSeq(q, i, Len(map))
    BY <1>8, <2>1, <2>3 DEF BoLD!OnConfirmed
  <2>5. \A j \in DOMAIN map :
           /\ q[j].hash = map[j].hash /\ q[j].children = map[j].children
           /\ j = i => q[j].confirmed = TRUE
           /\ j # i => q[j].confirmed = map[j].confirmed
    <3>1. PICK c \in Entries(s) : c = map[i]
      BY <1>1, <2>2
    <3>2. PICK d : d = [c EXCEPT !.confirmed = TRUE]
      OBVIOUS
    <3>3. d.hash = c.hash /\ d.children = c.children /\ d.confirmed = TRUE
      <4>1. c = [hash |-> c.hash, parent |-> c.parent, created |-> c.created, finished |-> c.finished,
                 confirmed |-> c.confirmed, children |-> c.children]
        BY EntryIs
      <4>2. QED
        BY <3>2, <4>1
    <3>4. q = [map EXCEPT ![i] = d]
      BY <2>3, <3>1, <3>2
    <3>5. \A j \in DOMAIN map : q[j] = IF j = i THEN d ELSE map[j]
      BY <3>4
    <3>6. QED
      BY ONLY <3>1, <3>3, <3>5
  <2> DEFINE m == Len(map) - i + 1
  <2>6. i \in 1 .. Len(map) /\ i \in Nat /\ m \in Nat
    BY <1>1, <2>2
  <2>7. DOMAIN p = 1 .. m /\ \A k \in 1 .. m : p[k] = q[i + k - 1]
    <3> DEFINE S == {q[k] : k \in i .. Len(map)}
    <3>1. \A k \in i .. Len(map) : q[k] \in S
      OBVIOUS
    <3>2. i \in Int /\ Len(map) \in Int /\ i <= Len(map)
      BY <1>1, <2>6
    <3> HIDE DEF S
    <3>3. p \in Seq(S) /\ Len(p) = m /\ \A k \in 1 .. m : p[k] = q[i + k - 1]
      <4>1. /\ SubSeq(q, i, Len(map)) \in Seq(S)
            /\ Len(SubSeq(q, i, Len(map))) = IF i <= Len(map) THEN Len(map) - i + 1 ELSE 0
            /\ \A k \in 1 .. Len(map) - i + 1 : SubSeq(q, i, Len(map))[k] = q[i + k - 1]
        BY <3>1, <3>2, SubSeqProperties
      <4>2. QED
        BY <2>4, <3>2, <4>1
    <3>4. QED
      BY <3>3, InSeq
  <2> HIDE DEF h, p
  <2>8. \A k \in 1 .. m : i + k - 1 \in DOMAIN map
    BY ONLY <1>1, <2>6
  <2>9. ASSUME NEW k \in DOMAIN p
        PROVE  \E j \in DOMAIN map :
                  /\ j = i + k - 1
                  /\ p[k].hash = map[j].hash /\ p[k].children = map[j].children
                  /\ j = i => p[k].confirmed = TRUE
                  /\ j # i => p[k].confirmed = map[j].confirmed
    <3>1. PICK j \in DOMAIN map : j = i + k - 1
      BY <2>7, <2>8, <2>9
    <3>2. p[k] = q[j]
      BY <2>7, <2>9, <3>1
    <3>3. QED
      BY <2>5, <3>1, <3>2
  <2>10. \A j \in DOMAIN map : map[j].hash = h => j = i
    <3> SUFFICES ASSUME NEW j \in DOMAIN map, map[j].hash = h, j # i PROVE FALSE
      OBVIOUS
    <3>1. j < i \/ i < j
      BY <1>1, <2>6
    <3>2. map[j].hash < map[i].hash \/ map[i].hash < map[j].hash
      BY <2>2, <3>1 DEF Tells
    <3>3. QED
      BY <1>2, <2>2, <3>2 DEF h
  <2>11. ASSUME NEW k \in DOMAIN p
         PROVE  /\ p[k].hash \in Born(s, F)
                /\ p[k].confirmed <=> p[k].hash \in Settles(s, F)
                /\ p[k].children = Cardinality(Children(s, F, p[k].hash))
    <3>1. PICK j \in DOMAIN map :
             /\ p[k].hash = map[j].hash /\ p[k].children = map[j].children
             /\ j = i => p[k].confirmed = TRUE
             /\ j # i => p[k].confirmed = map[j].confirmed
      BY <2>9
    <3>2. map[j].hash \in Born(s, E) /\ map[j].children = Cardinality(Children(s, E, map[j].hash))
      BY DEF Tells
    <3>3. map[j].confirmed <=> map[j].hash \in Settles(s, E)
      BY DEF Tells
    <3>4. p[k].hash \in Born(s, F) /\ p[k].children = Cardinality(Children(s, F, p[k].hash))
      BY ONLY <1>3, <1>4, <3>1, <3>2
    <3>5. p[k].confirmed <=> p[k].hash \in Settles(s, F)
      <4>1. CASE j = i
        BY ONLY <1>3, <2>2, <3>1, <4>1
      <4>2. CASE j # i
        <5>1. map[j].hash # h
          BY <2>10, <4>2
        <5>2. QED
          BY ONLY <1>3, <3>1, <3>3, <4>2, <5>1
      <4>3. QED
        BY <4>1, <4>2
    <3>6. QED
      BY <3>4, <3>5
  <2>12. ASSUME NEW k \in DOMAIN p, NEW l \in DOMAIN p, k < l
         PROVE  p[k].hash < p[l].hash
    <3>1. PICK j \in DOMAIN map : j = i + k - 1 /\ p[k].hash = map[j].hash
      BY <2>9
    <3>2. PICK o \in DOMAIN map : o = i + l - 1 /\ p[l].hash = map[o].hash
      BY <2>9
    <3>3. j < o
      BY <2>6, <2>7, <2>12, <3>1, <3>2
    <3>4. map[j].hash < map[o].hash
      BY <3>3 DEF Tells
    <3>5. QED
      BY <3>1, <3>2, <3>4
  <2>13. ASSUME NEW a \in Born(s, F), \A b \in Settles(s, F) : b <= a
         PROVE  \E k \in DOMAIN p : p[k].hash = a
    <3>1. a \in Born(s, E) /\ (\A b \in Settles(s, E) : b <= a) /\ h <= a
      BY <1>3, <2>13
    <3>2. PICK j \in DOMAIN map : map[j].hash = a
      BY <3>1 DEF Tells
    <3>3. i <= j
      <4>1. CASE j < i
        <5>1. map[j].hash < map[i].hash
          BY <2>2, <4>1 DEF Tells
        <5>2. a < h /\ a \in Nat
          BY <1>5, <2>2, <3>2, <5>1
        <5>3. h \in Nat
          BY <1>2 DEF h
        <5>4. QED
          BY ONLY <3>1, <5>2, <5>3
      <4>2. QED
        BY <1>1, <2>6, <4>1
    <3>4. PICK k : k = j - i + 1
      OBVIOUS
    <3>5. k \in DOMAIN p /\ i + k - 1 = j
      BY <1>1, <2>6, <2>7, <3>3, <3>4
    <3>6. p[k].hash = map[j].hash
      BY <2>9, <3>5
    <3>7. QED
      BY <3>2, <3>5, <3>6
  <2>14. Tells(s, F, p)
    BY <1>6, <2>11, <2>12, <2>13 DEF Tells, h, p
  <2>15. QED
    BY <2>14 DEF p, F, h
<1>9. QED
  BY <1>7, <1>8

\* One event of the log, in the range or not.
LEMMA TellsEvent ==
    ASSUME NEW s, BoldOK(s), BoldLinked(s), LogLinked(s), NEW n \in DOMAIN s.log,
           NEW E, E \subseteq DOMAIN s.log, \A k \in E : k < n,
           NEW map, Tells(s, E, map), NEW b0, NEW b1,
           ~(s.log[n].block < b0 \/ s.log[n].block > b1)
    PROVE  Tells(s, E \cup {n}, OnEvent(s, s.log[n], b0, b1, map))
<1> DEFINE e == s.log[n]
<1>1. e \in BoldEvent /\ EventLinked(s, e)
  BY BoldNodes DEF BoldOK, BoldLinked
<1>2. CASE e.name = "created"
  <2>1. PICK known : known = BoLD!KnownFromCreatedEvent(s, e)
    OBVIOUS
  <2>2. e.hash \in DOMAIN s.nodes /\ s.nodes[e.hash] \in BoldNode
    BY <1>1, BoldNodes DEF BoldOK, EventLinked
  <2>3. known \in Entries(s) /\ known.hash = e.hash /\ known.confirmed = FALSE /\ known.children = 0
    BY <1>1, <1>2, <2>1, <2>2
       DEF BoLD!KnownFromCreatedEvent, Entries, KnownEntry, EntrySays, EventLinked, BoldEvent, BoldNode
  <2>4. Tells(s, E \cup {n}, BoLD!OnCreated(map, known))
    BY <1>2, <2>3, TellsCreated
  <2>5. QED
    BY <1>2, <2>1, <2>4 DEF OnEvent
<1>3. CASE e.name = "confirmed"
  <2>1. Tells(s, E \cup {n}, BoLD!OnConfirmed(map, e.hash))
    BY <1>3, TellsConfirmed
  <2>2. QED
    BY <1>3, <2>1 DEF OnEvent
<1>4. QED
  BY <1>1, <1>2, <1>3 DEF BoldEvent

\* What SyncAssertions makes of a map that tells of the blocks before a range
\* tells of those of the range too.
LEMMA SyncTells ==
    ASSUME NEW s, BoldOK(s), BoldLinked(s), LogLinked(s), NEW first \in Int, NEW b0 \in Int, NEW b1 \in Int,
           first <= b0, b0 - 1 <= b1, NEW map, Tells(s, Events(s, first, b0 - 1), map)
    PROVE  Tells(s, Events(s, first, b1), BoLD!SyncAssertions(s, map, b0, b1))
<1> DEFINE N == Len(s.log)
           D == 0 .. N
           rank == [n \in D |-> n]
           Upto(n) == Events(s, first, b0 - 1) \cup {k \in Events(s, b0, b1) : k <= n}
<1>1. /\ N \in Nat /\ DOMAIN s.log = 1 .. N
      /\ \A n \in DOMAIN s.log : s.log[n].block \in Int
  BY BoldNodes DEF BoldOK, BoldEvent
<1>2. PICK f \in [D -> Seq(Entries(s))] :
          /\ BoLD!SyncAssertions(s, map, b0, b1) = f[N]
          /\ Syncing(s, map, b0, b1, f)
  <2>1. map \in Seq(Entries(s))
    BY DEF Tells
  <2>2. QED
    BY <2>1, SyncIs
<1> USE DEF Syncing
<1> DEFINE S == {n \in D : Tells(s, Upto(n), f[n])}
<1>3. \A n \in D : (\A m \in D : rank[m] < rank[n] => m \in S) => n \in S
  <2> SUFFICES ASSUME NEW n \in D, \A m \in D : rank[m] < rank[n] => m \in S PROVE Tells(s, Upto(n), f[n])
    OBVIOUS
  <2>1. CASE n = 0
    <3>1. Upto(0) = Events(s, first, b0 - 1)
      BY <1>1 DEF Events
    <3>2. QED
      BY <1>1, <1>2, <2>1, <3>1
  <2>2. CASE n # 0
    <3>1. n \in DOMAIN s.log /\ n - 1 \in D /\ rank[n - 1] < rank[n]
      BY <1>1, <2>2
    <3>2. Tells(s, Upto(n - 1), f[n - 1])
      BY <3>1
    <3>3. f[n] = OnEvent(s, s.log[n], b0, b1, f[n - 1])
      BY <1>2, <2>2
    <3>4. CASE s.log[n].block < b0 \/ s.log[n].block > b1
      <4>1. n \notin Events(s, b0, b1)
        BY <1>1, <3>1, <3>4 DEF Events
      <4>2. \A k \in Events(s, b0, b1) : k <= n <=> k <= n - 1
        BY <1>1, <4>1 DEF Events
      <4>3. Upto(n) = Upto(n - 1)
        BY <4>2
      <4>4. f[n] = f[n - 1]
        BY <3>3, <3>4 DEF OnEvent
      <4>5. QED
        BY <3>2, <4>3, <4>4
    <3>5. CASE ~(s.log[n].block < b0 \/ s.log[n].block > b1)
      <4>1. n \in Events(s, b0, b1)
        BY <1>1, <3>1, <3>5 DEF Events
      <4>2. \A k \in Events(s, b0, b1) : k <= n <=> k <= n - 1 \/ k = n
        BY <1>1, <3>1 DEF Events
      <4>3. Upto(n) = Upto(n - 1) \cup {n}
        BY <4>1, <4>2
      <4>4. Upto(n - 1) \subseteq DOMAIN s.log
        BY DEF Events
      <4>5. \A k \in Upto(n - 1) : k < n
        <5>1. ASSUME NEW k \in Events(s, first, b0 - 1) PROVE k < n
          <6>0. k \in DOMAIN s.log /\ s.log[k].block <= b0 - 1
            BY <5>1 DEF Events
          <6>1. k \in DOMAIN s.log /\ s.log[k].block < s.log[n].block
            <7>1. s.log[k].block \in Int /\ s.log[n].block \in Int /\ ~(s.log[n].block < b0)
              BY <1>1, <3>1, <3>5, <6>0
            <7>2. QED
              BY ONLY <6>0, <7>1, b0 \in Int
          <6>2. ~(n < k) /\ n # k
            BY <1>1, <3>1, <6>1 DEF LogLinked
          <6>3. QED
            BY <1>1, <3>1, <6>1, <6>2
        <5>2. ASSUME NEW k \in Events(s, b0, b1), k <= n - 1 PROVE k < n
          BY <1>1, <3>1, <5>2 DEF Events
        <5>3. QED
          BY <5>1, <5>2
      <4> HIDE DEF Upto
      <4>6. Tells(s, Upto(n - 1) \cup {n}, OnEvent(s, s.log[n], b0, b1, f[n - 1]))
        BY <3>1, <3>2, <3>5, <4>4, <4>5, TellsEvent
      <4>7. QED
        BY <3>3, <4>3, <4>6
    <3>6. QED
      BY <3>4, <3>5
  <2>3. QED
    BY <2>1, <2>2
<1>4. rank \in [D -> 0 .. N]
  OBVIOUS
<1>5. N \in S
  <2>1. N \in D
    BY <1>1
  <2> HIDE DEF S, D, rank, N
  <2>2. Inductive(D, N, rank, S)
    BY <1>1, <1>3, <1>4 DEF Inductive
  <2>3. QED
    BY <2>1, <2>2, Induction
<1>6. Upto(N) = Events(s, first, b1)
  <2>1. ASSUME NEW k \in DOMAIN s.log
        PROVE  k \in Upto(N) <=> k \in Events(s, first, b1)
    BY <1>1 DEF Events
  <2>2. QED
    BY <2>1 DEF Events
<1>7. QED
  BY <1>2, <1>5, <1>6

\* An assertion is made no later than it is confirmed,
LEMMA MadeBefore ==
    ASSUME NEW s, BoldOK(s), BoldLinked(s), LogLinked(s), NEW k \in DOMAIN s.log, s.log[k].name = "confirmed"
    PROVE  /\ s.log[k].hash \in DOMAIN s.nodes /\ s.nodes[s.log[k].hash].made \in Nat
           /\ s.nodes[s.log[k].hash].made <= s.log[k].block
           /\ s.log[k].block \in Nat /\ s.log[k].block >= 1
<1> DEFINE h == s.log[k].hash
<1>1. /\ DOMAIN s.log = 1 .. Len(s.log) /\ Len(s.log) \in Nat
      /\ \A j \in DOMAIN s.log : s.log[j].block \in Nat
  BY BoldNodes DEF BoldOK, BoldEvent
<1>2. h \in DOMAIN s.nodes /\ s.nodes[h].made \in Nat
  BY BoldNodes DEF BoldOK, BoldLinked, EventLinked, BoldNode
<1>3. PICK j \in DOMAIN s.log : s.log[j].name = "created" /\ s.log[j].hash = h
  BY <1>2 DEF LogLinked
<1>4. s.nodes[h].made = s.log[j].block
  BY <1>3 DEF BoldLinked, EventLinked
<1>5. ~(k < j) /\ j # k
  BY <1>3 DEF LogLinked
<1>6. j < k
  BY <1>1, <1>5
<1>7. s.log[j].block <= s.log[k].block /\ s.log[k].block >= 1
  BY <1>6 DEF LogLinked
<1>8. QED
  BY <1>1, <1>2, <1>4, <1>7

\* and no later than those after it.
LEMMA MadeInOrder ==
    ASSUME NEW s, BoldOK(s), BoldLinked(s), LogLinked(s), NEW a \in DOMAIN s.nodes, NEW b \in DOMAIN s.nodes, a <= b
    PROVE  s.nodes[a].made <= s.nodes[b].made
<1>1. /\ DOMAIN s.log = 1 .. Len(s.log) /\ Len(s.log) \in Nat
      /\ \A j \in DOMAIN s.log : s.log[j].block \in Nat
      /\ DOMAIN s.nodes = 1 .. Len(s.nodes) /\ Len(s.nodes) \in Nat
  BY BoldNodes DEF BoldOK, BoldEvent
<1>2. PICK j \in DOMAIN s.log : s.log[j].name = "created" /\ s.log[j].hash = a
  BY DEF LogLinked
<1>3. PICK k \in DOMAIN s.log : s.log[k].name = "created" /\ s.log[k].hash = b
  BY DEF LogLinked
<1>4. s.nodes[a].made = s.log[j].block /\ s.nodes[b].made = s.log[k].block
  BY <1>2, <1>3 DEF BoldLinked, EventLinked
<1>5. a \in Nat /\ b \in Nat
  BY <1>1
<1>6. k < j => b < a
  BY <1>2, <1>3 DEF LogLinked
<1>7. j <= k
  BY <1>1, <1>5, <1>6
<1>8. j < k => s.log[j].block <= s.log[k].block
  BY DEF LogLinked
<1>9. QED
  BY <1>1, <1>4, <1>7, <1>8

\* What the gateway remembers tells of the events from the block in which an
\* assertion was made that was confirmed by the last block it read, to that
\* block, which is old enough.
Reads(x, view, s, m) ==
    \/ m.lastBlock = -1 /\ m.map = << >>
    \/ /\ BoLD!Unfinalized(x) /\ m.lastBlock \in Nat /\ m.lastBlock + x.minAge <= view.now
       /\ \E k \in DOMAIN s.log : /\ s.log[k].name = "confirmed" /\ s.log[k].block <= m.lastBlock
                                  /\ Tells(s, Events(s, s.nodes[s.log[k].hash].made, m.lastBlock), m.map)

\* So it does after the guarded call, if no request fails.
LEMMA ReadsGuarded ==
    ASSUME NEW x, x.minAge \in Nat, ~x.fails, NEW view, view.now \in Nat,
           NEW s, BoldOK(s), BoldLinked(s), LogLinked(s), NEW m, BoldRemembers(s, m), Reads(x, view, s, m),
           NEW n \in BoLD!Guarded(x, view, s, m)
    PROVE  Reads(x, view, s, n)
<1> DEFINE block1 == view.now - x.minAge
           l == BoLD!LatestConfirmed(s, block1)
           confirmed == s.log[l].hash
           block0 == IF m.lastBlock + 1 = 0 THEN s.nodes[confirmed].made ELSE m.lastBlock + 1
           map == BoLD!SyncAssertions(s, m.map, block0, block1)
<1>1. CASE n = m
  BY <1>1
<1>2. CASE n # m
  <2>1. BoLD!Unfinalized(x) /\ l # 0 /\ n = [lastBlock |-> block1, guarded |-> TRUE, map |-> map]
    BY <1>2, Zenon DEF BoLD!Guarded
  <2>2. n.lastBlock = block1 /\ n.map = map
    BY <2>1
  <2>3. l \in DOMAIN s.log /\ s.log[l].name = "confirmed" /\ s.log[l].block <= block1
    BY <2>1, LatestIs
  <2>4. s.nodes[confirmed].made \in Nat /\ s.nodes[confirmed].made <= s.log[l].block /\ s.log[l].block \in Nat
    BY <2>3, MadeBefore
  <2>5. block1 \in Nat /\ block1 + x.minAge <= view.now
    BY <2>3, <2>4
  <2> HIDE DEF l, block1
  <2>6. CASE m.lastBlock = -1 /\ m.map = << >>
    <3>1. block0 = s.nodes[confirmed].made
      BY <2>6
    <3> HIDE DEF block0
    <3>2. Tells(s, Events(s, block0, block0 - 1), m.map)
      <4>1. Events(s, block0, block0 - 1) = {}
        <5>1. \A k \in DOMAIN s.log : s.log[k].block \in Nat
          BY BoldNodes DEF BoldOK, BoldEvent
        <5>2. QED
          BY <2>4, <3>1, <5>1 DEF Events
      <4>2. Born(s, {}) = {}
        BY DEF Born
      <4>3. << >> \in Seq(Entries(s)) /\ DOMAIN << >> = {}
        BY EmptySeq
      <4>4. QED
        BY <2>6, <4>1, <4>2, <4>3 DEF Tells
    <3>3. block0 \in Int /\ block1 \in Int /\ block0 - 1 <= block1 /\ block0 <= block0
      BY <2>3, <2>4, <2>5, <3>1
    <3>4. Tells(s, Events(s, block0, block1), map)
      BY <3>2, <3>3, SyncTells
    <3>5. QED
      BY <2>1, <2>2, <2>3, <2>5, <3>1, <3>4 DEF Reads
  <2>7. CASE m.lastBlock \in Nat
    <3>1. PICK k \in DOMAIN s.log : /\ s.log[k].name = "confirmed" /\ s.log[k].block <= m.lastBlock
                                    /\ Tells(s, Events(s, s.nodes[s.log[k].hash].made, m.lastBlock), m.map)
      BY <2>7 DEF Reads
    <3>2. m.lastBlock + x.minAge <= view.now
      BY <2>7 DEF Reads
    <3>3. PICK first : first = s.nodes[s.log[k].hash].made
      OBVIOUS
    <3>4. first \in Nat /\ first <= s.log[k].block /\ s.log[k].block \in Nat
      BY <3>1, <3>3, MadeBefore
    <3>5. block0 = m.lastBlock + 1
      BY <2>7
    <3> HIDE DEF block0
    <3>6. /\ block0 \in Int /\ block1 \in Int /\ first \in Int /\ first <= block0
          /\ block0 - 1 = m.lastBlock /\ block0 - 1 <= block1 /\ s.log[k].block <= block1
      BY <2>5, <2>7, <3>1, <3>2, <3>4, <3>5 DEF block1
    <3>7. Tells(s, Events(s, first, block1), map)
      BY <3>1, <3>3, <3>6, SyncTells
    <3>8. QED
      BY <2>1, <2>2, <2>5, <3>1, <3>3, <3>6, <3>7 DEF Reads
  <2>8. QED
    BY <2>6, <2>7 DEF Reads
<1>3. QED
  BY <1>1, <1>2

\* It does while the chain goes on, whose new events are of later blocks,
LEMMA ReadsStays ==
    ASSUME NEW x, x.minAge \in Nat, NEW view, view.now \in Nat, NEW s, BoldOK(s), BoldLinked(s), view.now <= s.now,
           NEW t, BoldOK(t), BoldStays(s, t), LogStays(s, t),
           NEW m, BoldRemembers(s, m), Reads(x, view, s, m)
    PROVE  Reads(x, view, t, m)
<1>1. CASE m.lastBlock = -1 /\ m.map = << >>
  BY <1>1 DEF Reads
<1>2. CASE m.lastBlock \in Nat
  <2>1. /\ BoLD!Unfinalized(x) /\ m.lastBlock + x.minAge <= view.now
        /\ \E k \in DOMAIN s.log : /\ s.log[k].name = "confirmed" /\ s.log[k].block <= m.lastBlock
                                   /\ Tells(s, Events(s, s.nodes[s.log[k].hash].made, m.lastBlock), m.map)
    BY <1>2 DEF Reads
  <2>2. PICK k \in DOMAIN s.log : /\ s.log[k].name = "confirmed" /\ s.log[k].block <= m.lastBlock
                                  /\ Tells(s, Events(s, s.nodes[s.log[k].hash].made, m.lastBlock), m.map)
    BY <2>1
  <2> DEFINE first == s.nodes[s.log[k].hash].made
             E == Events(s, first, m.lastBlock)
  <2>3. m.lastBlock < s.now /\ s.now \in Nat
    <3>1. s.now \in Nat /\ x.minAge # 0
      BY <2>1 DEF BoLD!Unfinalized, BoldOK, BoldTyped
    <3>2. QED
      BY ONLY <1>2, <2>1, <3>1, x.minAge \in Nat, view.now \in Nat, view.now <= s.now
  <2>4. /\ DOMAIN s.log \subseteq DOMAIN t.log /\ \A j \in DOMAIN s.log : t.log[j] = s.log[j]
        /\ \A j \in DOMAIN t.log : t.log[j].block \in Nat
    <3>1. DOMAIN s.log = 1 .. Len(s.log) /\ DOMAIN t.log = 1 .. Len(t.log) /\ Len(s.log) \in Nat /\ Len(t.log) \in Nat
      BY BoldNodes DEF BoldOK
    <3>2. \A j \in DOMAIN t.log : t.log[j].block \in Nat
      BY BoldNodes DEF BoldOK, BoldEvent
    <3>3. QED
      BY <3>1, <3>2 DEF LogStays
  <2>5. s.log[k].hash \in DOMAIN s.nodes /\ t.nodes[s.log[k].hash].made = first
    BY <2>2 DEF BoldLinked, EventLinked, BoldStays
  <2>6. Events(t, first, m.lastBlock) = E
    <3>1. ASSUME NEW j \in DOMAIN t.log, j \notin DOMAIN s.log PROVE ~(t.log[j].block <= m.lastBlock)
      <4>1. t.log[j].block >= s.now
        BY <3>1 DEF LogStays
      <4>2. QED
        BY <1>2, <2>3, <2>4, <4>1
    <3>2. QED
      BY <2>4, <3>1 DEF Events
  <2>7. E \subseteq DOMAIN s.log
    BY DEF Events
  <2> HIDE DEF E, first
  <2>8. Born(t, E) = Born(s, E) /\ Settles(t, E) = Settles(s, E)
    BY <2>4, <2>7 DEF Born, Settles
  <2>9. \A a \in Born(s, E) : a \in DOMAIN s.nodes /\ t.nodes[a].parent = s.nodes[a].parent
    BY <2>7, BornThere DEF BoldStays
  <2>10. \A h : Children(t, E, h) = Children(s, E, h)
    BY <2>8, <2>9 DEF Children
  <2>11. m.map \in Seq(Entries(t))
    BY EntriesStay DEF BoldRemembers
  <2>12. Tells(s, E, m.map)
    BY <2>2 DEF E, first
  <2>13. Tells(t, E, m.map)
    BY <2>8, <2>10, <2>11, <2>12 DEF Tells
  <2>14. k \in DOMAIN t.log /\ t.log[k] = s.log[k]
    BY <2>4
  <2>15. QED
    BY <1>2, <2>1, <2>2, <2>5, <2>6, <2>13, <2>14 DEF Reads
<1>3. QED
  BY <1>1, <1>2 DEF Reads

\* and when the view of the gateway goes on, or what it guards expires.
LEMMA ReadsLater ==
    ASSUME NEW x, x.minAge \in Nat, NEW view, view.now \in Nat, NEW later, later.now \in Nat, view.now <= later.now,
           NEW s, NEW m, Reads(x, view, s, m), NEW n, n.lastBlock = m.lastBlock, n.map = m.map
    PROVE  Reads(x, later, s, n)
<1>1. CASE m.lastBlock = -1 /\ m.map = << >>
  BY <1>1 DEF Reads
<1>2. CASE m.lastBlock \in Nat
  <2>1. /\ BoLD!Unfinalized(x) /\ m.lastBlock + x.minAge <= view.now
        /\ \E k \in DOMAIN s.log : /\ s.log[k].name = "confirmed" /\ s.log[k].block <= m.lastBlock
                                   /\ Tells(s, Events(s, s.nodes[s.log[k].hash].made, m.lastBlock), m.map)
    BY <1>2 DEF Reads
  <2>2. m.lastBlock + x.minAge <= later.now
    BY <1>2, <2>1
  <2>3. QED
    BY <1>2, <2>1, <2>2 DEF Reads
<1>3. QED
  BY <1>1, <1>2 DEF Reads

\* The assertions made up to a block, and those confirmed by it.
OldAt(s, block) == {a \in DOMAIN s.nodes : s.nodes[a].made <= block}
ConfirmedAt(s, block, a) ==
    \E k \in DOMAIN s.log : s.log[k].name = "confirmed" /\ s.log[k].hash = a /\ s.log[k].block <= block

\* What the gateway remembers is what the chain says of the assertions up to the
\* last block read, old: none is missing from the last confirmed one on.
TrueOf(s, m, old, last) ==
    /\ ConfirmedAt(s, m.lastBlock, last)
    /\ \A b \in old : ConfirmedAt(s, m.lastBlock, b) => b <= last
    /\ \A i \in DOMAIN m.map :
            /\ m.map[i].hash \in old
            /\ m.map[i].confirmed <=> ConfirmedAt(s, m.lastBlock, m.map[i].hash)
            /\ m.map[i].children = Cardinality({a \in old : s.nodes[a].parent = m.map[i].hash})
    /\ \A a \in old : a >= last => \E i \in DOMAIN m.map : m.map[i].hash = a

\* So it is, if it read the events of those blocks.
LEMMA ReadsTrue ==
    ASSUME NEW x, NEW view, NEW s, BoldOK(s), BoldLinked(s), LogLinked(s),
           NEW m, Reads(x, view, s, m), m.lastBlock \in Nat, NEW old, old = OldAt(s, m.lastBlock)
    PROVE  \E last \in old : TrueOf(s, m, old, last)
<1>1. PICK k \in DOMAIN s.log : /\ s.log[k].name = "confirmed" /\ s.log[k].block <= m.lastBlock
                                /\ Tells(s, Events(s, s.nodes[s.log[k].hash].made, m.lastBlock), m.map)
  BY DEF Reads
<1> DEFINE B == m.lastBlock
           c == s.log[k].hash
           first == s.nodes[c].made
           E == Events(s, first, B)
           l == BoLD!LatestConfirmed(s, B)
           last == s.log[l].hash
<1>2. /\ DOMAIN s.log = 1 .. Len(s.log) /\ Len(s.log) \in Nat
      /\ DOMAIN s.nodes = 1 .. Len(s.nodes) /\ Len(s.nodes) \in Nat
      /\ \A j \in DOMAIN s.log : s.log[j].block \in Nat
      /\ \A a \in DOMAIN s.nodes : s.nodes[a].made \in Nat
  BY BoldNodes DEF BoldOK, BoldEvent, BoldNode
<1>3. l \in DOMAIN s.log /\ s.log[l].name = "confirmed" /\ s.log[l].block <= B
      /\ \A j \in DOMAIN s.log : s.log[j].name = "confirmed" /\ s.log[j].block <= B => j <= l
  BY <1>1, LatestIs
<1> HIDE DEF l
<1>4. /\ \A j \in DOMAIN s.log : s.log[j].hash \in DOMAIN s.nodes
      /\ \A j \in DOMAIN s.log : s.log[j].name = "created" => s.nodes[s.log[j].hash].made = s.log[j].block
  BY DEF BoldLinked, EventLinked
<1>5. last \in old
  BY <1>2, <1>3, MadeBefore DEF OldAt
<1>6. ConfirmedAt(s, B, last)
  BY <1>3 DEF ConfirmedAt
<1>7. ASSUME NEW b, ConfirmedAt(s, B, b) PROVE b <= last /\ b \in Nat
  <2>1. PICK j \in DOMAIN s.log : s.log[j].name = "confirmed" /\ s.log[j].hash = b /\ s.log[j].block <= B
    BY <1>7 DEF ConfirmedAt
  <2>2. j <= l
    BY <1>3, <2>1
  <2>3. j < l => b < last
    BY <1>3, <2>1 DEF LogLinked
  <2>4. b \in Nat /\ last \in Nat
    BY <1>2, <1>3, <1>4, <2>1
  <2>5. QED
    BY <1>2, <1>3, <2>1, <2>2, <2>3, <2>4
<1>8. c \in DOMAIN s.nodes /\ c <= last /\ first \in Nat /\ c \in Nat
  <2>1. ConfirmedAt(s, B, c)
    BY <1>1 DEF ConfirmedAt
  <2>2. QED
    BY <1>2, <1>4, <1>7, <2>1
<1> HIDE DEF last
<1>9. \A a : a \in Born(s, E) <=> a \in old /\ first <= s.nodes[a].made
  <2>1. ASSUME NEW a \in Born(s, E) PROVE a \in old /\ first <= s.nodes[a].made
    <3>1. PICK j \in E : s.log[j].name = "created" /\ s.log[j].hash = a
      BY <2>1 DEF Born
    <3>2. j \in DOMAIN s.log /\ first <= s.log[j].block /\ s.log[j].block <= B
      BY DEF Events
    <3>3. QED
      BY <1>4, <3>1, <3>2 DEF OldAt
  <2>2. ASSUME NEW a \in old, first <= s.nodes[a].made PROVE a \in Born(s, E)
    <3>1. a \in DOMAIN s.nodes /\ s.nodes[a].made <= B
      BY DEF OldAt
    <3>2. PICK j \in DOMAIN s.log : s.log[j].name = "created" /\ s.log[j].hash = a
      BY <3>1 DEF LogLinked
    <3>3. j \in E
      BY <1>4, <2>2, <3>1, <3>2 DEF Events
    <3>4. QED
      BY <3>2, <3>3 DEF Born
  <2>3. QED
    BY <2>1, <2>2
<1>10. \A a \in Born(s, E) : a \in Settles(s, E) <=> ConfirmedAt(s, B, a)
  <2> SUFFICES ASSUME NEW a \in Born(s, E) PROVE a \in Settles(s, E) <=> ConfirmedAt(s, B, a)
    OBVIOUS
  <2>1. ASSUME a \in Settles(s, E) PROVE ConfirmedAt(s, B, a)
    BY <2>1 DEF Settles, Events, ConfirmedAt
  <2>2. ASSUME ConfirmedAt(s, B, a) PROVE a \in Settles(s, E)
    <3>1. PICK j \in DOMAIN s.log : s.log[j].name = "confirmed" /\ s.log[j].hash = a /\ s.log[j].block <= B
      BY <2>2 DEF ConfirmedAt
    <3>2. s.nodes[a].made <= s.log[j].block /\ first <= s.nodes[a].made /\ s.nodes[a].made \in Nat
      BY <1>9, <3>1, MadeBefore
    <3>3. first <= s.log[j].block
      <4>1. first \in Nat /\ s.log[j].block \in Nat
        BY <1>2, <1>8, <3>1
      <4> HIDE DEF first
      <4>2. QED
        BY ONLY <3>2, <4>1
    <3>4. j \in E
      BY <3>1, <3>3 DEF Events
    <3>5. QED
      BY <3>1, <3>4 DEF Settles
  <2>3. QED
    BY <2>1, <2>2
<1>11. \A h \in Born(s, E) : Children(s, E, h) = {a \in old : s.nodes[a].parent = h}
  <2> SUFFICES ASSUME NEW h \in Born(s, E) PROVE Children(s, E, h) = {a \in old : s.nodes[a].parent = h}
    OBVIOUS
  <2>1. h \in old /\ first <= s.nodes[h].made /\ h \in DOMAIN s.nodes
    BY <1>9 DEF OldAt
  <2>2. ASSUME NEW a \in old, s.nodes[a].parent = h PROVE a \in Born(s, E)
    <3>1. a \in DOMAIN s.nodes /\ h < a
      BY <2>2 DEF OldAt, BoldOK
    <3>2. h <= a
      BY <1>2, <2>1, <3>1
    <3>3. s.nodes[h].made <= s.nodes[a].made
      BY <2>1, <3>1, <3>2, MadeInOrder
    <3>4. s.nodes[h].made \in Nat /\ s.nodes[a].made \in Nat /\ first \in Nat /\ first <= s.nodes[h].made
      BY <1>2, <1>8, <2>1, <3>1
    <3> HIDE DEF first
    <3>5. first <= s.nodes[a].made
      BY ONLY <3>3, <3>4
    <3>6. QED
      BY <1>9, <3>5
  <2>3. QED
    BY <1>9, <2>2 DEF Children
<1> HIDE DEF E, c, first
<1>12. Tells(s, E, m.map)
  BY <1>1 DEF E, first, c
<1>13. ASSUME NEW i \in DOMAIN m.map
       PROVE  /\ m.map[i].hash \in old
              /\ m.map[i].confirmed <=> ConfirmedAt(s, B, m.map[i].hash)
              /\ m.map[i].children = Cardinality({a \in old : s.nodes[a].parent = m.map[i].hash})
  <2>1. /\ m.map[i].hash \in Born(s, E)
        /\ m.map[i].confirmed <=> m.map[i].hash \in Settles(s, E)
        /\ m.map[i].children = Cardinality(Children(s, E, m.map[i].hash))
    BY <1>12 DEF Tells
  <2>2. m.map[i].hash \in old
    BY <1>9, <2>1
  <2>3. m.map[i].confirmed <=> ConfirmedAt(s, B, m.map[i].hash)
    BY <1>10, <2>1
  <2>4. m.map[i].children = Cardinality({a \in old : s.nodes[a].parent = m.map[i].hash})
    BY <1>11, <2>1
  <2>5. QED
    BY <2>2, <2>3, <2>4
<1>14. ASSUME NEW a \in old, a >= last PROVE \E i \in DOMAIN m.map : m.map[i].hash = a
  <2>1. a \in DOMAIN s.nodes /\ a \in Nat
    BY <1>2 DEF OldAt
  <2>2. last \in Nat
    BY <1>6, <1>7
  <2>3. c <= a
    BY <1>8, <1>14, <2>1, <2>2
  <2>4. a \in Born(s, E)
    <3>1. first <= s.nodes[a].made
      BY <1>8, <2>1, <2>3, MadeInOrder DEF first
    <3>2. QED
      BY <1>9, <1>14, <3>1
  <2>5. ASSUME NEW b \in Settles(s, E) PROVE b <= a
    <3>1. ConfirmedAt(s, B, b)
      BY <2>5 DEF Settles, E, Events, ConfirmedAt
    <3>2. b <= last /\ b \in Nat
      BY <1>7, <3>1
    <3>3. QED
      BY <1>14, <2>1, <2>2, <3>2
  <2>6. QED
    BY <1>12, <2>4, <2>5 DEF Tells
<1>15. TrueOf(s, m, old, last)
  BY <1>6, <1>7, <1>13, <1>14 DEF TrueOf
<1>16. QED
  BY <1>5, <1>15

-----------------------------------------------------------------------------
\* What more than Linked holds of a BoLD rollup: the gateway's final view of
\* the chain is not ahead of it, and if no request fails, what the gateway read
\* of the log tells of all events in its blocks.
LogRead ==
    r.rollup = "bold" =>
        /\ LogLinked(chain) /\ final.now \in Nat /\ final.now <= chain.now
        /\ ~r.fails => Reads(r, final, chain, memory)

\* It holds at first,
LEMMA LogReadInit == Init => LogRead
<1> SUFFICES ASSUME Init, r.rollup = "bold"
             PROVE  /\ LogLinked(chain) /\ final.now \in Nat /\ final.now <= chain.now
                    /\ Reads(r, final, chain, memory)
  BY DEF LogRead
<1>1. r \in Settings /\ chain = Start(r) /\ final = chain /\ memory = NoMemory(r)
  BY DEF Init
<1>2. IsSetting(r)
  BY <1>1, SettingsAssumption
<1>3. r.start \in Nat \ {0} /\ chain = BoLD!Start(r) /\ memory = BoLD!NoMemory
  BY <1>1, <1>2 DEF IsSetting, Start, NoMemory
<1>4. chain.now = r.start
  BY <1>3 DEF BoLD!Start
<1>5. memory.lastBlock = -1 /\ memory.map = << >>
  BY <1>3 DEF BoLD!NoMemory
<1>6. LogLinked(chain)
  BY <1>3, LogStarts
<1>7. QED
  BY <1>1, <1>3, <1>4, <1>5, <1>6 DEF Reads

\* and every step keeps it: an event of the chain comes after the last block
\* that the gateway read, and a guarded call reads all that follow it.
LEMMA LogReadNext == Inv /\ Linked /\ LogRead /\ [Next]_vars => LogRead'
<1> SUFFICES ASSUME Inv, Linked, LogRead, [Next]_vars, r'.rollup = "bold" PROVE LogRead'
  BY DEF LogRead
<1>1. r' = r
  BY DEF Next, vars, Advance, Finalize, Forget, Ask, FindLatest, Fetch, FindParent, TooDeep, Verify
<1>2. /\ r.rollup = "bold" /\ r.minAge \in Nat /\ r.finishes \subseteq BOOLEAN
      /\ BoldOK(chain) /\ BoldLinked(chain) /\ BoldOK(final) /\ BoldRemembers(chain, memory)
  BY <1>1, SettingsAssumption DEF Inv, Linked, ChainOK, ChainLinked, MemoryLinked, IsSetting
<1>3. LogLinked(chain) /\ final.now \in Nat /\ final.now <= chain.now
      /\ (~r.fails => Reads(r, final, chain, memory))
  BY <1>2 DEF LogRead
<1>4. chain.now \in Nat
  BY <1>2 DEF BoldOK, BoldTyped
<1>5. CASE Advance
  <2>1. chain' \in Moves(r, chain) \cup Ticks(chain) /\ UNCHANGED <<r, final, memory>>
    BY <1>5 DEF Advance
  <2>2. BoldOK(chain')
    <3>1. ChainOK(r', chain')
      BY InvNext DEF Inv
    <3>2. QED
      BY <1>1, <1>2, <3>1 DEF ChainOK
  <2>3. LogLinked(chain') /\ LogStays(chain, chain') /\ BoldStays(chain, chain')
    <3>1. CASE chain' \in Moves(r, chain)
      <4>1. chain' \in BoLD!Moves(r, chain)
        BY <1>2, <3>1 DEF Moves
      <4>2. QED
        BY <1>2, <1>3, <4>1, LogMoves, BoldLinks
    <3>2. CASE chain' \in Ticks(chain)
      <4>1. chain' = [chain EXCEPT !.now = @ + 1]
        BY <3>2 DEF Ticks
      <4>2. QED
        BY <1>2, <1>3, <4>1, LogTicks, BoldLinksTick
    <3>3. QED
      BY <2>1, <3>1, <3>2
  <2>4. final'.now \in Nat /\ final'.now <= chain'.now
    <3>1. chain.now <= chain'.now /\ chain'.now \in Nat
      BY <2>2, <2>3 DEF LogStays, BoldOK, BoldTyped
    <3>2. QED
      BY <1>3, <1>4, <2>1, <3>1
  <2>5. ~r.fails => Reads(r, final, chain', memory)
    BY <1>2, <1>3, <2>2, <2>3, ReadsStays
  <2>6. QED
    BY <2>1, <2>3, <2>4, <2>5 DEF LogRead
<1>6. CASE Finalize
  <2>1. final' = chain /\ UNCHANGED <<r, chain, memory>>
    BY <1>6 DEF Finalize
  <2>2. ~r.fails => Reads(r, chain, chain, memory)
    BY <1>2, <1>3, <1>4, ReadsLater
  <2>3. QED
    BY <1>3, <1>4, <2>1, <2>2 DEF LogRead
<1>7. CASE Forget
  <2>1. memory' = Forgotten(r, memory) /\ UNCHANGED <<r, chain, final>>
    BY <1>7 DEF Forget
  <2>2. memory = [lastBlock |-> memory.lastBlock, map |-> memory.map, guarded |-> memory.guarded]
    BY <1>2 DEF BoldRemembers
  <2>3. memory' = [memory EXCEPT !.guarded = FALSE]
    BY <1>2, <2>1 DEF Forgotten
  <2>4. memory'.lastBlock = memory.lastBlock /\ memory'.map = memory.map
    BY <2>2, <2>3
  <2>5. ~r.fails => Reads(r, final, chain, memory')
    BY <1>2, <1>3, <2>4, ReadsLater
  <2>6. QED
    BY <1>3, <2>1, <2>5 DEF LogRead
<1>8. CASE FindLatest \/ Fetch
  <2>1. memory' \in Remembered(r, final, chain, memory) /\ UNCHANGED <<r, chain, final>>
    BY <1>8 DEF FindLatest, Fetch
  <2>2. memory' \in BoLD!Guarded(r, final, chain, memory)
    BY <1>2, <2>1 DEF Remembered
  <2>3. ~r.fails => Reads(r, final, chain, memory')
    BY <1>2, <1>3, <2>2, ReadsGuarded
  <2>4. QED
    BY <1>3, <2>1, <2>3 DEF LogRead
<1>9. CASE Ask \/ FindParent \/ TooDeep \/ Verify \/ UNCHANGED vars
  <2>1. UNCHANGED <<r, chain, final, memory>>
    BY <1>9 DEF Ask, FindParent, TooDeep, Verify, vars
  <2>2. QED
    BY <1>3, <2>1 DEF LogRead
<1>10. QED
  BY <1>5, <1>6, <1>7, <1>8, <1>9 DEF Next

\* So what it remembers is what the chain says.
LEMMA LogReadTrue == Inv /\ Linked /\ LogRead => SyncedAsOnChain
<1> SUFFICES ASSUME Inv, Linked, LogRead, r.rollup = "bold", ~Fails, memory.lastBlock >= 0
             PROVE  SyncedAsOnChain
  BY DEF SyncedAsOnChain
<1> DEFINE B == memory.lastBlock
           old == {a \in DOMAIN chain.nodes : chain.nodes[a].made <= B}
           Confirmed(a) == \E k \in DOMAIN chain.log :
                /\ chain.log[k].name = "confirmed" /\ chain.log[k].hash = a
                /\ chain.log[k].block <= B
           Last(a) == Confirmed(a) /\ \A b \in old : Confirmed(b) => b <= a
           last == CHOOSE a \in old : Last(a)
<1>1. /\ BoldOK(chain) /\ BoldLinked(chain) /\ LogLinked(chain) /\ Reads(r, final, chain, memory)
  BY DEF Inv, Linked, LogRead, ChainOK, ChainLinked, Fails
<1>2. B \in Nat
  BY <1>1 DEF Reads
<1>3. old = OldAt(chain, B) /\ \A a : Confirmed(a) <=> ConfirmedAt(chain, B, a)
  BY DEF OldAt, ConfirmedAt
<1> HIDE DEF old, Confirmed
<1>4. PICK l \in old : TrueOf(chain, memory, old, l)
  BY <1>1, <1>2, <1>3, ReadsTrue
<1>5. last = l
  <2>1. Last(l)
    BY <1>3, <1>4 DEF TrueOf
  <2>2. last \in old /\ Last(last)
    BY <2>1
  <2>3. last <= l /\ l <= last
    BY <2>1, <2>2
  <2>4. \A a \in old : a \in Nat
    BY <1>1, <1>3, BoldNodes DEF OldAt, BoldOK
  <2>5. QED
    BY <2>2, <2>3, <2>4
<1> HIDE DEF last
<1>6. ASSUME NEW k \in DOMAIN memory.map
      PROVE  \E x \in {memory.map[k]} :
                /\ x.hash \in old
                /\ x.confirmed <=> Confirmed(x.hash)
                /\ x.children = Cardinality({a \in old : chain.nodes[a].parent = x.hash})
  <2>1. memory.map[k].hash \in old
    BY <1>4 DEF TrueOf
  <2>2. memory.map[k].confirmed <=> Confirmed(memory.map[k].hash)
    BY <1>3, <1>4 DEF TrueOf
  <2>3. memory.map[k].children = Cardinality({a \in old : chain.nodes[a].parent = memory.map[k].hash})
    BY <1>4 DEF TrueOf
  <2>4. QED
    BY <2>1, <2>2, <2>3
<1>7. \A a \in old : a >= last => \E k \in DOMAIN memory.map : memory.map[k].hash = a
  BY <1>4, <1>5 DEF TrueOf
<1>8. QED
  BY <1>6, <1>7, Zenon DEF SyncedAsOnChain, old, Confirmed, last

\* Whatever it fetched when, a BoLD gateway whose requests do not fail misses
\* no event: for all settings, what it keeps of the assertions is what the
\* chain says of them up to the last block it read.
THEOREM SyncedIsOnChain == Spec => []SyncedAsOnChain
<1>1. Init => Linked /\ LogRead
  BY LinkedInit, LogReadInit
<1>2. Inv /\ (Linked /\ LogRead) /\ [Next]_vars => (Linked /\ LogRead)'
  BY LinkedNext, LogReadNext
<1>3. Inv /\ (Linked /\ LogRead) => SyncedAsOnChain
  BY LogReadTrue
<1>4. QED
  BY InvHolds, <1>1, <1>2, <1>3, PTL DEF Spec

-----------------------------------------------------------------------------
(* What is usable is fetched: the order of what the searches go through.     *)

\* The updates of the state come in order, none in a block to come.
UpdatesOrdered(s) ==
    /\ \A j, k \in DOMAIN s.updates : j < k => s.updates[j].index < s.updates[k].index
    /\ \A j, k \in DOMAIN s.updates : j <= k => s.updates[j].block <= s.updates[k].block
    /\ \A k \in DOMAIN s.updates : s.updates[k].block <= s.now

\* The blocks of an unchecked chain come in the order of their times.
UncheckedOrdered(s) == \A j, k \in DOMAIN s.times : j <= k => s.times[j] <= s.times[k]

\* An update is of a block, and of a block of the first chain.
LEMMA UpdatesTyped ==
    ASSUME NEW s, UpdatesOK(s)
    PROVE  /\ s.updates \in Seq([index : Nat, block : Nat]) /\ Len(s.updates) \in Nat
           /\ DOMAIN s.updates = 1 .. Len(s.updates) /\ s.now \in Nat
           /\ \A k \in DOMAIN s.updates : s.updates[k].index \in Nat /\ s.updates[k].block \in Nat
<1>1. s.updates \in Seq([index : Nat, block : Nat]) /\ s.now \in Nat
  BY DEF UpdatesOK
<1>2. \A k \in DOMAIN s.updates : s.updates[k] \in [index : Nat, block : Nat]
  BY <1>1, InSeq
<1>3. \A k \in DOMAIN s.updates : s.updates[k].index \in Nat /\ s.updates[k].block \in Nat
  BY ONLY <1>2
<1>4. Len(s.updates) \in Nat /\ DOMAIN s.updates = 1 .. Len(s.updates)
  BY <1>1, InSeq
<1>5. QED
  BY <1>1, <1>3, <1>4

\* An update is of a block above the last one, and of now.
LEMMA UpdatesOrder ==
    ASSUME NEW x, x.max \in Nat, NEW s, UpdatesOK(s), UpdatesOrdered(s), NEW t \in Updates!Moves(x, s)
    PROVE  UpdatesOrdered(t)
<1>1. PICK n \in Updates!StateBlockNumber(s) + 1 .. x.max :
            t = [s EXCEPT !.updates = Append(@, [index |-> n, block |-> s.now])]
  BY DEF Updates!Moves
<1>2. Updates!StateBlockNumber(s) \in Nat
  BY UpdatesRoot DEF Updates!StateBlockNumber
<1>3. n \in Nat /\ Updates!StateBlockNumber(s) < n /\ s.now \in Nat
  BY <1>1, <1>2 DEF UpdatesOK
<1>4. /\ s.updates \in Seq([index : Nat, block : Nat]) /\ Len(s.updates) \in Nat
      /\ DOMAIN s.updates = 1 .. Len(s.updates)
      /\ \A k \in DOMAIN s.updates : s.updates[k].index \in Nat /\ s.updates[k].block \in Nat
  BY UpdatesTyped
<1>5. t.updates = Append(s.updates, [index |-> n, block |-> s.now]) /\ t.now = s.now
  BY <1>1 DEF UpdatesOK
<1>6. /\ DOMAIN t.updates = 1 .. Len(s.updates) + 1
      /\ t.updates[Len(s.updates) + 1].index = n /\ t.updates[Len(s.updates) + 1].block = s.now
      /\ \A k \in DOMAIN s.updates : t.updates[k] = s.updates[k]
  <2>1. [index |-> n, block |-> s.now] \in [index : Nat, block : Nat]
    BY <1>3
  <2>2. QED
    BY <1>4, <1>5, <2>1, OneMore
<1>7. \A k \in DOMAIN s.updates : s.updates[k].index < n
  <2> SUFFICES ASSUME NEW k \in DOMAIN s.updates PROVE s.updates[k].index < n
    OBVIOUS
  <2> DEFINE at == {i \in DOMAIN s.updates : s.updates[i].block <= s.now}
             len == Len(s.updates)
  <2>1. at = 1 .. len
    BY <1>4 DEF UpdatesOrdered
  <2>2. len \in Nat /\ k \in 1 .. len
    BY <1>4
  <2>3. Updates!StateBlockNumber(s) = IF at = {} THEN 0 ELSE s.updates[CHOOSE i \in at : \A m \in at : m <= i].index
    BY DEF Updates!StateBlockNumber, Updates!RootAt
  <2> HIDE DEF at, len
  <2>4. (CHOOSE i \in at : \A m \in at : m <= i) = len
    <3>1. PICK last : last = CHOOSE i \in at : \A m \in at : m <= i
      OBVIOUS
    <3>2. len \in at /\ \A m \in at : m <= len
      BY ONLY <2>1, <2>2
    <3>3. last \in at /\ \A m \in at : m <= last
      BY ONLY <3>1, <3>2
    <3>4. last = len
      BY ONLY <2>1, <2>2, <3>2, <3>3
    <3>5. QED
      BY ONLY <3>1, <3>4
  <2>5. Updates!StateBlockNumber(s) = s.updates[len].index
    BY ONLY <2>1, <2>2, <2>3, <2>4
  <2>6. k \in DOMAIN s.updates /\ len \in DOMAIN s.updates
    <3>1. len \in 1 .. len
      BY ONLY <2>2
    <3>2. QED
      BY <1>4, <3>1 DEF len
  <2>7. k < len => s.updates[k].index < s.updates[len].index
    BY ONLY <2>6, UpdatesOrdered(s) DEF UpdatesOrdered
  <2>8. k < len \/ k = len
    BY ONLY <2>2
  <2>9. s.updates[k].index \in Nat /\ s.updates[len].index \in Nat
    BY ONLY <1>4, <2>6
  <2>10. QED
    BY ONLY <1>3, <2>5, <2>7, <2>8, <2>9
<1>8. \A k \in DOMAIN t.updates : k \in DOMAIN s.updates \/ k = Len(s.updates) + 1
  BY <1>4, <1>6
<1>9. ASSUME NEW j \in DOMAIN t.updates, NEW k \in DOMAIN t.updates
      PROVE  /\ j < k => t.updates[j].index < t.updates[k].index
             /\ j <= k => t.updates[j].block <= t.updates[k].block
             /\ t.updates[k].block <= t.now
  <2>1. j \in DOMAIN s.updates => j <= Len(s.updates) /\ t.updates[j] = s.updates[j]
    BY <1>4, <1>6
  <2>2. k \in DOMAIN s.updates => k <= Len(s.updates) /\ k \in Nat /\ t.updates[k] = s.updates[k]
    BY <1>4, <1>6
  <2>3. CASE j \in DOMAIN s.updates /\ k \in DOMAIN s.updates
    BY <1>5, <2>1, <2>2, <2>3 DEF UpdatesOrdered
  <2>4. CASE j \in DOMAIN s.updates /\ k = Len(s.updates) + 1
    <3>1. t.updates[k].index = n /\ t.updates[k].block = s.now /\ t.now = s.now
      BY <1>5, <1>6, <2>4
    <3>2. s.updates[j].block <= s.now
      BY <2>4 DEF UpdatesOrdered
    <3>3. QED
      BY <1>3, <1>7, <2>1, <2>4, <3>1, <3>2
  <2>5. CASE j = Len(s.updates) + 1 /\ k \in DOMAIN s.updates
    <3>1. ~(j <= k) /\ ~(j < k)
      BY <1>4, <2>2, <2>5
    <3>2. QED
      BY <1>5, <2>2, <2>5, <3>1 DEF UpdatesOrdered
  <2>6. CASE j = Len(s.updates) + 1 /\ k = Len(s.updates) + 1
    BY <1>3, <1>4, <1>5, <1>6, <2>6
  <2>7. QED
    BY <1>8, <2>3, <2>4, <2>5, <2>6
<1>10. QED
  BY <1>9 DEF UpdatesOrdered

\* A block comes after the last one.
LEMMA UncheckedOrder ==
    ASSUME NEW x, NEW s, UncheckedOK(s), UncheckedLinked(s), UncheckedOrdered(s), NEW t \in Unchecked!Moves(x, s)
    PROVE  UncheckedOrdered(t)
<1>1. /\ t = [s EXCEPT !.times = Append(@, s.now)] /\ s.now \in Nat /\ s = [now |-> s.now, times |-> s.times]
      /\ s.times[Len(s.times)] < s.now
  BY DEF Unchecked!Moves, UncheckedOK
<1>2. t.times = Append(s.times, s.now)
  BY <1>1
<1>3. /\ s.times \in Seq(Nat) /\ Len(s.times) \in Nat \ {0} /\ DOMAIN s.times = 1 .. Len(s.times)
      /\ \A k \in DOMAIN s.times : s.times[k] \in Nat
  BY InSeq DEF UncheckedLinked
<1>4. /\ DOMAIN t.times = 1 .. Len(s.times) + 1 /\ t.times[Len(s.times) + 1] = s.now
      /\ \A k \in DOMAIN s.times : t.times[k] = s.times[k]
  BY <1>1, <1>2, <1>3, OneMore
<1>5. \A k \in DOMAIN s.times : s.times[k] <= s.times[Len(s.times)]
  BY <1>3 DEF UncheckedOrdered
<1>6. \A k \in DOMAIN t.times : k \in DOMAIN s.times \/ k = Len(s.times) + 1
  BY <1>3, <1>4
<1>7. QED
  BY <1>1, <1>3, <1>4, <1>5, <1>6 DEF UncheckedOrdered

\* A block of the second chain knows of the block its parent knows of, or of the next.
LEMMA ReverseOrder ==
    ASSUME NEW x, NEW s, s = [l2 |-> s.l2], ReverseOK(s), ReverseOrdered(s), NEW t \in Reverse!Moves(x, s)
    PROVE  ReverseOrdered(t)
<1>1. /\ s.l2 \in Seq(Nat) /\ Len(s.l2) \in Nat \ {0} /\ DOMAIN s.l2 = 1 .. Len(s.l2)
      /\ \A k \in DOMAIN s.l2 : s.l2[k] \in Nat
  BY InSeq DEF ReverseOK
<1>2. Reverse!L1Number(s, Reverse!BlockNumber(s)) = s.l2[Len(s.l2)]
  BY <1>1 DEF Reverse!L1Number, Reverse!BlockNumber
<1>3. PICK number : /\ t = [s EXCEPT !.l2 = Append(@, number)]
                    /\ number \in {s.l2[Len(s.l2)], s.l2[Len(s.l2)] + 1}
  BY <1>2 DEF Reverse!Moves
<1>4. t.l2 = Append(s.l2, number) /\ number \in Nat /\ s.l2[Len(s.l2)] <= number
  BY <1>1, <1>3
<1>5. /\ DOMAIN t.l2 = 1 .. Len(s.l2) + 1 /\ t.l2[Len(s.l2) + 1] = number
      /\ \A k \in DOMAIN s.l2 : t.l2[k] = s.l2[k]
  BY <1>1, <1>4, OneMore
<1>6. \A k \in DOMAIN s.l2 : s.l2[k] <= s.l2[Len(s.l2)]
  BY <1>1 DEF ReverseOrdered
<1>7. \A k \in DOMAIN t.l2 : k \in DOMAIN s.l2 \/ k = Len(s.l2) + 1
  BY <1>1, <1>5
<1>8. QED
  BY <1>1, <1>4, <1>5, <1>6, <1>7 DEF ReverseOrdered

\* A fetched commit is one of the index.
Fetched(c, i) == c.index = i /\ i \in Nat

\* The search backwards finds every update there is.
LEMMA UpdateFound ==
    ASSUME NEW x, x.step \in Nat \ {0}, NEW s, UpdatesOK(s), UpdatesOrdered(s), NEW k \in DOMAIN s.updates,
           NEW number, number = s.updates[k].index
    PROVE  Updates!FindStateUpdate(x, s, number) # 0
<1> DEFINE In(block) == {j \in DOMAIN s.updates : s.updates[j].block <= block /\ s.updates[j].block >= block - x.step}
           At(block) == {j \in In(block) : s.updates[j].index = number}
           older(block) == \E j \in In(block) : s.updates[j].index < number
           D == -x.step .. s.now
           P == {0} \cup DOMAIN s.updates
           Body(f, block) == LET at == {j \in In(block) : s.updates[j].index = number}
                IN IF block < 0 THEN 0
                   ELSE IF at # {} THEN CHOOSE j \in at : TRUE
                   ELSE IF \E j \in In(block) : s.updates[j].index < number THEN 0
                   ELSE f[block - x.step]
           stop == {b \in D : b < 0 \/ At(b) # {} \/ older(b)}
           val == [b \in D |-> IF b >= 0 /\ At(b) # {} THEN CHOOSE j \in At(b) : TRUE ELSE 0]
           next == [b \in D |-> b - x.step]
           rank == [b \in D |-> b + x.step]
           scan == CHOOSE scan : scan = [block \in -x.step .. s.now |->
                LET at == {j \in In(block) : s.updates[j].index = number}
                IN IF block < 0 THEN 0
                   ELSE IF at # {} THEN CHOOSE j \in at : TRUE
                   ELSE IF \E j \in In(block) : s.updates[j].index < number THEN 0
                   ELSE scan[block - x.step]]
<1>1. Updates!FindStateUpdate(x, s, number) = scan[s.now]
  BY Zenon DEF Updates!FindStateUpdate
<1>2. /\ s.now \in Nat /\ Len(s.updates) \in Nat /\ DOMAIN s.updates = 1 .. Len(s.updates)
      /\ \A j \in DOMAIN s.updates : s.updates[j].index \in Nat /\ s.updates[j].block \in Nat
  BY UpdatesTyped
<1>3. /\ \A b \in D : b \in Int /\ (b >= 0 => b - x.step \in D)
      /\ s.now + x.step \in Nat /\ rank \in [D -> 0 .. s.now + x.step]
      /\ \A b \in D : b >= 0 => rank[b - x.step] < rank[b]
  <2>0. s.now \in Nat /\ x.step \in Nat \ {0}
    BY <1>2
  <2>1. \A b \in D : b + x.step \in 0 .. s.now + x.step /\ b \in Int
    BY ONLY <2>0
  <2>2. \A b \in D : b >= 0 => b - x.step \in D
    BY ONLY <2>0
  <2>3. \A b \in D : rank[b] = b + x.step
    OBVIOUS
  <2> HIDE DEF D
  <2>5. rank \in [D -> 0 .. s.now + x.step]
    BY <2>1
  <2> HIDE DEF rank
  <2>4. \A b \in D : b >= 0 => rank[b - x.step] < rank[b]
    BY ONLY <2>0, <2>1, <2>2, <2>3
  <2>6. QED
    BY <2>0, <2>1, <2>2, <2>4, <2>5
<1> HIDE DEF D, rank
<1>4. \A b : At(b) # {} => (CHOOSE j \in At(b) : TRUE) \in DOMAIN s.updates
  <2> SUFFICES ASSUME NEW b, At(b) # {} PROVE (CHOOSE j \in At(b) : TRUE) \in DOMAIN s.updates
    OBVIOUS
  <2>1. At(b) \subseteq DOMAIN s.updates
    OBVIOUS
  <2> HIDE DEF At
  <2>2. QED
    BY <2>1
<1>5. ASSUME NEW f, NEW b \in D PROVE Body(f, b) = IF b \in stop THEN val[b] ELSE f[next[b]]
  <2>1. b \in Int /\ (b < 0 <=> ~(b >= 0))
    BY <1>3
  <2>2. Body(f, b) = IF b < 0 THEN 0
                     ELSE IF At(b) # {} THEN CHOOSE j \in At(b) : TRUE
                     ELSE IF older(b) THEN 0 ELSE f[b - x.step]
    BY Zenon
  <2> HIDE DEF Body, At, older
  <2>3. QED
    BY <2>1, <2>2
<1> HIDE DEF In, At
<1>6. ASSUME NEW b \in D PROVE IF b \in stop THEN val[b] \in P ELSE next[b] \in D /\ rank[next[b]] < rank[b]
  <2>1. CASE b \in stop
    BY <1>4, <2>1
  <2>2. CASE b \notin stop
    <3>1. b >= 0
      BY <1>3, <2>2
    <3>2. QED
      BY <1>3, <2>2, <3>1
  <2>3. QED
    BY <2>1, <2>2
<1> HIDE DEF Body, stop, val, next, P, older
<1>7. Loop(D, P, s.now + x.step, rank, stop, next, val)
  BY <1>3, <1>6 DEF Loop
<1>8. PICK g \in [D -> P] : Looped(g, D, stop, next, val)
  <2>1. P # {}
    BY DEF P
  <2>2. QED
    BY <1>7, <2>1, LoopIs
<1>9. g = [b \in D |-> Body(g, b)]
  <2>1. \A b \in D : g[b] = Body(g, b)
    BY <1>5, <1>8, Zenon DEF Looped
  <2>2. QED
    BY <1>8, <2>1
<1>10. scan = [b \in D |-> Body(scan, b)]
  BY <1>9, Zenon DEF Body, D
<1> HIDE DEF scan
<1> DEFINE S == {b \in D : s.updates[k].block <= b => scan[b] # 0}
<1>11. ASSUME NEW b \in D, \A v \in D : rank[v] < rank[b] => v \in S, s.updates[k].block <= b
       PROVE  scan[b] # 0
  <2>1. scan[b] = Body(scan, b) /\ b >= 0
    BY <1>2, <1>3, <1>10, <1>11
  <2>2. CASE At(b) # {}
    <3>1. scan[b] = CHOOSE j \in At(b) : TRUE
      BY <1>3, <2>1, <2>2 DEF Body, At
    <3>2. scan[b] \in DOMAIN s.updates
      BY <1>4, <2>2, <3>1
    <3>3. QED
      BY <1>2, <3>2
  <2>3. CASE At(b) = {}
    <3>1. k \notin In(b)
      BY <2>3 DEF At
    <3>2. s.updates[k].block < b - x.step
      <4>1. s.updates[k].block \in Nat /\ b \in Int /\ s.updates[k].block <= b
            /\ ~(s.updates[k].block <= b /\ s.updates[k].block >= b - x.step)
        BY <1>2, <1>3, <1>11, <3>1 DEF In
      <4>2. QED
        BY ONLY <4>1, x.step \in Nat \ {0}
    <3>3. \A j \in In(b) : ~(s.updates[j].index < number)
      <4> SUFFICES ASSUME NEW j \in In(b) PROVE ~(s.updates[j].index < number)
        OBVIOUS
      <4>1. j \in DOMAIN s.updates /\ s.updates[j].block >= b - x.step
        BY DEF In
      <4>2. /\ j \in Nat /\ k \in Nat /\ b \in Int /\ s.updates[j].block \in Nat /\ s.updates[k].block \in Nat
            /\ s.updates[j].index \in Nat /\ number \in Nat
        BY <1>2, <1>3, <4>1
      <4>3. ~(s.updates[j].block <= s.updates[k].block)
        BY ONLY <3>2, <4>1, <4>2, x.step \in Nat \ {0}
      <4>4. ~(j <= k)
        BY <4>1, <4>3 DEF UpdatesOrdered
      <4>5. k < j
        BY ONLY <4>2, <4>4
      <4>6. number < s.updates[j].index
        BY <4>1, <4>5 DEF UpdatesOrdered
      <4>7. QED
        BY ONLY <4>2, <4>6
    <3>4. scan[b] = scan[b - x.step]
      <4>1. ~(b < 0)
        BY <1>3, <2>1
      <4>2. QED
        BY <2>1, <2>3, <3>3, <4>1 DEF Body, At
    <3>5. b - x.step \in S
      BY <1>3, <1>11, <2>1
    <3>6. s.updates[k].block <= b - x.step
      BY <1>2, <1>3, <3>2
    <3>7. QED
      BY <3>4, <3>5, <3>6
  <2>4. QED
    BY <2>2, <2>3
<1>12. Inductive(D, s.now + x.step, rank, S)
  <2>1. ASSUME NEW b \in D, \A v \in D : rank[v] < rank[b] => v \in S PROVE b \in S
    BY <1>11, <2>1
  <2> HIDE DEF S
  <2>2. QED
    BY <1>3, <2>1 DEF Inductive
<1>13. s.now \in D
  BY <1>2 DEF D
<1>14. s.now \in S
  <2> HIDE DEF S
  <2>1. QED
    BY <1>12, <1>13, Induction
<1>15. s.updates[k].block <= s.now
  BY DEF UpdatesOrdered
<1>16. QED
  BY <1>1, <1>14, <1>15

\* A commit is made of every output that is usable,
LEMMA OutputsUsable ==
    ASSUME NEW x, NEW s, OutputsOK(s), NEW i \in Outputs!Usable(x, s)
    PROVE  Fetched(Outputs!FetchCommit(x, s, i), i)
<1>1. Len(s.outputs) \in Nat
  BY InSeq DEF OutputsOK
<1>2. i \in 0 .. Len(s.outputs) - 1
  BY DEF Outputs!Usable
<1>3. Outputs!HasOutput(s, i)
  BY <1>1, <1>2 DEF Outputs!HasOutput, Outputs!NextOutputIndex
<1>4. QED
  BY <1>1, <1>2, <1>3 DEF Outputs!FetchCommit, Fetched

\* of every game that is,
LEMMA GamesUsable ==
    ASSUME NEW x, NEW s, GamesOK(s), GamesLinked(s), NEW i \in Games!Usable(x, s)
    PROVE  Fetched(Games!FetchCommit(x, s, i), i)
<1> DEFINE game == Games!GameOf(s, i)
           right == Games!Root(game.root.block, TRUE)
<1>1. /\ i \in Games!Games(s) /\ Games!IsGameUsable(x, s, i)
      /\ Games!Unfinalized(x) => game.root.right
  BY DEF Games!Usable
<1>2. RootShape(game)
  BY <1>1 DEF GamesLinked
<1>3. Games!Unfinalized(x) => game.root = right
  BY <1>1, <1>2 DEF RootShape
<1>4. i \in Nat
  BY <1>1, GamesAre DEF GamesOK, Games!Games
<1>5. Games!FetchCommit(x, s, i) = [index |-> i, game |-> game, root |-> right]
  BY <1>1, <1>3 DEF Games!FetchCommit
<1>6. QED
  BY <1>4, <1>5 DEF Fetched

\* of every node that is,
LEMMA NitroUsable ==
    ASSUME NEW x, NEW s, NitroOK(s), NEW i \in Nitro!Usable(x, s)
    PROVE  Fetched(Nitro!FetchCommit(x, s, i), i)
<1>1. i \in Nitro!Nodes(s) /\ i \in Nat /\ i # 0
  BY NitroNodesTyped DEF NitroOK, Nitro!Usable, Nitro!Nodes
<1>2. Nitro!Exists(s, i) /\ IF Nitro!Unfinalized(x) THEN Nitro!NodeAt(s, i).staked
                            ELSE Nitro!NodeAt(s, i).state = "confirmed"
  BY <1>1 DEF Nitro!Usable, Nitro!IsNodeUsable, Nitro!Exists
<1>3. QED
  BY <1>1, <1>2 DEF Nitro!FetchCommit, Fetched

\* and of one whose node of the second chain is, too: the search finds that node.
LEMMA DoubleUsable ==
    ASSUME NEW x, x.minAge \in Nat, NEW s, DoubleOK(x, s), NEW i \in Double!Usable(x, s)
    PROVE  Fetched(Double!FetchCommit(x, s, i), i)
<1> DEFINE node == s.seen[i + 1]
           y == Double!Second(x)
<1>1. Nitro!Usable(x, s.one) = Double!Nitro!Usable(x, s.one)
  BY DEF Nitro!Usable, Double!Nitro!Usable, Nitro!Unfinalized, Double!Nitro!Unfinalized,
         Nitro!IsNodeUsable, Double!Nitro!IsNodeUsable, Nitro!Exists, Double!Nitro!Exists,
         Nitro!NodeAt, Double!Nitro!NodeAt, Nitro!Nodes, Double!Nitro!Nodes
<1>2. \A t, n : Double!Nitro!IsNodeUsable(t, n) <=> Nitro!IsNodeUsable(t, n)
  BY DoubleNitroNames DEF Nitro!IsNodeUsable, Double!Nitro!IsNodeUsable
<1>3. i \in Nitro!Usable(x, s.one) /\ node > 0 /\ (x.minAge23 # 0 => Nitro!IsNodeUsable(s.two, node))
  BY <1>1, <1>2 DEF Double!Usable
<1>4. Fetched(Nitro!FetchCommit(x, s.one, i), i)
  BY <1>3, NitroUsable DEF DoubleOK
<1>5. i + 1 \in DOMAIN s.seen /\ i \in Nat
  <2>1. i \in Nitro!Nodes(s.one) /\ i \in Nat
    BY <1>3, <1>4 DEF Nitro!Usable, Fetched
  <2>2. Len(s.seen) = Len(s.one.nodes) /\ DOMAIN s.seen = 1 .. Len(s.seen) /\ Len(s.seen) \in Nat
    BY InSeq DEF DoubleOK, DoubleTyped
  <2>3. QED
    BY <2>1, <2>2 DEF Nitro!Nodes
<1>6. y.minAge = x.minAge23
  BY DEF Double!Second
<1> HIDE DEF y
<1>7. Nitro!FetchCommit(y, s.two, node).index = node
  <2>1. node \in Int /\ node # 0
    BY <1>3, <1>5, InSeq DEF DoubleOK, DoubleTyped
  <2>2. CASE x.minAge23 = 0
    <3>1. node \in Nitro!Nodes(s.two) /\ Nitro!NodeAt(s.two, node).state = "confirmed"
      BY <1>5, <2>2 DEF DoubleOK
    <3>2. QED
      BY <1>6, <2>1, <2>2, <3>1 DEF Nitro!FetchCommit, Nitro!Unfinalized, Nitro!Exists
  <2>3. CASE x.minAge23 # 0
    BY <1>3, <1>6, <2>1, <2>3 DEF Nitro!FetchCommit, Nitro!Unfinalized, Nitro!IsNodeUsable
  <2>4. QED
    BY <2>2, <2>3
<1>8. node # Double!NoIndex
  BY <1>3 DEF Double!NoIndex
<1> HIDE DEF node
<1> DEFINE one == Nitro!FetchCommit(x, s.one, i)
           two == Nitro!FetchCommit(y, s.two, node)
<1>9. one.index = i /\ i # Double!NoIndex /\ two.index = node
  BY <1>4, <1>5, <1>7 DEF Fetched, Double!NoIndex
<1>10. Double!FetchCommit(x, s, i) =
         IF Double!CommitAt(i, one) = Double!NoCommit \/ Double!CommitAt(node, two) = Double!NoCommit THEN Double!NoCommit
         ELSE [index |-> i, prev |-> Double!CommitAt(i, one).prev, node |-> node]
  BY DoubleNitroMore DEF Double!FetchCommit, y, node
<1> HIDE DEF one, two
<1>11. Double!CommitAt(i, one) # Double!NoCommit /\ Double!CommitAt(node, two) # Double!NoCommit
  BY <1>8, <1>9 DEF Double!CommitAt, Double!NoCommit
<1>12. QED
  BY <1>5, <1>10, <1>11 DEF Fetched

\* of every block of the first chain that one of the second in reach knows of,
LEMMA ReverseUsable ==
    ASSUME NEW x, x.depth \in Nat, x.max \in Nat, NEW s, ReverseOK(s), ReverseOrdered(s), NEW i \in Reverse!Usable(x, s)
    PROVE  Fetched(Reverse!FetchCommit(x, s, i), i)
<1>1. PICK n \in 0 .. Reverse!BlockNumber(s) : n + x.depth > Reverse!BlockNumber(s) /\ Reverse!L1Number(s, n) = i
  BY DEF Reverse!Usable
<1>2. i \in Nat
  BY DEF Reverse!Usable
<1>3. Reverse!FindL2Block(x, s, i) # Reverse!NoIndex
  BY <1>1, <1>2, L2BlockFound
<1>4. QED
  BY <1>2, <1>3 DEF Reverse!FetchCommit, Fetched

\* of every time a block of an unchecked chain has,
LEMMA UncheckedUsable ==
    ASSUME NEW x, x.depth \in Nat \ {0}, NEW s, UncheckedLinked(s), UncheckedOrdered(s), NEW i \in Unchecked!Usable(x, s)
    PROVE  Fetched(Unchecked!FetchCommit(x, s, i), i)
<1>1. PICK k \in DOMAIN s.times : i = s.times[k]
  BY DEF Unchecked!Usable
<1>2. DOMAIN s.times = 1 .. Len(s.times) /\ Len(s.times) \in Nat /\ i \in Nat /\ s.times[1] \in Nat
  BY <1>1, InSeq DEF UncheckedLinked
<1>3. 1 \in DOMAIN s.times /\ 1 <= k
  BY <1>1, <1>2
<1>4. i >= Unchecked!Time(s, 0)
  BY <1>1, <1>2, <1>3 DEF UncheckedOrdered, Unchecked!Time
<1>5. Unchecked!FindVisibleBlock(x, s, i) \in 0 .. Unchecked!BlockNumber(s)
  BY <1>2, <1>4, VisibleFound
<1>6. Unchecked!FindVisibleBlock(x, s, i) # Unchecked!NoIndex
  BY <1>5, UncheckedTimes DEF Unchecked!NoIndex
<1>7. QED
  BY <1>2, <1>6 DEF Unchecked!FetchCommit, Fetched

\* An update for each state.
LEMMA UpdatesUsable ==
    ASSUME NEW x, x.step \in Nat \ {0}, NEW s, UpdatesOK(s), UpdatesOrdered(s), NEW i \in Updates!Usable(x, s)
    PROVE  Fetched(Updates!FetchCommit(x, s, i), i)
<1>1. PICK k \in DOMAIN s.updates : i = s.updates[k].index
  BY DEF Updates!Usable
<1>2. i \in Nat
  BY <1>1, UpdatesTyped
<1>3. Updates!FindStateUpdate(x, s, i) # 0
  BY <1>1, UpdateFound
<1>4. QED
  BY <1>2, <1>3 DEF Updates!FetchCommit, Fetched

\* Where the commit is made of what makes the index usable.
LEMMA OthersUsable ==
    ASSUME NEW x, x.max \in Nat, NEW s, NEW i
    PROVE  /\ InteractiveOK(s) /\ i \in Interactive!Usable(x, s) => Fetched(Interactive!FetchCommit(x, s, i), i)
           /\ s.now \in Nat /\ i \in Self!Usable(x, s) => Fetched(Self!FetchCommit(x, s, i), i)
           /\ LineaOK(s) /\ i \in Linea!Usable(x, s) => Fetched(Linea!FetchCommit(x, s, i), i)
           /\ i \in Batches!Usable(x, s) => Fetched(Batches!FetchCommit(x, s, i), i)
           /\ TaikoOK(x, s) /\ i \in Taiko!Usable(x, s) => Fetched(Taiko!FetchCommit(x, s, i), i)
           /\ CheckpointOK(s) /\ i \in Checkpoint!Usable(x, s) => Fetched(Checkpoint!FetchCommit(x, s, i), i)
<1>1. ASSUME InteractiveOK(s), i \in Interactive!Usable(x, s) PROVE Fetched(Interactive!FetchCommit(x, s, i), i)
  <2>1. i \in 1 .. s.latest /\ s.latest \in Nat
    BY <1>1 DEF Interactive!Usable, InteractiveOK
  <2>2. QED
    BY <2>1 DEF Interactive!FetchCommit, Fetched
<1>2. ASSUME s.now \in Nat, i \in Self!Usable(x, s) PROVE Fetched(Self!FetchCommit(x, s, i), i)
  <2>1. i \in Nat /\ i < s.now
    BY <1>2 DEF Self!Usable
  <2>2. QED
    BY <2>1 DEF Self!FetchCommit, Fetched
<1>3. ASSUME LineaOK(s), i \in Linea!Usable(x, s) PROVE Fetched(Linea!FetchCommit(x, s, i), i)
  <2>1. i \in {s.finals[k] : k \in DOMAIN s.finals}
    BY <1>3 DEF Linea!Usable, Linea!StateRootHashes
  <2>2. i \in Nat
    BY <1>3, <2>1, InSeq DEF LineaOK
  <2>3. QED
    BY <2>1, <2>2, Zenon DEF Linea!FetchCommit, Fetched
<1>4. ASSUME i \in Batches!Usable(x, s) PROVE Fetched(Batches!FetchCommit(x, s, i), i)
  <2>1. i \in Nat /\ Batches!IsFinalized(x, s, i)
    BY <1>4 DEF Batches!Usable
  <2>2. QED
    BY <2>1 DEF Batches!FetchCommit, Fetched
<1>5. ASSUME TaikoOK(x, s), i \in Taiko!Usable(x, s) PROVE Fetched(Taiko!FetchCommit(x, s, i), i)
  <2>1. i \in Nat /\ i \in s.written
    BY <1>5 DEF Taiko!Usable
  <2>2. QED
    BY <2>1 DEF Taiko!FetchCommit, Fetched
<1>6. ASSUME CheckpointOK(s), i \in Checkpoint!Usable(x, s) PROVE Fetched(Checkpoint!FetchCommit(x, s, i), i)
  <2> DEFINE posts == Checkpoint!PostsIn(s, Checkpoint!Header(s, i).start, Checkpoint!Header(s, i).end)
  <2>1. i \in DOMAIN s.headers /\ posts # {}
    BY <1>6 DEF Checkpoint!Usable
  <2>2. i \in Nat
    BY <1>6, <2>1, InSeq DEF CheckpointOK
  <2>3. Checkpoint!FetchCommit(x, s, i) = [index |-> i, post |-> Checkpoint!LastOf(posts),
                                           l2BlockNumberStart |-> Checkpoint!Header(s, i).start]
    BY <2>1 DEF Checkpoint!FetchCommit
  <2>4. QED
    BY <2>2, <2>3 DEF Fetched
<1>7. QED
  BY <1>1, <1>2, <1>3, <1>4, <1>5, <1>6

\* Only the genesis has no parent, and what was confirmed is a line: after each
\* confirmation but the last, a child of what it confirmed was.
InLine(s) ==
    /\ \A a \in DOMAIN s.nodes : a # 1 => s.nodes[a].parent # 0
    /\ \E k \in DOMAIN s.log : s.log[k].name = "confirmed" /\ s.log[k].hash = s.confirmed
    /\ \A j, k \in DOMAIN s.log :
            j < k /\ s.log[j].name = "confirmed" /\ s.log[k].name = "confirmed" =>
                \E i \in DOMAIN s.log : /\ j < i /\ i <= k /\ s.log[i].name = "confirmed"
                                        /\ s.nodes[s.log[i].hash].parent = s.log[j].hash

\* It is at first,
LEMMA LineStarts ==
    ASSUME NEW x
    PROVE  InLine(BoLD!Start(x))
<1>1. PICK s : s = BoLD!Start(x)
  OBVIOUS
<1>2. /\ s.confirmed = 1 /\ DOMAIN s.nodes = {1} /\ DOMAIN s.log = {1, 2}
      /\ s.log[1].name = "created"
      /\ s.log[2].name = "confirmed" /\ s.log[2].hash = 1
  BY <1>1 DEF BoLD!Start, BoLD!Event
<1>3. InLine(s)
  BY <1>2 DEF InLine
<1>4. QED
  BY <1>1, <1>3

\* and with one more event, as only a child of the latest confirmed is confirmed.
LEMMA LineGrows ==
    ASSUME NEW s, BoldOK(s), BoldLinked(s), LogLinked(s), InLine(s), NEW t, BoldStays(s, t),
           NEW e \in BoldEvent, t.log = Append(s.log, e),
           \/ /\ e.name = "created" /\ t.confirmed = s.confirmed
              /\ \A a \in DOMAIN t.nodes : a \in DOMAIN s.nodes \/ t.nodes[a].parent # 0
           \/ /\ e.name = "confirmed" /\ t.confirmed = e.hash /\ DOMAIN t.nodes = DOMAIN s.nodes
              /\ e.hash \in DOMAIN s.nodes /\ s.nodes[e.hash].parent = s.confirmed
    PROVE  InLine(t)
<1> DEFINE n == Len(s.log) + 1
<1>1. /\ Len(s.nodes) \in Nat /\ DOMAIN s.nodes = 1 .. Len(s.nodes)
      /\ Len(s.log) \in Nat /\ DOMAIN s.log = 1 .. Len(s.log)
  BY BoldNodes DEF BoldOK
<1>2. /\ DOMAIN t.log = 1 .. Len(s.log) + 1 /\ t.log[n] = e /\ \A k \in DOMAIN s.log : t.log[k] = s.log[k]
  BY OneMore DEF BoldOK, BoldTyped
<1>3. /\ \A k \in DOMAIN t.log : k \in DOMAIN s.log \/ k = n
      /\ \A k \in DOMAIN s.log : k \in DOMAIN t.log /\ k < n
      /\ n \in DOMAIN t.log
  BY <1>1, <1>2
<1>4. \A k \in DOMAIN s.log : t.nodes[s.log[k].hash].parent = s.nodes[s.log[k].hash].parent
  BY DEF BoldLinked, EventLinked, BoldStays
<1> HIDE DEF n
<1>5. \A a \in DOMAIN t.nodes : a # 1 => t.nodes[a].parent # 0
  <2> SUFFICES ASSUME NEW a \in DOMAIN t.nodes, a # 1 PROVE t.nodes[a].parent # 0
    OBVIOUS
  <2>1. CASE a \in DOMAIN s.nodes
    BY <2>1 DEF InLine, BoldStays
  <2>2. CASE a \notin DOMAIN s.nodes
    BY <2>2
  <2>3. QED
    BY <2>1, <2>2
<1>6. \E k \in DOMAIN t.log : t.log[k].name = "confirmed" /\ t.log[k].hash = t.confirmed
  <2>1. CASE e.name = "created"
    <3>1. PICK k \in DOMAIN s.log : s.log[k].name = "confirmed" /\ s.log[k].hash = s.confirmed
      BY DEF InLine
    <3>2. QED
      BY <1>2, <1>3, <2>1, <3>1
  <2>2. CASE e.name = "confirmed"
    BY <1>2, <1>3, <2>2
  <2>3. QED
    BY <2>1, <2>2
<1>7. ASSUME NEW j \in DOMAIN t.log, NEW k \in DOMAIN t.log, j < k, t.log[j].name = "confirmed",
             t.log[k].name = "confirmed"
      PROVE  \E i \in DOMAIN t.log : /\ j < i /\ i <= k /\ t.log[i].name = "confirmed"
                                     /\ t.nodes[t.log[i].hash].parent = t.log[j].hash
  <2>0. \A i \in DOMAIN t.log : i \in Nat
    BY <1>1, <1>2
  <2>1. j \in DOMAIN s.log /\ t.log[j] = s.log[j]
    BY <1>1, <1>2, <1>7
  <2>2. CASE k \in DOMAIN s.log
    <3>1. PICK i \in DOMAIN s.log : /\ j < i /\ i <= k /\ s.log[i].name = "confirmed"
                                    /\ s.nodes[s.log[i].hash].parent = s.log[j].hash
      <4>1. j \in DOMAIN s.log /\ k \in DOMAIN s.log /\ j < k
        BY <1>7, <2>1, <2>2
      <4>2. s.log[j].name = "confirmed" /\ s.log[k].name = "confirmed"
        BY <1>2, <1>7, <2>1, <2>2
      <4>3. QED
        BY ONLY <4>1, <4>2, InLine(s) DEF InLine
    <3>2. QED
      BY <1>2, <1>3, <1>4, <2>1, <3>1
  <2>3. CASE k = n
    <3>1. t.log[k] = e /\ e.name = "confirmed" /\ e.hash \in DOMAIN s.nodes /\ s.nodes[e.hash].parent = s.confirmed
      BY <1>2, <1>7, <2>3
    <3>2. t.nodes[e.hash].parent = s.confirmed
      BY <3>1 DEF BoldStays
    <3>3. PICK l \in DOMAIN s.log : s.log[l].name = "confirmed" /\ s.log[l].hash = s.confirmed
      BY DEF InLine
    <3>4. s.log[j].name = "confirmed" /\ s.log[j].hash <= s.confirmed
      BY <1>7, <2>1 DEF LogLinked
    <3>5. s.confirmed \in Nat /\ s.log[j].hash \in Nat /\ l \in Nat
      BY <1>1, <2>1 DEF BoldOK, BoldLinked, EventLinked
    <3>6. l < j => s.confirmed < s.log[j].hash
      BY <2>1, <3>3, <3>4 DEF LogLinked
    <3>7. j = l \/ j < l
      <4>1. j \in Nat
        BY <1>1, <2>1
      <4>2. QED
        BY ONLY <3>4, <3>5, <3>6, <4>1
    <3>8. CASE j = l
      <4>1. t.nodes[t.log[k].hash].parent = t.log[j].hash /\ t.log[k].name = "confirmed" /\ k <= k
        BY <2>0, <2>1, <3>1, <3>2, <3>3, <3>8
      <4>2. QED
        BY <1>7, <4>1
    <3>9. CASE j < l
      <4>1. PICK i \in DOMAIN s.log : /\ j < i /\ i <= l /\ s.log[i].name = "confirmed"
                                      /\ s.nodes[s.log[i].hash].parent = s.log[j].hash
        BY <2>1, <3>3, <3>4, <3>9 DEF InLine
      <4>2. i < k /\ i <= k
        BY <1>1, <1>3, <2>3, <4>1 DEF n
      <4>3. QED
        BY <1>2, <1>3, <1>4, <2>1, <4>1, <4>2
    <3>10. QED
      BY <3>7, <3>8, <3>9
  <2>4. QED
    BY <1>3, <2>2, <2>3
<1>8. QED
  BY <1>5, <1>6, <1>7 DEF InLine

\* So it is after a move of the chain,
LEMMA LineMoves ==
    ASSUME NEW x, x.finishes \subseteq BOOLEAN, NEW s, BoldOK(s), BoldLinked(s), LogLinked(s), InLine(s),
           NEW t \in BoLD!Moves(x, s)
    PROVE  InLine(t)
<1>1. /\ Len(s.nodes) \in Nat /\ DOMAIN s.nodes = 1 .. Len(s.nodes)
      /\ s.now \in Nat /\ \A b \in DOMAIN s.nodes : s.nodes[b] \in BoldNode
  BY BoldNodes DEF BoldOK, BoldTyped
<1>2. s = [now |-> s.now, confirmed |-> s.confirmed, nodes |-> s.nodes, log |-> s.log] /\ s.nodes \in Seq(BoldNode)
  BY DEF BoldOK, BoldTyped
<1>3. BoldStays(s, t)
  BY BoldLinks
<1>4. PICK e \in BoldEvent :
        /\ t.log = Append(s.log, e)
        /\ \/ /\ e.name = "created" /\ t.confirmed = s.confirmed
              /\ \A a \in DOMAIN t.nodes : a \in DOMAIN s.nodes \/ t.nodes[a].parent # 0
           \/ /\ e.name = "confirmed" /\ t.confirmed = e.hash /\ DOMAIN t.nodes = DOMAIN s.nodes
              /\ e.hash \in DOMAIN s.nodes /\ s.nodes[e.hash].parent = s.confirmed
  <2>1. CASE \E p \in DOMAIN s.nodes, f \in x.finishes : t = BoLD!Made(s, p, f)
    <3>1. PICK p \in DOMAIN s.nodes, f \in x.finishes : t = BoLD!Made(s, p, f)
      BY <2>1
    <3> DEFINE node == [parent |-> p, made |-> s.now, status |-> "pending", rivalled |-> FALSE, finished |-> f]
               event == BoLD!Event("created", Len(s.nodes) + 1, s.now)
               rivalled == \E a \in DOMAIN s.nodes : s.nodes[a].parent = p
    <3>2. /\ node \in BoldNode /\ node.parent = p
          /\ event \in BoldEvent /\ event.name = "created"
      BY <1>1 DEF BoldNode, BoldEvent, BoLD!Event
    <3>3. t = BoldMade(s, p, rivalled, node, event)
      BY <1>2, <3>1, Zenon DEF BoldMade, BoLD!Hashes, BoLD!Made
    <3>4. PICK v \in BOOLEAN : v = rivalled
      OBVIOUS
    <3> HIDE DEF node, event
    <3> DEFINE q == [s.nodes EXCEPT ![p] = [s.nodes[p] EXCEPT !.rivalled = v]]
    <3>5. q \in Seq(BoldNode) /\ Len(q) = Len(s.nodes)
      <4>1. [s.nodes[p] EXCEPT !.rivalled = v] \in BoldNode
        BY <1>1 DEF BoldNode
      <4>2. QED
        BY <1>2, <4>1, ExceptSeq
    <3>6. t.confirmed = s.confirmed /\ t.nodes = Append(q, node) /\ t.log = Append(s.log, event)
      BY <3>3, <3>4 DEF BoldMade
    <3> HIDE DEF q
    <3>7. DOMAIN t.nodes = 1 .. Len(s.nodes) + 1 /\ t.nodes[Len(s.nodes) + 1] = node
      BY <3>2, <3>5, <3>6, OneMore
    <3>8. p # 0
      BY <1>1
    <3>9. \A a \in DOMAIN t.nodes : a \in DOMAIN s.nodes \/ t.nodes[a].parent # 0
      BY <1>1, <3>2, <3>7, <3>8
    <3>10. QED
      BY <3>2, <3>6, <3>9
  <2>2. CASE \E a \in {a \in DOMAIN s.nodes : s.nodes[a].parent = s.confirmed} : t = BoLD!Settled(s, a)
    <3>1. PICK a \in DOMAIN s.nodes : s.nodes[a].parent = s.confirmed /\ t = BoLD!Settled(s, a)
      BY <2>2
    <3> DEFINE node == [s.nodes[a] EXCEPT !.status = "confirmed"]
               event == BoLD!Event("confirmed", a, s.now)
    <3>2. event \in BoldEvent /\ event.name = "confirmed" /\ event.hash = a
      BY <1>1 DEF BoldEvent, BoLD!Event
    <3>3. t = BoldSettled(s, a, node, event)
      BY <1>2, <3>1 DEF BoldSettled, BoLD!Settled
    <3> HIDE DEF node, event
    <3>4. t.confirmed = a /\ DOMAIN t.nodes = DOMAIN s.nodes /\ t.log = Append(s.log, event)
      BY <3>3 DEF BoldSettled
    <3>5. QED
      BY <3>1, <3>2, <3>4
  <2>3. QED
    BY <2>1, <2>2 DEF BoLD!Moves, BoLD!Hashes
<1>5. QED
  BY <1>3, <1>4, LineGrows

\* and of time.
LEMMA LineTicks ==
    ASSUME NEW s, BoldOK(s), InLine(s), NEW t, t = [s EXCEPT !.now = @ + 1]
    PROVE  InLine(t)
<1>1. t = [now |-> s.now + 1, confirmed |-> s.confirmed, nodes |-> s.nodes, log |-> s.log]
  BY DEF BoldOK, BoldTyped
<1>2. t.confirmed = s.confirmed /\ t.nodes = s.nodes /\ t.log = s.log
  BY <1>1
<1>3. QED
  BY <1>2 DEF InLine

\* A chain of entries from a confirmed one to that of an assertion, with no
\* rivals on the way: what IsValidAssertionChain asks but that it is finished.
Sound(s, m, a, q) ==
    /\ q \in Seq(Entries(s)) /\ Len(q) >= 2 /\ q[1].confirmed /\ q[Len(q)] = KnownAt(m, a)
    /\ \A i \in 1 .. Len(q) - 1 : q[i].children < 2

\* One more entry makes one of a chain whose last has one child.
LEMMA SoundGrows ==
    ASSUME NEW s, NEW m, NEW a, KnownAt(m, a) \in Entries(s),
           NEW q \in Seq(Entries(s)), Len(q) >= 1, q[1].confirmed,
           \A i \in 1 .. Len(q) : q[i].children < 2
    PROVE  Sound(s, m, a, Append(q, KnownAt(m, a)))
<1>1. PICK e \in Entries(s) : e = KnownAt(m, a)
  OBVIOUS
<1>2. Len(q) \in Nat /\ DOMAIN q = 1 .. Len(q)
  BY InSeq
<1>3. /\ Append(q, e) \in Seq(Entries(s)) /\ Len(Append(q, e)) = Len(q) + 1
      /\ Append(q, e)[Len(q) + 1] = e /\ \A k \in DOMAIN q : Append(q, e)[k] = q[k]
  BY OneMore
<1>4. \A i \in 1 .. Len(Append(q, e)) - 1 : i \in DOMAIN q /\ i \in 1 .. Len(q)
  BY <1>2, <1>3
<1>5. 1 \in DOMAIN q /\ Len(Append(q, e)) >= 2
  BY <1>2, <1>3
<1>6. \A i \in 1 .. Len(Append(q, e)) - 1 : Append(q, e)[i].children < 2
  BY <1>3, <1>4
<1>7. Append(q, e)[1].confirmed /\ Append(q, e)[Len(Append(q, e))] = e
  BY <1>3, <1>5
<1>8. QED
  BY <1>1, <1>3, <1>5, <1>6, <1>7 DEF Sound

\* An assertion without rivals has one child at most, and so says the map.
LEMMA OneChild ==
    ASSUME NEW s, BoldOK(s), NEW m, BoldRemembers(s, m), NEW last, TrueOf(s, m, OldAt(s, m.lastBlock), last),
           NEW h, BoLD!Known(m.map, h) # {}, ~BoLD!Rivalled(s, m.lastBlock, h)
    PROVE  KnownAt(m, h).children < 2
<1> DEFINE C == {a \in OldAt(s, m.lastBlock) : s.nodes[a].parent = h}
<1>1. PICK i \in DOMAIN m.map : m.map[i] = KnownAt(m, h) /\ m.map[i].hash = h
  <2>1. KnownAt(m, h).hash = h /\ \E i \in DOMAIN m.map : m.map[i] = KnownAt(m, h)
    BY KnownIs
  <2>2. QED
    BY ONLY <2>1
<1>2. m.map[i].children = Cardinality(C)
  BY <1>1 DEF TrueOf
<1>3. ASSUME NEW a \in C, NEW b \in C PROVE a = b
  <2> DEFINE R == {x \in DOMAIN s.nodes : s.nodes[x].parent = h /\ s.nodes[x].made <= m.lastBlock}
  <2>1. a \in R /\ b \in R
    BY DEF OldAt
  <2>2. \A x, y \in R : x = y
    BY DEF BoLD!Rivalled, BoLD!Hashes
  <2>3. QED
    BY <2>1, <2>2
<1>4. C = {} \/ \E c \in C : C = {c}
  BY <1>3
<1> HIDE DEF C
<1>5. Cardinality(C) = 0 \/ Cardinality(C) = 1
  BY <1>4, FS_EmptySet, FS_Singleton
<1>6. QED
  BY <1>1, <1>2, <1>5

\* The parent of one that stands and is not confirmed, if it is confirmed, is
\* the last confirmed: otherwise the next of the line would be a rival.
LEMMA ParentIsLast ==
    ASSUME NEW s, BoldOK(s), BoldLinked(s), LogLinked(s), InLine(s), NEW B \in Nat,
           NEW last \in OldAt(s, B), ConfirmedAt(s, B, last),
           \A b \in OldAt(s, B) : ConfirmedAt(s, B, b) => b <= last,
           NEW x \in OldAt(s, B), ~ConfirmedAt(s, B, x), NEW p \in OldAt(s, B), s.nodes[x].parent = p,
           ConfirmedAt(s, B, p), ~BoLD!Rivalled(s, B, p)
    PROVE  p = last
<1>1. PICK j \in DOMAIN s.log : s.log[j].name = "confirmed" /\ s.log[j].hash = p /\ s.log[j].block <= B
  BY DEF ConfirmedAt
<1>2. PICK k \in DOMAIN s.log : s.log[k].name = "confirmed" /\ s.log[k].hash = last /\ s.log[k].block <= B
  BY DEF ConfirmedAt
<1>3. /\ DOMAIN s.log = 1 .. Len(s.log) /\ Len(s.log) \in Nat
      /\ \A i \in DOMAIN s.log : s.log[i].block \in Nat
      /\ DOMAIN s.nodes = 1 .. Len(s.nodes) /\ Len(s.nodes) \in Nat
  BY BoldNodes DEF BoldOK, BoldEvent
<1>4. j \in Nat /\ k \in Nat /\ p \in Nat /\ last \in Nat /\ p <= last
  BY <1>3 DEF OldAt
<1>5. k < j => last < p
  BY <1>1, <1>2 DEF LogLinked
<1> SUFFICES ASSUME p # last PROVE FALSE
  OBVIOUS
<1>6. j < k
  <2>1. j # k
    BY <1>1, <1>2
  <2>2. QED
    BY ONLY <1>4, <1>5, <2>1
<1>7. PICK i \in DOMAIN s.log : /\ j < i /\ i <= k /\ s.log[i].name = "confirmed"
                                /\ s.nodes[s.log[i].hash].parent = p
  <2>1. s.log[j].name = "confirmed" /\ s.log[k].name = "confirmed"
    BY <1>1, <1>2
  <2>2. \E i \in DOMAIN s.log : /\ j < i /\ i <= k /\ s.log[i].name = "confirmed"
                                /\ s.nodes[s.log[i].hash].parent = s.log[j].hash
    BY ONLY <1>6, <2>1, InLine(s), j \in DOMAIN s.log, k \in DOMAIN s.log DEF InLine
  <2>3. QED
    BY <1>1, <2>2
<1>8. s.log[i].block <= B
  <2>1. i = k \/ i < k
    BY <1>3, <1>7
  <2>2. s.log[i].block <= s.log[k].block
    BY <1>3, <2>1 DEF LogLinked
  <2>3. QED
    BY <1>2, <1>3, <2>2
<1>9. s.log[i].hash \in OldAt(s, B)
  <2>1. s.log[i].hash \in DOMAIN s.nodes /\ s.nodes[s.log[i].hash].made \in Nat
        /\ s.nodes[s.log[i].hash].made <= s.log[i].block /\ s.log[i].block \in Nat
    BY <1>7, MadeBefore
  <2>2. QED
    BY <1>8, <2>1 DEF OldAt
<1>10. ConfirmedAt(s, B, s.log[i].hash)
  BY <1>7, <1>8 DEF ConfirmedAt
<1>11. s.log[i].hash # x
  BY <1>10
<1>12. QED
  <2> DEFINE R == {y \in DOMAIN s.nodes : s.nodes[y].parent = p /\ s.nodes[y].made <= B}
  <2>1. \A y, z \in R : y = z
    BY DEF BoLD!Rivalled, BoLD!Hashes
  <2>2. x \in R /\ s.log[i].hash \in R
    BY <1>7, <1>9 DEF OldAt
  <2>3. QED
    BY <1>11, <2>1, <2>2

\* By block, an assertion x stands: the recursion of Standing.
StandsBy(s, B, a, stands) ==
    \A x \in 0 .. a :
        stands[x] <=> \/ x \in BoLD!ConfirmedBy(s, B)
                      \/ x # 0 /\ ~BoLD!Rivalled(s, B, s.nodes[x].parent) /\ stands[s.nodes[x].parent]

\* So the walk from one that stands and is not confirmed finds such a chain.
LEMMA StandingKnown ==
    ASSUME NEW s, BoldOK(s), BoldLinked(s), LogLinked(s), InLine(s), NEW m, BoldRemembers(s, m),
           NEW B \in Nat, B = m.lastBlock, NEW last \in OldAt(s, B), TrueOf(s, m, OldAt(s, B), last),
           NEW a \in OldAt(s, B), NEW stands, StandsBy(s, B, a, stands), stands[a], ~ConfirmedAt(s, B, a),
           NEW walk, Walks(m, a, walk)
    PROVE  Sound(s, m, a, walk[a]) /\ BoLD!Known(m.map, a) # {}
<1> DEFINE old == OldAt(s, B)
           Q(x) == x \in old /\ stands[x] /\ ~ConfirmedAt(s, B, x) =>
                        last < x /\ Sound(s, m, x, walk[x])
           rank == [x \in 1 .. a |-> x]
           S == {x \in 1 .. a : Q(x)}
<1>1. /\ DOMAIN s.nodes = 1 .. Len(s.nodes) /\ Len(s.nodes) \in Nat
      /\ \A x \in DOMAIN s.nodes : s.nodes[x].made \in Nat /\ s.nodes[x].parent \in Nat /\ s.nodes[x].parent < x
      /\ \A k \in DOMAIN s.log : s.log[k].hash \in DOMAIN s.nodes
  BY BoldNodes DEF BoldOK, BoldNode, BoldLinked, EventLinked
<1>2. \A x : x \in BoLD!ConfirmedBy(s, B) <=> ConfirmedAt(s, B, x)
  BY DEF BoLD!ConfirmedBy, ConfirmedAt
<1>3. /\ ConfirmedAt(s, B, last)
      /\ \A b \in old : ConfirmedAt(s, B, b) => b <= last
      /\ \A i \in DOMAIN m.map : m.map[i].confirmed <=> ConfirmedAt(s, B, m.map[i].hash)
      /\ \A b \in old : b >= last => \E i \in DOMAIN m.map : m.map[i].hash = b
  BY DEF TrueOf
<1>4. a \in Nat /\ a \in 1 .. a /\ last \in Nat
  BY <1>1 DEF OldAt
<1>5. ASSUME NEW b \in old, b >= last
      PROVE  /\ BoLD!Known(m.map, b) # {} /\ KnownAt(m, b) \in Entries(s)
             /\ KnownAt(m, b).parent = s.nodes[b].parent
             /\ KnownAt(m, b).confirmed <=> ConfirmedAt(s, B, b)
  <2>1. BoLD!Known(m.map, b) # {}
    BY <1>3, <1>5 DEF BoLD!Known
  <2>2. PICK i \in DOMAIN m.map : m.map[i] = KnownAt(m, b)
    BY <2>1, KnownIs
  <2>3. KnownAt(m, b) \in Entries(s) /\ KnownAt(m, b).hash = b /\ KnownAt(m, b).parent = s.nodes[b].parent
    BY <2>1, KnownIs
  <2>4. QED
    BY <1>3, <2>1, <2>2, <2>3
<1>6. ASSUME NEW x \in 1 .. a, \A y \in 1 .. a : rank[y] < rank[x] => y \in S PROVE x \in S
  <2> SUFFICES ASSUME x \in old, stands[x], ~ConfirmedAt(s, B, x) PROVE last < x /\ Sound(s, m, x, walk[x])
    OBVIOUS
  <2> DEFINE p == s.nodes[x].parent
  <2>1. x \in DOMAIN s.nodes /\ x \in 0 .. a /\ x \in Nat
    BY <1>1, <1>4 DEF OldAt
  <2>2. ~BoLD!Rivalled(s, B, p) /\ stands[p]
    BY <1>2, <2>1 DEF StandsBy
  <2>3. p \in Nat /\ p < x
    BY <1>1, <2>1
  <2>4. p \in 0 .. a /\ p # 0
    <3>1. p \in 0 .. a
      BY <1>4, <2>1, <2>3
    <3>2. stands[0] => 0 \in BoLD!ConfirmedBy(s, B)
      BY <1>4 DEF StandsBy
    <3>3. ~ConfirmedAt(s, B, 0)
      BY <1>1 DEF ConfirmedAt
    <3>4. QED
      BY <1>2, <2>2, <3>1, <3>2, <3>3
  <2>5. p \in DOMAIN s.nodes
    BY <2>1, <2>4, BoldParent
  <2>6. p \in old
    <3>1. s.nodes[p].made <= s.nodes[x].made
      BY <2>1, <2>3, <2>5, MadeInOrder
    <3>2. s.nodes[x].made <= B
      BY DEF OldAt
    <3>3. s.nodes[p].made \in Nat /\ s.nodes[x].made \in Nat
      BY <1>1, <2>1, <2>5
    <3>4. QED
      BY <2>5, <3>1, <3>2, <3>3 DEF OldAt
  <2> HIDE DEF p
  <2>7. ASSUME last <= p PROVE last < x /\ BoLD!Known(m.map, x) # {} /\ KnownAt(m, x) \in Entries(s)
                               /\ walk[x] = Append(walk[p], KnownAt(m, x))
                               /\ BoLD!Known(m.map, p) # {} /\ KnownAt(m, p).children < 2
    <3>1. last < x
      BY <1>4, <2>3, <2>7
    <3>2. x >= last /\ p >= last
      BY <1>4, <2>1, <2>3, <2>7, <3>1
    <3>3. /\ BoLD!Known(m.map, x) # {} /\ KnownAt(m, x) \in Entries(s)
          /\ KnownAt(m, x).parent = p /\ ~KnownAt(m, x).confirmed
      BY <1>5, <3>2 DEF p
    <3>4. BoLD!Known(m.map, p) # {}
      BY <1>5, <2>6, <3>2
    <3>5. KnownAt(m, p).children < 2
      BY <2>2, <3>4, OneChild
    <3>6. walk[x] = Append(walk[p], KnownAt(m, x))
      BY <2>1, <3>3, Zenon DEF Walks
    <3>7. QED
      BY <3>1, <3>3, <3>4, <3>5, <3>6
  <2>8. CASE ConfirmedAt(s, B, p)
    <3>1. p = last
      BY <1>3, <2>2, <2>6, <2>8, ParentIsLast DEF p
    <3>2. last <= p /\ p >= last
      BY <1>4, <3>1
    <3>3. KnownAt(m, p) \in Entries(s) /\ KnownAt(m, p).confirmed
      BY <1>5, <2>6, <2>8, <3>2
    <3>4. walk[p] = <<KnownAt(m, p)>>
      BY <2>4, <2>7, <3>2, <3>3, Zenon DEF Walks
    <3>5. PICK e \in Entries(s) : e = KnownAt(m, p)
      BY <3>3
    <3>6. PICK q \in Seq(Entries(s)) : q = <<e>> /\ Len(q) = 1 /\ q[1] = e
      <4>1. <<e>> \in Seq(Entries(s)) /\ Len(<<e>>) = 1 /\ <<e>>[1] = e
        OBVIOUS
      <4>2. QED
        BY <4>1, Zenon
    <3>7. e.confirmed /\ e.children < 2
      BY <2>7, <3>2, <3>3, <3>5
    <3>8. \A i \in 1 .. Len(q) : q[i].children < 2
      BY <3>6, <3>7
    <3>9. Len(q) >= 1 /\ q[1].confirmed
      BY <3>6, <3>7
    <3>10. KnownAt(m, x) \in Entries(s)
      BY <2>7, <3>2
    <3>11. Sound(s, m, x, Append(q, KnownAt(m, x)))
      BY ONLY <3>8, <3>9, <3>10, q \in Seq(Entries(s)), SoundGrows
    <3>12. QED
      BY <2>7, <3>2, <3>4, <3>5, <3>6, <3>11
  <2>9. CASE ~ConfirmedAt(s, B, p)
    <3>1. p \in 1 .. a /\ rank[p] < rank[x]
      BY <1>4, <2>3, <2>4
    <3>2. Q(p)
      BY <1>6, <3>1
    <3>3. last < p /\ Sound(s, m, p, walk[p])
      BY <2>2, <2>6, <2>9, <3>2
    <3>4. last <= p
      BY <1>4, <2>3, <3>3
    <3>5. PICK q : q = walk[p]
      OBVIOUS
    <3>6. /\ q \in Seq(Entries(s)) /\ Len(q) >= 2 /\ q[1].confirmed /\ q[Len(q)] = KnownAt(m, p)
          /\ \A i \in 1 .. Len(q) - 1 : q[i].children < 2
      BY <3>3, <3>5 DEF Sound
    <3>7. Len(q) \in Nat
      BY <3>6, InSeq
    <3>8. \A i \in 1 .. Len(q) : q[i].children < 2
      <4>1. \A i \in 1 .. Len(q) : i = Len(q) \/ i \in 1 .. Len(q) - 1
        BY <3>7
      <4>2. QED
        BY <2>7, <3>4, <3>6, <4>1
    <3>9. Len(q) >= 1
      BY <3>6, <3>7
    <3>10. Sound(s, m, x, Append(q, KnownAt(m, x)))
      BY <2>7, <3>4, <3>6, <3>8, <3>9, SoundGrows
    <3>11. QED
      BY <2>7, <3>4, <3>5, <3>10
  <2>10. QED
    BY <2>8, <2>9
<1>7. \A x \in 1 .. a : x \in S
  <2>1. rank \in [1 .. a -> 0 .. a]
    BY <1>4
  <2> HIDE DEF S, rank
  <2>2. Inductive(1 .. a, a, rank, S)
    BY <1>4, <1>6, <2>1 DEF Inductive
  <2>3. QED
    BY <2>2, Induction
<1>8. last < a /\ Sound(s, m, a, walk[a])
  BY <1>4, <1>7
<1>9. QED
  BY <1>4, <1>5, <1>8

\* The greatest of a set is in it.
LEMMA LastOf ==
    ASSUME NEW n \in Nat, NEW I, I \subseteq 1 .. n, I # {}
    PROVE  BoLD!Max(I) \in I /\ BoLD!Max(I) # 0
<1>1. I \subseteq 0 .. n
  OBVIOUS
<1>2. PICK j \in I : \A y \in I : y <= j
  BY <1>1, GreatestOf
<1>3. \A y \in I : j >= y
  BY <1>1, <1>2
<1>4. BoLD!Max(I) \in I
  BY <1>2, <1>3 DEF BoLD!Max
<1>5. QED
  BY <1>4

\* There is a newest entry with a valid chain, if there is one.
LEMMA AnAssertion ==
    ASSUME NEW S, NEW m, m.map \in Seq(S), NEW first, NEW last, NEW k \in DOMAIN m.map,
           first <= m.map[k].created, m.map[k].created <= last,
           BoLD!IsValidAssertionChain(BoLD!UnfinalizedAssertionChain(m, m.map[k].hash))
    PROVE  BoLD!LatestAssertion(m, first, last) # 0
<1> DEFINE I == {j \in 1 .. Len(m.map) :
                    /\ first <= m.map[j].created /\ m.map[j].created <= last
                    /\ BoLD!IsValidAssertionChain(BoLD!UnfinalizedAssertionChain(m, m.map[j].hash))}
<1>1. BoLD!LatestAssertion(m, first, last) = IF I # {} THEN BoLD!Max(I) ELSE 0
  BY Zenon DEF BoLD!LatestAssertion, BoLD!SelectLastInSeq
<1>2. Len(m.map) \in Nat /\ DOMAIN m.map = 1 .. Len(m.map)
  BY InSeq
<1>3. I # {} /\ I \subseteq 1 .. Len(m.map)
  BY <1>2
<1> HIDE DEF I
<1>4. QED
  BY <1>1, <1>2, <1>3, LastOf

\* A chain is found in the map, or in the events if one is confirmed.
LEMMA AChain ==
    ASSUME NEW x, NEW s, BoldOK(s), NEW m, BoldRemembers(s, m), NEW i \in Nat, BoLD!Unfinalized(x) => m.guarded,
           \/ BoLD!Unfinalized(x) /\ BoLD!LatestAssertion(m, i, i) # 0
           \/ \E a \in DOMAIN s.nodes : /\ s.nodes[a].made = i /\ s.nodes[a].finished
                                        /\ s.nodes[a].status = "confirmed" /\ s.nodes[a].parent # 0
    PROVE  Fetched(BoLD!FetchCommit(x, s, m, i), i)
<1> DEFINE found == BoLD!FindAssertionChainAtIndex(x, s, m, i)
           j == IF BoLD!Unfinalized(x) THEN BoLD!LatestAssertion(m, i, i) ELSE 0
           known == BoLD!UnfinalizedAssertionChain(m, m.map[j].hash)
           I == {k \in 1 .. Len(s.nodes) : /\ s.nodes[k].made = i /\ s.nodes[k].finished
                                           /\ s.nodes[k].status = "confirmed" /\ s.nodes[k].parent # 0}
           made == IF I # {} THEN BoLD!Max(I) ELSE 0
<1>1. found = IF BoLD!Unfinalized(x) /\ ~m.guarded THEN << >>
              ELSE IF j # 0 THEN [k \in DOMAIN known |-> known[k].hash]
              ELSE IF made = 0 THEN << >> ELSE <<s.nodes[made].parent, made>>
  BY Zenon DEF BoLD!FindAssertionChainAtIndex, BoLD!SelectLastInSeq
<1>2. j # 0 \/ made # 0
  <2>1. CASE BoLD!Unfinalized(x) /\ BoLD!LatestAssertion(m, i, i) # 0
    BY <2>1
  <2>2. ASSUME NEW a \in DOMAIN s.nodes, s.nodes[a].made = i, s.nodes[a].finished,
               s.nodes[a].status = "confirmed", s.nodes[a].parent # 0
        PROVE  made # 0
    <3>1. Len(s.nodes) \in Nat /\ DOMAIN s.nodes = 1 .. Len(s.nodes)
      BY BoldNodes DEF BoldOK
    <3>2. I # {} /\ I \subseteq 1 .. Len(s.nodes)
      BY <2>2, <3>1
    <3> HIDE DEF I
    <3>3. QED
      BY <3>1, <3>2, LastOf
  <2>3. QED
    BY <2>1, <2>2
<1>3. CASE j # 0
  <2>1. j = BoLD!LatestAssertion(m, i, i) /\ m.map \in Seq(Entries(s))
    BY <1>3 DEF BoldRemembers
  <2>2. j \in DOMAIN m.map /\ BoLD!IsValidAssertionChain(known)
    BY <1>3, <2>1, LastAssertion
  <2>3. m.map[j] \in Entries(s)
    BY <2>1, <2>2, InSeq
  <2>4. m.map[j].hash \in Nat
    BY <2>3 DEF Entries, KnownEntry
  <2> HIDE DEF j
  <2>5. known \in Seq(Entries(s))
    BY <2>4, ChainKnown DEF EntryChain
  <2>6. 1 \in DOMAIN known
    <3>1. Len(known) >= 2
      BY <2>2 DEF BoLD!IsValidAssertionChain
    <3> HIDE DEF known
    <3>2. DOMAIN known = 1 .. Len(known) /\ Len(known) \in Nat
      BY <2>5, InSeq
    <3>3. QED
      BY <3>1, <3>2
  <2> HIDE DEF known, made
  <2>7. found = [k \in DOMAIN known |-> known[k].hash]
    BY <1>1, <1>3
  <2>8. 1 \in DOMAIN found
    BY <2>6, <2>7
  <2> HIDE DEF found
  <2>9. found # << >>
    BY <2>8
  <2>10. QED
    BY <2>9 DEF BoLD!FetchCommit, Fetched, found
<1>4. CASE j = 0 /\ made # 0
  <2> HIDE DEF made, j, known
  <2>1. found = <<s.nodes[made].parent, made>>
    BY <1>1, <1>4
  <2> HIDE DEF found
  <2>2. found # << >>
    BY <2>1
  <2>3. QED
    BY <2>2 DEF BoLD!FetchCommit, Fetched, found
<1>5. QED
  BY <1>2, <1>3, <1>4

\* A guarded call leaves it unguarded only before the genesis.
LEMMA GuardedIs ==
    ASSUME NEW x, ~x.fails, NEW view, NEW s, NEW m, NEW n \in BoLD!Guarded(x, view, s, m)
    PROVE  BoLD!Unfinalized(x) => n.guarded \/ BoLD!LatestConfirmed(s, view.now - x.minAge) = 0
<1>1. \/ n = m /\ (m.guarded \/ ~BoLD!Unfinalized(x) \/ BoLD!LatestConfirmed(s, view.now - x.minAge) = 0)
      \/ \E last, map : n = [lastBlock |-> last, guarded |-> TRUE, map |-> map]
  BY Zenon DEF BoLD!Guarded
<1>2. QED
  BY <1>1

\* Every assertion that is usable: that stands by the last block read.
LEMMA BoldUsable ==
    ASSUME NEW x, x.minAge \in Nat, NEW view, view.now \in Nat,
           NEW s, BoldOK(s), BoldLinked(s), LogLinked(s), InLine(s),
           NEW m, BoldRemembers(s, m), Reads(x, view, s, m),
           BoLD!Unfinalized(x) => m.guarded \/ BoLD!LatestConfirmed(s, view.now - x.minAge) = 0,
           NEW i \in BoLD!Usable(x, s, m)
    PROVE  Fetched(BoLD!FetchCommit(x, s, m, i), i)
<1> DEFINE B == IF BoLD!Unfinalized(x) THEN m.lastBlock ELSE s.now
<1>1. PICK a \in DOMAIN s.nodes :
            /\ i = s.nodes[a].made /\ a # 1 /\ s.nodes[a].made <= B /\ BoLD!Standing(s, B, a)
            /\ BoLD!Unfinalized(x) \/ s.nodes[a].status = "confirmed"
  BY DEF BoLD!Usable, BoLD!Hashes
<1> HIDE DEF B
<1>2. /\ DOMAIN s.nodes = 1 .. Len(s.nodes) /\ Len(s.nodes) \in Nat
      /\ \A k \in DOMAIN s.log : s.log[k].block \in Nat
      /\ i \in Nat /\ s.nodes[a].parent # 0
  BY <1>1, BoldNodes DEF BoldOK, BoldNode, BoldEvent, InLine
<1>3. s.nodes[a].finished
  BY <1>1, Zenon DEF BoLD!Standing
<1>4. CASE ~BoLD!Unfinalized(x)
  BY <1>1, <1>2, <1>3, <1>4, AChain
<1>5. CASE BoLD!Unfinalized(x)
  <2>1. B = m.lastBlock
    BY <1>5 DEF B
  <2>2. B # -1
    BY <1>1, <1>2
  <2>3. PICK k \in DOMAIN s.log : s.log[k].name = "confirmed" /\ s.log[k].block <= B
    BY <2>1, <2>2 DEF Reads
  <2>4. B \in Nat /\ B + x.minAge <= view.now
    BY <2>1, <2>2 DEF Reads
  <2>5. m.guarded
    <3>1. s.log[k].block <= view.now - x.minAge
      BY <1>2, <2>3, <2>4
    <3>2. BoLD!LatestConfirmed(s, view.now - x.minAge) # 0
      BY <2>3, <3>1, LatestIs
    <3>3. QED
      BY <1>5, <3>2
  <2>6. CASE ConfirmedAt(s, B, a)
    <3>1. s.nodes[a].status = "confirmed"
      BY <2>6 DEF ConfirmedAt, BoldLinked, EventLinked
    <3>2. QED
      BY <1>1, <1>2, <1>3, <2>5, <3>1, AChain
  <2>7. CASE ~ConfirmedAt(s, B, a)
    <3>1. a \in OldAt(s, B) /\ a \in Nat
      BY <1>1, <1>2 DEF OldAt
    <3>2. PICK last \in OldAt(s, B) : TrueOf(s, m, OldAt(s, B), last)
      BY <2>1, <2>4, ReadsTrue
    <3>3. PICK stands : stands[a] /\ StandsBy(s, B, a, stands)
      BY <1>1, StandingIs, Zenon DEF StandsBy
    <3>4. PICK walk : BoLD!UnfinalizedAssertionChain(m, a) = walk[a] /\ Walks(m, a, walk)
      BY <3>1, ChainWalks
    <3>5. Sound(s, m, a, walk[a]) /\ BoLD!Known(m.map, a) # {}
      BY <2>1, <2>4, <2>7, <3>1, <3>2, <3>3, <3>4, StandingKnown
    <3>6. BoLD!Known(m.map, a) # {}
      BY <3>5
    <3>7. PICK j \in DOMAIN m.map : m.map[j] = KnownAt(m, a) /\ m.map[j] \in Entries(s) /\ m.map[j].hash = a
      BY <3>6, KnownThere
    <3>8. m.map[j] = KnownAt(m, a)
      BY <3>7
    <3>9. m.map[j].hash = a /\ m.map[j].created = i /\ m.map[j].finished
      BY <1>1, <1>3, <3>7 DEF Entries, EntrySays
    <3>10. PICK q : q = BoLD!UnfinalizedAssertionChain(m, a)
      OBVIOUS
    <3>11. Sound(s, m, a, q)
      BY <3>4, <3>5, <3>10
    <3>12. BoLD!IsValidAssertionChain(q)
      BY <3>9, <3>11, <3>8 DEF Sound, BoLD!IsValidAssertionChain
    <3>13. BoLD!LatestAssertion(m, i, i) # 0
      <4>1. m.map \in Seq(Entries(s))
        BY DEF BoldRemembers
      <4>2. i <= m.map[j].created /\ m.map[j].created <= i
        BY <1>2, <3>9
      <4>3. BoLD!IsValidAssertionChain(BoLD!UnfinalizedAssertionChain(m, m.map[j].hash))
        BY <3>9, <3>10, <3>12
      <4>4. QED
        BY <4>1, <4>2, <4>3, AnAssertion
    <3>14. QED
      BY <1>2, <1>5, <2>5, <3>13, AChain
  <2>8. QED
    BY <2>6, <2>7
<1>6. QED
  BY <1>4, <1>5

-----------------------------------------------------------------------------
\* What more holds of the order of a chain.
ChainOrdered(x, s) ==
    /\ x.rollup = "reverse" => ReverseOrdered(s)
    /\ x.rollup = "unchecked" => UncheckedOrdered(s)
    /\ x.rollup = "updates" => UpdatesOrdered(s)
    /\ x.rollup = "bold" => InLine(s)

\* A chain starts in order,
LEMMA OrderedStart ==
    ASSUME NEW x
    PROVE  ChainOrdered(x, Start(x))
<1>1. ASSUME x.rollup = "reverse" PROVE ReverseOrdered(Start(x))
  <2>1. Start(x).l2 = <<1>>
    BY <1>1 DEF Start, Reverse!Start
  <2>2. QED
    BY <2>1 DEF ReverseOrdered
<1>2. ASSUME x.rollup = "unchecked" PROVE UncheckedOrdered(Start(x))
  <2>1. Start(x).times = <<1>>
    BY <1>2 DEF Start, Unchecked!Start
  <2>2. QED
    BY <2>1 DEF UncheckedOrdered
<1>3. ASSUME x.rollup = "updates" PROVE UpdatesOrdered(Start(x))
  <2>1. Start(x).updates = << >>
    BY <1>3 DEF Start, Updates!Start
  <2>2. QED
    BY <2>1 DEF UpdatesOrdered
<1>4. ASSUME x.rollup = "bold" PROVE InLine(Start(x))
  <2>1. Start(x) = BoLD!Start(x)
    BY <1>4 DEF Start
  <2>2. QED
    BY <2>1, LineStarts
<1>5. QED
  BY <1>1, <1>2, <1>3, <1>4 DEF ChainOrdered

\* a move of the chain keeps the order,
LEMMA OrderedMoves ==
    ASSUME NEW x, IsSetting(x), NEW s, ChainOK(x, s), ChainLinked(x, s), ChainOrdered(x, s),
           x.rollup = "bold" => LogLinked(s), NEW t \in Moves(x, s)
    PROVE  ChainOrdered(x, t)
<1>1. CASE x.rollup = "reverse"
  <2>1. t \in Reverse!Moves(x, s) /\ s = [l2 |-> s.l2] /\ ReverseOK(s) /\ ReverseOrdered(s)
    BY <1>1 DEF Moves, ChainOK, ChainOrdered
  <2>2. ReverseOrdered(t)
    BY ONLY <2>1, ReverseOrder
  <2>3. QED
    BY <1>1, <2>2 DEF ChainOrdered
<1>2. CASE x.rollup = "unchecked"
  <2>1. t \in Unchecked!Moves(x, s) /\ UncheckedOK(s) /\ UncheckedLinked(s) /\ UncheckedOrdered(s)
    BY <1>2 DEF Moves, ChainOK, ChainLinked, ChainOrdered
  <2>2. UncheckedOrdered(t)
    BY ONLY <2>1, UncheckedOrder
  <2>3. QED
    BY <1>2, <2>2 DEF ChainOrdered
<1>3. CASE x.rollup = "updates"
  <2>1. t \in Updates!Moves(x, s) /\ UpdatesOK(s) /\ UpdatesOrdered(s) /\ x.max \in Nat
    BY <1>3 DEF Moves, ChainOK, ChainOrdered, IsSetting
  <2>2. UpdatesOrdered(t)
    BY ONLY <2>1, UpdatesOrder
  <2>3. QED
    BY <1>3, <2>2 DEF ChainOrdered
<1>4. CASE x.rollup = "bold"
  <2>1. /\ t \in BoLD!Moves(x, s) /\ BoldOK(s) /\ BoldLinked(s) /\ LogLinked(s) /\ InLine(s)
        /\ x.finishes \subseteq BOOLEAN
    BY <1>4 DEF Moves, ChainOK, ChainLinked, ChainOrdered, IsSetting
  <2>2. InLine(t)
    BY ONLY <2>1, LineMoves
  <2>3. QED
    BY <1>4, <2>2 DEF ChainOrdered
<1>5. CASE x.rollup \notin {"reverse", "unchecked", "updates", "bold"}
  BY <1>5 DEF ChainOrdered
<1>6. QED
  BY <1>1, <1>2, <1>3, <1>4, <1>5

\* and so does time.
LEMMA OrderedTicks ==
    ASSUME NEW x, NEW s, ChainOK(x, s), ChainOrdered(x, s), "now" \in DOMAIN s, NEW t, t = [s EXCEPT !.now = @ + 1]
    PROVE  ChainOrdered(x, t)
<1>1. CASE x.rollup = "reverse"
  <2>1. s = [l2 |-> s.l2]
    BY <1>1 DEF ChainOK
  <2>2. QED
    BY ONLY "now" \in DOMAIN s, <2>1
<1>2. CASE x.rollup = "unchecked"
  <2>1. s = [now |-> s.now, times |-> s.times]
    BY <1>2 DEF ChainOK, UncheckedOK
  <2>2. t.times = s.times
    BY <2>1
  <2>3. QED
    BY <1>2, <2>2 DEF ChainOrdered, UncheckedOrdered
<1>3. CASE x.rollup = "updates"
  <2>1. UpdatesOK(s) /\ UpdatesOrdered(s)
    BY <1>3 DEF ChainOK, ChainOrdered
  <2>2. t.updates = s.updates /\ t.now = s.now + 1
    BY <2>1 DEF UpdatesOK
  <2>3. s.now \in Nat /\ \A k \in DOMAIN s.updates : s.updates[k].block \in Nat
    BY <2>1, UpdatesTyped
  <2>4. UpdatesOrdered(t)
    BY ONLY <2>1, <2>2, <2>3 DEF UpdatesOrdered
  <2>5. QED
    BY <1>3, <2>4 DEF ChainOrdered
<1>4. CASE x.rollup = "bold"
  <2>1. BoldOK(s) /\ InLine(s)
    BY <1>4 DEF ChainOK, ChainOrdered
  <2>2. InLine(t)
    BY ONLY <2>1, t = [s EXCEPT !.now = @ + 1], LineTicks
  <2>3. QED
    BY <1>4, <2>2 DEF ChainOrdered
<1>5. CASE x.rollup \notin {"reverse", "unchecked", "updates", "bold"}
  BY <1>5 DEF ChainOrdered
<1>6. QED
  BY <1>1, <1>2, <1>3, <1>4, <1>5

\* Of every usable index a commit is made, whatever rollup it is.
LEMMA UsableFetched ==
    ASSUME NEW x, IsSetting(x), x.rollup # "shnarfs", x.rollup = "bold" => ~x.fails,
           NEW view, x.rollup = "bold" => view.now \in Nat,
           NEW s, ChainOK(x, s), ChainLinked(x, s), ChainOrdered(x, s),
           x.rollup = "bold" => LogLinked(s),
           NEW m0, MemoryLinked(x, s, m0), x.rollup = "bold" => Reads(x, view, s, m0),
           NEW m \in Remembered(x, view, s, m0), NEW i \in Usable(x, s, m)
    PROVE  FetchCommit(x, s, m, i) # NoCommit
<1>0. x.max \in Nat
  BY DEF IsSetting
<1>1. SUFFICES Fetched(MadeCommit(x, s, m, i), i)
  BY DEF FetchCommit, CommitAt, Fetched, NoCommit, NoIndex
<1>2. CASE x.rollup = "outputs"
  <2>1. i \in Outputs!Usable(x, s) /\ OutputsOK(s) /\ MadeCommit(x, s, m, i) = Outputs!FetchCommit(x, s, i)
    BY <1>2 DEF Usable, ChainOK, MadeCommit
  <2>2. QED
    BY ONLY <2>1, OutputsUsable
<1>3. CASE x.rollup = "games"
  <2>1. /\ i \in Games!Usable(x, s) /\ GamesOK(s) /\ GamesLinked(s)
        /\ MadeCommit(x, s, m, i) = Games!FetchCommit(x, s, i)
    BY <1>3 DEF Usable, ChainOK, ChainLinked, MadeCommit
  <2>2. QED
    BY ONLY <2>1, GamesUsable
<1>4. CASE x.rollup = "reverse"
  <2>1. /\ i \in Reverse!Usable(x, s) /\ ReverseOK(s) /\ ReverseOrdered(s) /\ x.depth \in Nat
        /\ MadeCommit(x, s, m, i) = Reverse!FetchCommit(x, s, i)
    BY <1>4 DEF Usable, ChainOK, ChainOrdered, IsSetting, MadeCommit
  <2>2. QED
    BY ONLY <1>0, <2>1, ReverseUsable
<1>5. CASE x.rollup = "nitro"
  <2>1. i \in Nitro!Usable(x, s) /\ NitroOK(s) /\ MadeCommit(x, s, m, i) = Nitro!FetchCommit(x, s, i)
    BY <1>5 DEF Usable, ChainOK, MadeCommit
  <2>2. QED
    BY ONLY <2>1, NitroUsable
<1>6. CASE x.rollup = "double"
  <2>1. /\ i \in Double!Usable(x, s) /\ DoubleOK(x, s) /\ x.minAge \in Nat
        /\ MadeCommit(x, s, m, i) = Double!FetchCommit(x, s, i)
    BY <1>6 DEF Usable, ChainOK, IsSetting, MadeCommit
  <2>2. QED
    BY ONLY <2>1, DoubleUsable
<1>7. CASE x.rollup = "bold"
  <2>1. /\ i \in BoLD!Usable(x, s, m) /\ m \in BoLD!Guarded(x, view, s, m0)
        /\ MadeCommit(x, s, m, i) = BoLD!FetchCommit(x, s, m, i)
    BY <1>7 DEF Usable, Remembered, MadeCommit
  <2>2. /\ BoldOK(s) /\ BoldLinked(s) /\ LogLinked(s) /\ InLine(s) /\ BoldRemembers(s, m0) /\ Reads(x, view, s, m0)
        /\ x.minAge \in Nat /\ ~x.fails /\ view.now \in Nat
    BY <1>7 DEF ChainOK, ChainLinked, ChainOrdered, MemoryLinked, IsSetting
  <2>3. BoldRemembers(s, m)
    BY ONLY <2>1, <2>2, BoldGuarded
  <2>4. Reads(x, view, s, m)
    BY ONLY <2>1, <2>2, ReadsGuarded
  <2>5. BoLD!Unfinalized(x) => m.guarded \/ BoLD!LatestConfirmed(s, view.now - x.minAge) = 0
    BY ONLY <2>1, <2>2, GuardedIs
  <2>6. Fetched(BoLD!FetchCommit(x, s, m, i), i)
    BY ONLY <2>1, <2>2, <2>3, <2>4, <2>5, BoldUsable
  <2>7. QED
    BY <2>1, <2>6
<1>8. CASE x.rollup = "trusted"
  BY <1>8 DEF Usable
<1>9. CASE x.rollup = "unchecked"
  <2>1. /\ i \in Unchecked!Usable(x, s) /\ UncheckedLinked(s) /\ UncheckedOrdered(s) /\ x.depth \in Nat \ {0}
        /\ MadeCommit(x, s, m, i) = Unchecked!FetchCommit(x, s, i)
    BY <1>9 DEF Usable, ChainLinked, ChainOrdered, IsSetting, MadeCommit
  <2>2. QED
    BY ONLY <2>1, UncheckedUsable
<1>10. CASE x.rollup = "updates"
  <2>1. /\ i \in Updates!Usable(x, s) /\ UpdatesOK(s) /\ UpdatesOrdered(s) /\ x.step \in Nat \ {0}
        /\ MadeCommit(x, s, m, i) = Updates!FetchCommit(x, s, i)
    BY <1>10 DEF Usable, ChainOK, ChainOrdered, IsSetting, MadeCommit
  <2>2. QED
    BY ONLY <2>1, UpdatesUsable
<1>11. CASE x.rollup = "interactive"
  <2>1. i \in Interactive!Usable(x, s) /\ InteractiveOK(s) /\ MadeCommit(x, s, m, i) = Interactive!FetchCommit(x, s, i)
    BY <1>11 DEF Usable, ChainOK, MadeCommit
  <2>2. QED
    BY ONLY <1>0, <2>1, OthersUsable
<1>12. CASE x.rollup = "self"
  <2>1. i \in Self!Usable(x, s) /\ s.now \in Nat /\ MadeCommit(x, s, m, i) = Self!FetchCommit(x, s, i)
    BY <1>12 DEF Usable, ChainOK, MadeCommit
  <2>2. QED
    BY ONLY <1>0, <2>1, OthersUsable
<1>13. CASE x.rollup = "linea"
  <2>1. i \in Linea!Usable(x, s) /\ LineaOK(s) /\ MadeCommit(x, s, m, i) = Linea!FetchCommit(x, s, i)
    BY <1>13 DEF Usable, ChainOK, MadeCommit
  <2>2. QED
    BY ONLY <1>0, <2>1, OthersUsable
<1>14. CASE x.rollup = "batches"
  <2>1. i \in Batches!Usable(x, s) /\ MadeCommit(x, s, m, i) = Batches!FetchCommit(x, s, i)
    BY <1>14 DEF Usable, MadeCommit
  <2>2. QED
    BY ONLY <1>0, <2>1, OthersUsable
<1>15. CASE x.rollup = "taiko"
  <2>1. i \in Taiko!Usable(x, s) /\ TaikoOK(x, s) /\ MadeCommit(x, s, m, i) = Taiko!FetchCommit(x, s, i)
    BY <1>15 DEF Usable, ChainOK, MadeCommit
  <2>2. QED
    BY ONLY <1>0, <2>1, OthersUsable
<1>16. CASE x.rollup = "checkpoints"
  <2>1. i \in Checkpoint!Usable(x, s) /\ CheckpointOK(s) /\ MadeCommit(x, s, m, i) = Checkpoint!FetchCommit(x, s, i)
    BY <1>16 DEF Usable, ChainOK, MadeCommit
  <2>2. QED
    BY ONLY <1>0, <2>1, OthersUsable
<1>17. QED
  BY <1>2, <1>3, <1>4, <1>5, <1>6, <1>7, <1>8, <1>9, <1>10, <1>11, <1>12, <1>13, <1>14, <1>15, <1>16 DEF IsSetting

\* The chain is in order.
Ordered == ChainOrdered(r, chain)

\* It is at first,
LEMMA OrderedInit == Init => Ordered
  BY OrderedStart DEF Init, Ordered

\* and every step keeps it: only a step of the chain could disturb it.
LEMMA OrderedNext == Inv /\ Linked /\ LogRead /\ Ordered /\ [Next]_vars => Ordered'
<1> SUFFICES ASSUME Inv, Linked, LogRead, Ordered, [Next]_vars PROVE Ordered'
  OBVIOUS
<1>1. /\ IsSetting(r) /\ ChainOK(r, chain) /\ ChainLinked(r, chain) /\ ChainOrdered(r, chain)
      /\ r.rollup = "bold" => LogLinked(chain)
  BY SettingsAssumption DEF Inv, Linked, LogRead, Ordered
<1>2. CASE Advance
  <2>1. chain' \in Moves(r, chain) \cup Ticks(chain) /\ r' = r
    BY <1>2 DEF Advance
  <2>2. CASE chain' \in Moves(r, chain)
    <3>1. ChainOrdered(r, chain')
      BY <1>1, <2>2, OrderedMoves
    <3>2. QED
      BY <2>1, <3>1 DEF Ordered
  <2>3. CASE chain' \in Ticks(chain)
    <3>1. "now" \in DOMAIN chain /\ chain' = [chain EXCEPT !.now = @ + 1]
      BY <2>3 DEF Ticks
    <3>2. ChainOrdered(r, chain')
      BY <1>1, <3>1, OrderedTicks
    <3>3. QED
      BY <2>1, <3>2 DEF Ordered
  <2>4. QED
    BY <2>1, <2>2, <2>3
<1>3. CASE Finalize \/ Forget \/ Ask \/ FindLatest \/ Fetch \/ FindParent \/ TooDeep \/ Verify \/ UNCHANGED vars
  <2>1. UNCHANGED <<r, chain>>
    BY <1>3 DEF Finalize, Forget, Ask, FindLatest, Fetch, FindParent, TooDeep, Verify, vars
  <2>2. QED
    BY <1>1, <2>1 DEF Ordered
<1>4. QED
  BY <1>2, <1>3 DEF Next

\* So what is usable is fetched.
LEMMA OrderedUsable == Inv /\ Linked /\ LogRead /\ Ordered => UsableIsFetched
<1> SUFFICES ASSUME Inv, Linked, LogRead, Ordered, r.rollup # "shnarfs", ~Fails,
                    NEW m \in Remembered(r, final, chain, memory), NEW i \in Usable(r, chain, m)
             PROVE  FetchCommit(r, chain, m, i) # NoCommit
  BY DEF UsableIsFetched
<1>1. /\ IsSetting(r) /\ ChainOK(r, chain) /\ ChainLinked(r, chain) /\ MemoryLinked(r, chain, memory)
      /\ ChainOrdered(r, chain)
  BY SettingsAssumption DEF Inv, Linked, Ordered
<1>2. /\ r.rollup = "bold" => ~r.fails
      /\ r.rollup = "bold" => LogLinked(chain)
      /\ r.rollup = "bold" => final.now \in Nat
      /\ r.rollup = "bold" => Reads(r, final, chain, memory)
  BY DEF Fails, LogRead
<1>3. QED
  BY <1>1, <1>2, UsableFetched

\* For all settings, of every index that is usable while a question is open the
\* gateway makes a commit: the searches for the block, the update, the node or
\* the chain of assertions that the commit needs miss none that there is.
THEOREM UsableAreFetched == Spec => []UsableIsFetched
<1>1. Init => Linked /\ LogRead /\ Ordered
  BY LinkedInit, LogReadInit, OrderedInit
<1>2. Inv /\ (Linked /\ LogRead /\ Ordered) /\ [Next]_vars => (Linked /\ LogRead /\ Ordered)'
  BY LinkedNext, LogReadNext, OrderedNext
<1>3. Inv /\ (Linked /\ LogRead /\ Ordered) => UsableIsFetched
  BY OrderedUsable
<1>4. QED
  BY InvHolds, <1>1, <1>2, <1>3, PTL DEF Spec
=============================================================================
