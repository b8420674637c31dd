---------------------------- MODULE RollupsProof ----------------------------
(***************************************************************************)
(* Lemmas about the rollups, for all settings.  Of each rollup there is    *)
(* said what always holds of its chain (...OK), what the chain keeps as it *)
(* goes on (...Kept), that its steps and time keep both, and that what its *)
(* verifier accepts for a context made of an earlier chain is as promised  *)
(* and within the window (...Accepts).  The last part says the same of the *)
(* operators of Rollups, which choose among them.                          *)
(*                                                                         *)
(* The finders search by recursion.  Recursion and Induction, below, say   *)
(* of every recursion that goes down in some rank that it is what its rule *)
(* says, and that what its rule passes on it has.                          *)
(***************************************************************************)
EXTENDS Rollups, SequenceTheorems, WellFoundedInduction, TLAPS

-----------------------------------------------------------------------------
(* ReverseOP.tla: the blocks of the first chain the second one knows of.   *)

\* Block n of the second chain knows of block l2[n + 1] of the first.
ReverseOK(s) == s.l2 \in Seq(Nat) /\ Len(s.l2) > 0

\* A new block of the second chain knows of a block of the first.
LEMMA ReverseStep ==
    ASSUME NEW r, NEW s, ReverseOK(s), NEW t \in Reverse!Moves(r, s)
    PROVE  ReverseOK(t)
<1>1. PICK n : t = [s EXCEPT !.l2 = Append(@, n)]
               /\ n \in {Reverse!L1Number(s, Reverse!BlockNumber(s)),
                         Reverse!L1Number(s, Reverse!BlockNumber(s)) + 1}
  BY DEF Reverse!Moves
<1>2. s.l2 \in Seq(Nat) /\ s.l2[Len(s.l2)] \in Nat
  BY DEF ReverseOK
<1>3. n \in Nat
  BY <1>1, <1>2 DEF Reverse!L1Number, Reverse!BlockNumber
<1>4. QED
  BY <1>1, <1>2, <1>3 DEF ReverseOK

\* Accepted is a block of the first chain that a block of the second knows of,
\* at most the window before the one asked about.
LEMMA ReverseAccepts ==
    ASSUME NEW r, r.window \in Nat, r.max \in Nat, NEW a, ReverseOK(a), NEW s, ReverseOK(s),
           NEW c, c = Reverse!GetLatestContext(r, a), NEW p \in Reverse!Witnesses(r, s),
           Reverse!GetStorageValues(r, s, c, p) = "ok"
    PROVE  Reverse!Promised(r, a, s, c, p) /\ Reverse!Recent(r, a, s, c, p)
<1>1. c \in Nat /\ p.l1Block \in Nat /\ p.l2Block \in Nat
  BY DEF Reverse!GetLatestContext, Reverse!L1Number, Reverse!BlockNumber, ReverseOK, Reverse!Witnesses
<1>2. /\ Reverse!HasBlockHash(r, s, p.l2Block) /\ Reverse!L1Number(s, p.l2Block) = p.l1Block
      /\ Reverse!CheckWindow(r, c, p.l1Block) = "ok"
  BY DEF Reverse!GetStorageValues
<1>3. p.l2Block \in 0 .. Reverse!BlockNumber(s)
  BY <1>1, <1>2 DEF Reverse!HasBlockHash, Reverse!BlockNumber, ReverseOK
<1>4. QED
  BY <1>1, <1>2, <1>3 DEF Reverse!CheckWindow, Reverse!Promised, Reverse!Recent

-----------------------------------------------------------------------------
(* TrustedCommits.tla *)

\* What is signed is signed with the time at which it is: the root stands for
\* that time.
TrustedOK(s) == s.now \in Nat
SignedOK(m) == \A x \in m.signed : x.signedAt \in Nat /\ x.root = x.signedAt

\* #signCommit() signs the present, and what is in the memory is kept or
\* dropped.
LEMMA TrustedSigns ==
    ASSUME NEW r, NEW s, TrustedOK(s), NEW m, m = [latest |-> m.latest, count |-> m.count, signed |-> m.signed],
           SignedOK(m)
    PROVE  SignedOK(Trusted!Latest(r, s, m)) /\ SignedOK(Trusted!Expired(m))
  BY DEF Trusted!Latest, Trusted!Expired, SignedOK, TrustedOK

\* Accepted is a signature of the gateway, signed at a time within the window on
\* either side.
LEMMA TrustedAccepts ==
    ASSUME NEW r, r.window \in Nat, NEW a, TrustedOK(a), NEW s, NEW m, SignedOK(m),
           NEW c, c = Trusted!GetLatestContext(r, a), NEW p,
           Trusted!GetStorageValues(r, s, m, c, p) = "ok"
    PROVE  Trusted!Promised(r, m, a, s, c, p) /\ Trusted!Recent(r, a, s, c, p)
<1>1. c \in Nat
  BY DEF Trusted!GetLatestContext, TrustedOK
<1>2. PICK dt : dt = IF p.signedAt > c THEN p.signedAt - c ELSE c - p.signedAt
  OBVIOUS
<1>3. p \in m.signed /\ ~(dt > r.window)
  BY <1>2 DEF Trusted!GetStorageValues
<1>4. p.signedAt \in Nat /\ p.root = p.signedAt
  BY <1>3 DEF SignedOK
<1>5. QED
  BY <1>1, <1>2, <1>3, <1>4 DEF Trusted!Promised, Trusted!Recent

-----------------------------------------------------------------------------
(* UncheckedCommits.tla *)

\* Accepted is a time that is not after the one asked about and at most the
\* window before it.
LEMMA UncheckedAccepts ==
    ASSUME NEW r, r.window \in Nat, NEW a, a.now \in Nat, NEW s, s.now \in Nat,
           NEW c, c = Unchecked!GetLatestContext(r, a), NEW p \in Unchecked!Witnesses(r, s),
           Unchecked!GetStorageValues(r, s, c, p) = "ok"
    PROVE  Unchecked!Promised(r, a, s, c, p) /\ Unchecked!Recent(r, a, s, c, p)
<1>1. c \in Nat /\ p.t \in Nat
  BY DEF Unchecked!GetLatestContext, Unchecked!Witnesses
<1>2. QED
  BY <1>1 DEF Unchecked!GetStorageValues, Unchecked!CheckWindow, Unchecked!Promised, Unchecked!Recent

-----------------------------------------------------------------------------
(* EthSelf.tla *)

\* Accepted is a block that was over when it was asked, at most the window
\* before.
LEMMA SelfAccepts ==
    ASSUME NEW r, r.window \in Nat, r.max \in Nat, NEW a, a.now \in Nat, NEW s,
           NEW c, c = Self!GetLatestContext(r, a), NEW p \in Self!Witnesses(r, s),
           Self!GetStorageValues(r, s, c, p) = "ok"
    PROVE  Self!Promised(r, a, s, c, p) /\ Self!Recent(r, a, s, c, p)
<1>1. c \in Int /\ c = a.now - 1 /\ p.block \in Nat
  BY DEF Self!GetLatestContext, Self!Witnesses
<1>2. Self!CheckWindow(r, c, p.block) = "ok"
  BY DEF Self!GetStorageValues
<1>3. QED
  BY <1>1, <1>2 DEF Self!CheckWindow, Self!Promised, Self!Recent

-----------------------------------------------------------------------------
(* InteractiveCommits.tla: what is set stays as it is. *)

\* Commits are set at indices up to the latest.
InteractiveOK(s) ==
    /\ s = [latest |-> s.latest, commits |-> s.commits]
    /\ s.latest \in Nat /\ \A i \in DOMAIN s.commits : i \in 1 .. s.latest

\* What was set for an index up to the latest is never set again.
InteractiveKept(a, s) ==
    /\ a.latest <= s.latest
    /\ \A i \in Nat : i <= a.latest => Interactive!CommitOf(a, i) = Interactive!CommitOf(s, i)

\* A commit is set once, above those that are there.
LEMMA InteractiveStep ==
    ASSUME NEW r, r.max \in Nat, NEW s, InteractiveOK(s), NEW t \in Interactive!Moves(r, s)
    PROVE  InteractiveOK(t) /\ InteractiveKept(s, t)
<1>1. PICK index, right : /\ index \in s.latest + 1 .. r.max
                          /\ t = Interactive!SetStateRoot(s, index, right)
  BY DEF Interactive!Moves
<1>2. /\ t.latest = index /\ DOMAIN t.commits = 1 .. index
      /\ \A i \in 1 .. index : i # index => t.commits[i] = Interactive!CommitOf(s, i)
      /\ t = [latest |-> t.latest, commits |-> t.commits]
  BY <1>1 DEF Interactive!SetStateRoot
<1>3. s.latest \in Nat /\ index \in Nat /\ s.latest < index
  BY <1>1 DEF InteractiveOK
<1>4. ASSUME NEW i \in Nat, i <= s.latest PROVE Interactive!CommitOf(s, i) = Interactive!CommitOf(t, i)
  <2>1. CASE i = 0
    BY <1>2, <2>1 DEF Interactive!CommitOf, InteractiveOK
  <2>2. CASE i # 0
    <3>1. i \in 1 .. index /\ i # index
      BY <1>3, <1>4, <2>2
    <3>2. QED
      BY <1>2, <3>1 DEF Interactive!CommitOf
  <2>3. QED
    BY <2>1, <2>2
<1>5. QED
  BY <1>2, <1>3, <1>4 DEF InteractiveOK, InteractiveKept

\* Accepted is what was set for the index, then as now, at most the window back.
LEMMA InteractiveAccepts ==
    ASSUME NEW r, r.window \in Nat, r.max \in Nat, NEW a, InteractiveOK(a), NEW s, InteractiveKept(a, s),
           NEW c, c = Interactive!GetLatestContext(r, a), NEW p \in Interactive!Witnesses(r, s),
           Interactive!GetStorageValues(r, s, c, p) = "ok"
    PROVE  Interactive!Promised(r, a, s, c, p) /\ Interactive!Recent(r, a, s, c, p)
<1>1. c \in Nat /\ c = a.latest /\ p.index \in Nat
  BY DEF Interactive!GetLatestContext, Interactive!Witnesses, InteractiveOK
<1>2. /\ Interactive!CheckWindow(r, c, p.index) = "ok"
      /\ Interactive!CommitOf(s, p.index).set /\ Interactive!CommitOf(s, p.index).right = p.right
  BY DEF Interactive!GetStorageValues
<1>3. p.index <= c /\ p.index + r.window >= c
  BY <1>1, <1>2 DEF Interactive!CheckWindow
<1>4. QED
  BY <1>1, <1>2, <1>3 DEF Interactive!Promised, Interactive!Recent, InteractiveKept

-----------------------------------------------------------------------------
\* Every set of numbers has a least one: the natural numbers are well founded.
LEMMA LeastOf ==
    ASSUME NEW T \in SUBSET Nat, T # {}
    PROVE  \E x \in T : \A y \in T : x <= y
<1> DEFINE R == OpToRel(<, Nat)
<1>1. IsWellFoundedOn(R, Nat)
  BY NatLessThanWellFounded
<1>2. R = {ss \in Nat \X Nat : ss[1] < ss[2]}
  BY DEF OpToRel
<1> HIDE DEF R
<1>3. \A x, y \in Nat : <<x, y>> \in R <=> x < y
  BY <1>2
<1>4. PICK x \in T : \A y \in T : ~ (<<y, x>> \in R)
  BY <1>1, WFMin
<1>5. \A y \in T : ~ (y < x)
  BY <1>3, <1>4
<1>6. QED
  BY <1>5

\* f and g are the same where the rank is less than n.
SameBelow(D, rank, n, f, g) == \A y \in D : rank[y] < n => f[y] = g[y]

\* G is a rule that says the value of a function at x by its values of a
\* lesser rank.
Rule(D, V, N, rank, G) ==
    /\ V # {} /\ N \in Nat /\ rank \in [D -> 0 .. N]
    /\ G \in [D -> [[D -> V] -> V]]
    /\ \A x \in D : \A f, g \in [D -> V] :
            SameBelow(D, rank, rank[x], f, g) => G[x][f] = G[x][g]

\* Every such rule is the rule of a function.
LEMMA Recursion ==
    ASSUME NEW D, NEW V, NEW N, NEW rank, NEW G, Rule(D, V, N, rank, G)
    PROVE  \E f \in [D -> V] : \A x \in D : f[x] = G[x][f]
<1>0. /\ V # {} /\ N \in Nat /\ rank \in [D -> 0 .. N]
      /\ G \in [D -> [[D -> V] -> V]]
      /\ \A x \in D : \A f, g \in [D -> V] :
            SameBelow(D, rank, rank[x], f, g) => G[x][f] = G[x][g]
  BY DEF Rule
<1> USE <1>0
<1> DEFINE Upto(f, n) == f \in [D -> V] /\ \A x \in D : rank[x] < n => f[x] = G[x][f]
           T == {n \in Nat : ~ \E f : Upto(f, n)}
<1>1. T = {}
  <2>1. SUFFICES ASSUME T # {} PROVE FALSE
    OBVIOUS
  <2>2. T \in SUBSET Nat
    OBVIOUS
  <2> HIDE DEF T
  <2>3. PICK n \in T : \A m \in T : n <= m
    BY <2>1, <2>2, LeastOf
  <2>4. n \in Nat /\ ~ \E f : Upto(f, n)
    BY <2>3 DEF T
  <2>5. n # 0
    <3>1. PICK v \in V : TRUE
      OBVIOUS
    <3>2. Upto([x \in D |-> v], 0)
      OBVIOUS
    <3>3. QED
      BY <2>4, <3>2
  <2>6. n - 1 \in Nat /\ n - 1 \notin T
    BY <2>2, <2>3, <2>5
  <2>7. PICK f : Upto(f, n - 1)
    BY <2>6 DEF T
  <2> DEFINE h == [x \in D |-> IF rank[x] = n - 1 THEN G[x][f] ELSE f[x]]
  <2>8. h \in [D -> V]
    BY <2>7
  <2>9. \A x \in D : h[x] = IF rank[x] = n - 1 THEN G[x][f] ELSE f[x]
    OBVIOUS
  <2> HIDE DEF h
  <2>10. ASSUME NEW x \in D, rank[x] < n PROVE h[x] = G[x][h]
    <3>1. rank[x] \in Nat
      OBVIOUS
    <3>2. SameBelow(D, rank, rank[x], f, h)
      <4> SUFFICES ASSUME NEW y \in D, rank[y] < rank[x] PROVE f[y] = h[y]
        BY DEF SameBelow
      <4>1. rank[y] \in Nat
        OBVIOUS
      <4>2. rank[y] # n - 1
        BY <2>4, <2>10, <3>1, <4>1
      <4>3. QED
        BY <2>9, <4>2
    <3>3. G[x][f] = G[x][h]
      BY <2>7, <2>8, <3>2
    <3>4. CASE rank[x] = n - 1
      BY <2>9, <3>3, <3>4
    <3>5. CASE rank[x] # n - 1
      <4>1. rank[x] < n - 1
        <5>1. \A i, j \in Nat : i < j /\ i # j - 1 => i < j - 1
          OBVIOUS
        <5>2. rank[x] < n
          BY <2>10
        <5>3. QED
          BY <2>4, <3>1, <3>5, <5>1, <5>2
      <4>2. f[x] = G[x][f]
        BY <2>7, <4>1
      <4>3. QED
        BY <2>9, <3>3, <3>5, <4>2
    <3>6. QED
      BY <3>4, <3>5
  <2>11. Upto(h, n)
    BY <2>8, <2>10
  <2>12. QED
    BY <2>4, <2>11
<1>2. N + 1 \notin T
  BY <1>1
<1>3. PICK f : Upto(f, N + 1)
  BY <1>2
<1>4. \A x \in D : rank[x] < N + 1
  OBVIOUS
<1>5. QED
  BY <1>3, <1>4

\* What holds at x if it holds where the rank is less holds everywhere.
Inductive(D, N, rank, S) ==
    /\ N \in Nat /\ rank \in [D -> 0 .. N]
    /\ \A x \in D : (\A y \in D : rank[y] < rank[x] => y \in S) => x \in S

\* What passes from all arguments of lesser rank to an argument holds of all.
LEMMA Induction ==
    ASSUME NEW D, NEW N, NEW rank, NEW S, Inductive(D, N, rank, S)
    PROVE  \A x \in D : x \in S
<1> USE DEF Inductive
<1> DEFINE T == {rank[x] : x \in D \ S}
<1>1. SUFFICES ASSUME NEW z \in D, z \notin S PROVE FALSE
  OBVIOUS
<1>2. T \in SUBSET Nat /\ rank[z] \in T
  BY <1>1
<1>3. \A y \in D : y \in S \/ rank[y] \in T
  OBVIOUS
<1>4. \A n \in T : \E x \in D : x \notin S /\ n = rank[x]
  OBVIOUS
<1> HIDE DEF T
<1>5. PICK n \in T : \A k \in T : n <= k
  BY <1>2, LeastOf
<1>6. PICK x \in D : x \notin S /\ n = rank[x]
  BY <1>4
<1>7. \A y \in D : rank[y] < rank[x] => y \in S
  <2> SUFFICES ASSUME NEW y \in D, rank[y] < rank[x], y \notin S PROVE FALSE
    OBVIOUS
  <2>1. rank[y] \in T /\ n <= rank[y] /\ rank[y] \in Nat /\ rank[x] \in Nat
    BY <1>3, <1>5
  <2>2. QED
    BY <1>6, <2>1
<1>8. QED
  BY <1>6, <1>7

\* What is in a sequence is of its kind.
LEMMA InSeq ==
    ASSUME NEW S, NEW q \in Seq(S)
    PROVE  Len(q) \in Nat /\ DOMAIN q = 1 .. Len(q) /\ \A k \in DOMAIN q : q[k] \in S
<1>1. Len(q) \in Nat /\ DOMAIN q = 1 .. Len(q)
  BY LenProperties
<1>2. ASSUME NEW k \in DOMAIN q PROVE q[k] \in S
  BY <1>1, <1>2, ElementOfSeq
<1>3. QED
  BY <1>1, <1>2

\* One more at its end.
LEMMA OneMore ==
    ASSUME NEW S, NEW q \in Seq(S), NEW x \in S
    PROVE  /\ Append(q, x) \in Seq(S) /\ Len(Append(q, x)) = Len(q) + 1
           /\ DOMAIN Append(q, x) = 1 .. Len(q) + 1 /\ Append(q, x)[Len(q) + 1] = x
           /\ \A k \in DOMAIN q : Append(q, x)[k] = q[k]
<1>1. Len(q) \in Nat /\ DOMAIN q = 1 .. Len(q)
  BY InSeq
<1>2. /\ Append(q, x) \in Seq(S) /\ Len(Append(q, x)) = Len(q) + 1
      /\ \A k \in 1 .. Len(q) : Append(q, x)[k] = q[k]
      /\ Append(q, x)[Len(q) + 1] = x
  BY AppendProperties
<1>3. QED
  BY <1>1, <1>2, InSeq

\* A finite set of numbers that is not empty has a greatest.
LEMMA GreatestOf ==
    ASSUME NEW n \in Nat, NEW S, S \subseteq 0 .. n, S # {}
    PROVE  \E x \in S : \A y \in S : y <= x
<1> DEFINE T == {k \in 0 .. n : \A y \in S : y <= k}
<1>1. n \in T
  OBVIOUS
<1>2. T \subseteq Nat
  OBVIOUS
<1> HIDE DEF T
<1>3. PICK k \in T : \A m \in T : k <= m
  BY <1>1, <1>2, LeastOf
<1>4. k \in S
  <2>1. SUFFICES ASSUME k \notin S PROVE FALSE
    OBVIOUS
  <2>2. k \in 0 .. n /\ \A y \in S : y <= k
    BY DEF T
  <2>3. PICK y \in S : TRUE
    OBVIOUS
  <2>4. k - 1 \in 0 .. n /\ \A z \in S : z <= k - 1
    BY <2>1, <2>2, <2>3
  <2>5. QED
    BY <1>3, <2>2, <2>4 DEF T
<1>5. QED
  BY <1>4 DEF T

-----------------------------------------------------------------------------
(* LineaCommits.tla: the finalizations go up, and those made stay. *)

\* L2 blocks are finalized in ascending order.
LineaOK(s) ==
    /\ s.finals \in Seq(Nat)
    /\ \A j, k \in DOMAIN s.finals : j < k => s.finals[j] < s.finals[k]

\* What was finalized stays, in its place.
LineaKept(a, s) ==
    Len(a.finals) <= Len(s.finals) /\ \A k \in DOMAIN a.finals : s.finals[k] = a.finals[k]

\* A finalization is of a block above the last one, and follows it.
LEMMA LineaStep ==
    ASSUME NEW r, r.max \in Nat, NEW s, LineaOK(s), s = [now |-> s.now, finals |-> s.finals, ready |-> s.ready],
           NEW t \in Linea!Moves(r, s)
    PROVE  /\ LineaOK(t) /\ LineaKept(s, t)
           /\ t = [now |-> t.now, finals |-> t.finals, ready |-> t.ready]
<1>0. s.finals \in Seq(Nat) /\ Len(s.finals) \in Nat /\ DOMAIN s.finals = 1 .. Len(s.finals)
  BY LenProperties DEF LineaOK
<1>1. CASE \E n \in Linea!CurrentL2BlockNumber(s) + 1 .. r.max : t = [s EXCEPT !.finals = Append(@, n)]
  <2>1. PICK n \in Linea!CurrentL2BlockNumber(s) + 1 .. r.max : t = [s EXCEPT !.finals = Append(@, n)]
    BY <1>1
  <2>2. t.finals = Append(s.finals, n)
    BY <2>1
  <2>3. s.finals # <<>> => Len(s.finals) \in DOMAIN s.finals /\ s.finals[Len(s.finals)] \in Nat
    BY <1>0
  <2>4. n \in Nat /\ (s.finals # <<>> => s.finals[Len(s.finals)] < n)
    BY <2>1, <2>3 DEF Linea!CurrentL2BlockNumber
  <2>5. /\ t.finals \in Seq(Nat) /\ Len(t.finals) = Len(s.finals) + 1
        /\ DOMAIN t.finals = 1 .. Len(s.finals) + 1 /\ t.finals[Len(s.finals) + 1] = n
        /\ \A k \in DOMAIN s.finals : t.finals[k] = s.finals[k]
    BY <1>0, <2>2, <2>4, AppendProperties, LenProperties
  <2>6. \A k \in DOMAIN s.finals : s.finals[k] < n
    <3> SUFFICES ASSUME NEW k \in DOMAIN s.finals PROVE s.finals[k] < n
      OBVIOUS
    <3>1. s.finals # <<>> /\ Len(s.finals) \in DOMAIN s.finals
      BY <1>0
    <3>2. k = Len(s.finals) \/ s.finals[k] < s.finals[Len(s.finals)]
      <4>1. k \in 1 .. Len(s.finals) /\ Len(s.finals) \in Nat
        BY <1>0
      <4>2. k = Len(s.finals) \/ k < Len(s.finals)
        BY ONLY <4>1
      <4>3. QED
        BY <3>1, <4>2 DEF LineaOK
    <3>3. s.finals[k] \in Nat
      BY <1>0
    <3>4. QED
      BY <2>3, <2>4, <3>1, <3>2, <3>3
  <2>7. \A j, k \in DOMAIN t.finals : j < k => t.finals[j] < t.finals[k]
    <3> SUFFICES ASSUME NEW j \in DOMAIN t.finals, NEW k \in DOMAIN t.finals, j < k
                 PROVE  t.finals[j] < t.finals[k]
      OBVIOUS
    <3>1. j \in DOMAIN s.finals
      BY <1>0, <2>5
    <3>2. CASE k = Len(s.finals) + 1
      BY <2>5, <2>6, <3>1, <3>2
    <3>3. CASE k # Len(s.finals) + 1
      <4>1. k \in DOMAIN s.finals
        BY <1>0, <2>5, <3>3
      <4>2. QED
        BY <2>5, <3>1, <4>1 DEF LineaOK
    <3>4. QED
      BY <3>2, <3>3
  <2>8. QED
    <3>1. LineaOK(t)
      BY <2>5, <2>7 DEF LineaOK
    <3>2. LineaKept(s, t)
      BY <1>0, <2>5 DEF LineaKept
    <3>3. QED
      BY <2>1, <3>1, <3>2
<1>2. CASE \E n \in s.ready + 1 .. r.max : t = [s EXCEPT !.ready = n]
  <2>0. PICK n : t = [s EXCEPT !.ready = n]
    BY <1>2
  <2>1. /\ t.finals = s.finals
        /\ t = [now |-> t.now, finals |-> t.finals, ready |-> t.ready]
    BY <2>0
  <2>2. Len(s.finals) <= Len(s.finals)
    BY ONLY <1>0
  <2>3. QED
    BY <2>1, <2>2 DEF LineaOK, LineaKept
<1>3. QED
  BY <1>1, <1>2 DEF Linea!Moves

\* Accepted is a block that was finalized when it was asked, at most the window
\* of blocks back.
LEMMA LineaAccepts ==
    ASSUME NEW r, r.window \in Nat, r.max \in Nat, NEW a, LineaOK(a), NEW s, LineaOK(s), LineaKept(a, s),
           NEW c, c = Linea!GetLatestContext(r, a), NEW p \in Linea!Witnesses(r, s),
           Linea!GetStorageValues(r, s, c, p) = "ok"
    PROVE  Linea!Promised(r, a, s, c, p) /\ Linea!Recent(r, a, s, c, p)
<1>1. /\ a.finals \in Seq(Nat) /\ Len(a.finals) \in Nat /\ DOMAIN a.finals = 1 .. Len(a.finals)
      /\ s.finals \in Seq(Nat) /\ Len(s.finals) \in Nat /\ DOMAIN s.finals = 1 .. Len(s.finals)
  BY LenProperties DEF LineaOK
<1>2. c \in Nat /\ p.index \in Nat
  BY <1>1 DEF Linea!GetLatestContext, Linea!CurrentL2BlockNumber, Linea!Witnesses
<1>3. Linea!CheckWindow(r, c, p.index) = "ok" /\ p.index \in Linea!StateRootHashes(s)
  BY DEF Linea!GetStorageValues
<1>4. p.index <= c /\ p.index + r.window >= c
  BY <1>2, <1>3 DEF Linea!CheckWindow
<1>5. p.index \in Linea!StateRootHashes(a)
  <2>1. CASE p.index = 0
    BY <2>1 DEF Linea!StateRootHashes
  <2>2. CASE p.index # 0
    <3>1. PICK k \in DOMAIN s.finals : p.index = s.finals[k]
      BY <1>3, <2>2 DEF Linea!StateRootHashes
    <3>2. a.finals # <<>> /\ c = a.finals[Len(a.finals)]
      BY <1>2, <1>4, <2>2 DEF Linea!GetLatestContext, Linea!CurrentL2BlockNumber
    <3>3. Len(a.finals) \in DOMAIN a.finals /\ Len(a.finals) \in DOMAIN s.finals /\ c = s.finals[Len(a.finals)]
      <4>1. Len(a.finals) \in 1 .. Len(a.finals)
        BY <1>1, <3>2, EmptySeq
      <4>2. Len(a.finals) <= Len(s.finals) /\ \A j \in DOMAIN a.finals : s.finals[j] = a.finals[j]
        BY DEF LineaKept
      <4>3. Len(a.finals) \in 1 .. Len(s.finals)
        BY <1>1, <4>1, <4>2
      <4>4. QED
        BY <1>1, <3>2, <4>1, <4>2, <4>3
    <3>4. ~(Len(a.finals) < k)
      BY <1>2, <1>4, <3>1, <3>3 DEF LineaOK
    <3>5. k \in DOMAIN a.finals /\ a.finals[k] = s.finals[k]
      <4>1. k \in DOMAIN a.finals
        BY ONLY <1>1, <3>1, <3>4
      <4>2. QED
        BY <4>1 DEF LineaKept
    <3>6. QED
      BY <3>1, <3>5 DEF Linea!StateRootHashes
  <2>3. QED
    BY <2>1, <2>2
<1>6. QED
  BY <1>4, <1>5 DEF Linea!Promised, Linea!Recent

-----------------------------------------------------------------------------
(* LineaShnarfs.tla *)

\* Data is submitted by time, for blocks 0 to 3; block 1 is finalized from the
\* start.
ShnarfsOK(s) ==
    /\ s = [now |-> s.now, submitted |-> s.submitted, finals |-> s.finals]
    /\ s.now \in Nat
    /\ s.submitted \in Seq([at : Nat, root : [l2 : 0 .. 3, right : BOOLEAN]])
    /\ s.finals \subseteq 0 .. 3 /\ 1 \in s.finals

\* The latest finalized block is one of the finalized.
LEMMA ShnarfsLatest ==
    ASSUME NEW s, ShnarfsOK(s)
    PROVE  /\ Shnarfs!CurrentL2BlockNumber(s) \in s.finals
           /\ Shnarfs!CurrentL2BlockNumber(s) \in 1 .. 3
<1>1. \E x \in s.finals : \A y \in s.finals : y <= x
  <2>1. s.finals \subseteq 0 .. 3 /\ s.finals # {} /\ 3 \in Nat
    BY DEF ShnarfsOK
  <2>2. QED
    BY <2>1, GreatestOf
<1>2. Shnarfs!CurrentL2BlockNumber(s) \in s.finals /\ \A y \in s.finals : y <= Shnarfs!CurrentL2BlockNumber(s)
  BY <1>1 DEF Shnarfs!CurrentL2BlockNumber
<1>3. QED
  BY <1>2 DEF ShnarfsOK

\* A submission or a finalization is of such a block.
LEMMA ShnarfsStep ==
    ASSUME NEW r, NEW s, ShnarfsOK(s), NEW t \in Shnarfs!Moves(r, s)
    PROVE  ShnarfsOK(t)
<1>0. /\ s = [now |-> s.now, submitted |-> s.submitted, finals |-> s.finals]
      /\ s.now \in Nat
      /\ s.submitted \in Seq([at : Nat, root : [l2 : 0 .. 3, right : BOOLEAN]])
      /\ s.finals \subseteq 0 .. 3 /\ 1 \in s.finals
  BY DEF ShnarfsOK
<1>1. Shnarfs!CurrentL2BlockNumber(s) \in 1 .. 3
  BY ShnarfsLatest
<1>2. CASE \E l2 \in Shnarfs!CurrentL2BlockNumber(s) + 1 .. 3, right \in BOOLEAN :
              t = [s EXCEPT !.submitted = Append(@, [at |-> s.now, root |-> Shnarfs!Root(l2, right)])]
  <2>1. PICK l2 \in Shnarfs!CurrentL2BlockNumber(s) + 1 .. 3, right \in BOOLEAN :
                t = [s EXCEPT !.submitted = Append(@, [at |-> s.now, root |-> Shnarfs!Root(l2, right)])]
    BY <1>2
  <2>2. [at |-> s.now, root |-> Shnarfs!Root(l2, right)] \in [at : Nat, root : [l2 : 0 .. 3, right : BOOLEAN]]
    BY <1>0, <1>1 DEF Shnarfs!Root
  <2>3. Append(s.submitted, [at |-> s.now, root |-> Shnarfs!Root(l2, right)])
            \in Seq([at : Nat, root : [l2 : 0 .. 3, right : BOOLEAN]])
    BY <1>0, <2>2, AppendProperties
  <2>4. t = [now |-> s.now, submitted |-> Append(s.submitted, [at |-> s.now, root |-> Shnarfs!Root(l2, right)]),
             finals |-> s.finals]
    BY <1>0, <2>1
  <2>5. QED
    BY <1>0, <2>3, <2>4 DEF ShnarfsOK
<1>3. CASE \E k \in DOMAIN s.submitted : t = [s EXCEPT !.finals = @ \cup {s.submitted[k].root.l2}]
  <2>1. PICK k \in DOMAIN s.submitted : t = [s EXCEPT !.finals = @ \cup {s.submitted[k].root.l2}]
    BY <1>3
  <2>2. s.submitted[k] \in [at : Nat, root : [l2 : 0 .. 3, right : BOOLEAN]]
    BY <1>0, InSeq
  <2>3. s.submitted[k].root.l2 \in 0 .. 3
    BY <2>2
  <2>4. t = [now |-> s.now, submitted |-> s.submitted, finals |-> s.finals \cup {s.submitted[k].root.l2}]
    BY <1>0, <2>1
  <2>5. QED
    BY <1>0, <2>3, <2>4 DEF ShnarfsOK
<1>4. QED
  BY <1>2, <1>3 DEF Shnarfs!Moves

\* Accepted is the root of a finalized block, or of a submission that is not
\* behind; no window is checked.
LEMMA ShnarfsAccepts ==
    ASSUME NEW r, NEW a, NEW s, ShnarfsOK(s), NEW c, NEW p \in Shnarfs!Witnesses(r, s),
           Shnarfs!GetStorageValues(r, s, c, p) = "ok"
    PROVE  Shnarfs!Promised(r, a, s, c, p) /\ Shnarfs!Recent(r, a, s, c, p)
<1>1. Shnarfs!CurrentL2BlockNumber(s) \in 1 .. 3
  BY ShnarfsLatest
<1>2. \/ Shnarfs!ShnarfFinalBlockNumber(s, p.shnarf) >= Shnarfs!CurrentL2BlockNumber(s)
      \/ p.root \in {Shnarfs!Root(l2, TRUE) : l2 \in s.finals}
  <2>1. Shnarfs!ShnarfFinalBlockNumber(s, p.shnarf) \in Int
    <3>1. CASE p.shnarf = 0
      BY <3>1 DEF Shnarfs!ShnarfFinalBlockNumber
    <3>2. CASE p.shnarf # 0
      <4>1. p.shnarf \in DOMAIN s.submitted
        BY <3>2 DEF Shnarfs!Witnesses
      <4>2. s.submitted[p.shnarf] \in [at : Nat, root : [l2 : 0 .. 3, right : BOOLEAN]]
        BY <4>1, InSeq DEF ShnarfsOK
      <4>3. QED
        BY <3>2, <4>2 DEF Shnarfs!ShnarfFinalBlockNumber
    <3>3. QED
      BY <3>1, <3>2
  <2>2. \/ ~(Shnarfs!ShnarfFinalBlockNumber(s, p.shnarf) < Shnarfs!CurrentL2BlockNumber(s))
        \/ /\ Shnarfs!ShnarfFinalBlockNumber(s, p.shnarf) \in s.finals
           /\ p.root = Shnarfs!Root(Shnarfs!ShnarfFinalBlockNumber(s, p.shnarf), TRUE)
    BY DEF Shnarfs!GetStorageValues
  <2>3. CASE ~(Shnarfs!ShnarfFinalBlockNumber(s, p.shnarf) < Shnarfs!CurrentL2BlockNumber(s))
    <3>1. \A x \in Int, y \in 1 .. 3 : ~(x < y) => x >= y
      OBVIOUS
    <3>2. QED
      BY <1>1, <2>1, <2>3, <3>1
  <2>4. CASE Shnarfs!ShnarfFinalBlockNumber(s, p.shnarf) \in s.finals
             /\ p.root = Shnarfs!Root(Shnarfs!ShnarfFinalBlockNumber(s, p.shnarf), TRUE)
    BY <2>4
  <2>5. QED
    BY <2>2, <2>3, <2>4
<1>3. CASE p.root \in {Shnarfs!Root(l2, TRUE) : l2 \in s.finals}
  BY <1>3 DEF Shnarfs!Promised, Shnarfs!Recent
<1>4. CASE Shnarfs!ShnarfFinalBlockNumber(s, p.shnarf) >= Shnarfs!CurrentL2BlockNumber(s)
  <2>1. p.shnarf # 0
    BY <1>1, <1>4 DEF Shnarfs!ShnarfFinalBlockNumber
  <2>2. p.shnarf \in DOMAIN s.submitted /\ p.root = s.submitted[p.shnarf].root
    BY <2>1 DEF Shnarfs!Witnesses
  <2>3. QED
    BY <1>4, <2>1, <2>2 DEF Shnarfs!Promised, Shnarfs!Recent, Shnarfs!ShnarfFinalBlockNumber
<1>5. QED
  BY <1>2, <1>3, <1>4

-----------------------------------------------------------------------------
(* FinalizedBatches.tla *)

\* Finalizations name their batch and the block they were made in.
BatchesOK(s) ==
    /\ s = [now |-> s.now, commits |-> s.commits, finals |-> s.finals]
    /\ s.now \in Nat /\ s.commits \in Seq(Nat)
    /\ s.finals \in Seq([index : Nat, block : Nat])

\* The last finalized batch is a number, 0 before there is one.
LEMMA LastBatch ==
    ASSUME NEW s, BatchesOK(s), NEW n
    PROVE  Batches!LastFinalized(s, n) \in Nat
<1>1. /\ s.finals \in Seq([index : Nat, block : Nat])
      /\ Len(s.finals) \in Nat /\ DOMAIN s.finals = 1 .. Len(s.finals)
  BY LenProperties DEF BatchesOK
<1>2. CASE Batches!Finals(s, n) = {}
  BY <1>2 DEF Batches!LastFinalized
<1>3. CASE Batches!Finals(s, n) # {}
  <2>1. Batches!Finals(s, n) \subseteq DOMAIN s.finals
    BY DEF Batches!Finals
  <2>2. \E k \in Batches!Finals(s, n) : \A m \in Batches!Finals(s, n) : m <= k
    <3>1. Batches!Finals(s, n) \subseteq 0 .. Len(s.finals)
      BY <1>1, <2>1
    <3>2. QED
      BY <1>1, <1>3, <3>1, GreatestOf
  <2>3. (CHOOSE k \in Batches!Finals(s, n) : \A m \in Batches!Finals(s, n) : m <= k) \in DOMAIN s.finals
    BY <2>1, <2>2
  <2>4. \A k \in DOMAIN s.finals : s.finals[k] \in [index : Nat, block : Nat]
    BY <1>1, InSeq
  <2>5. QED
    BY <1>3, <2>3, <2>4 DEF Batches!LastFinalized
<1>4. QED
  BY <1>2, <1>3

\* Committing and finalizing name batches by their numbers.
LEMMA BatchesStep ==
    ASSUME NEW r, r.blobs \in Nat, NEW s, BatchesOK(s), NEW t \in Batches!Moves(r, s)
    PROVE  BatchesOK(t)
<1>0. /\ s = [now |-> s.now, commits |-> s.commits, finals |-> s.finals]
      /\ s.now \in Nat /\ s.commits \in Seq(Nat)
      /\ s.finals \in Seq([index : Nat, block : Nat])
      /\ Len(s.commits) \in Nat /\ DOMAIN s.commits = 1 .. Len(s.commits)
  BY LenProperties DEF BatchesOK
<1>1. Batches!LastCommitted(s) \in Nat
  BY <1>0 DEF Batches!LastCommitted
<1>2. Batches!LastFinalized(s, s.now) \in Nat
  BY LastBatch
<1>3. CASE \E n \in 1 .. r.blobs : t = [s EXCEPT !.commits = Append(@, Batches!LastCommitted(s) + n)]
  <2>1. PICK n \in 1 .. r.blobs : t = [s EXCEPT !.commits = Append(@, Batches!LastCommitted(s) + n)]
    BY <1>3
  <2>2. Append(s.commits, Batches!LastCommitted(s) + n) \in Seq(Nat)
    BY <1>0, <1>1, <2>1, AppendProperties
  <2>3. t = [now |-> s.now, commits |-> Append(s.commits, Batches!LastCommitted(s) + n), finals |-> s.finals]
    BY <1>0, <2>1
  <2>4. QED
    BY <1>0, <2>2, <2>3 DEF BatchesOK
<1>4. CASE \E i \in Batches!LastFinalized(s, s.now) + 1 .. Batches!LastCommitted(s) :
              t = [s EXCEPT !.finals = Append(@, [index |-> i, block |-> s.now])]
  <2>1. PICK i \in Batches!LastFinalized(s, s.now) + 1 .. Batches!LastCommitted(s) :
                t = [s EXCEPT !.finals = Append(@, [index |-> i, block |-> s.now])]
    BY <1>4
  <2>2. [index |-> i, block |-> s.now] \in [index : Nat, block : Nat]
    BY <1>0, <1>1, <1>2, <2>1
  <2>3. Append(s.finals, [index |-> i, block |-> s.now]) \in Seq([index : Nat, block : Nat])
    BY <1>0, <2>2, AppendProperties
  <2>4. t = [now |-> s.now, commits |-> s.commits, finals |-> Append(s.finals, [index |-> i, block |-> s.now])]
    BY <1>0, <2>1
  <2>5. QED
    BY <1>0, <2>3, <2>4 DEF BatchesOK
<1>5. QED
  BY <1>3, <1>4 DEF Batches!Moves

\* Accepted is a batch that was finalized when it was asked, at most the window
\* back.
LEMMA BatchesAccepts ==
    ASSUME NEW r, r.window \in Nat, r.max \in Nat, NEW a, BatchesOK(a), NEW s,
           NEW c, c = Batches!GetLatestContext(r, a), NEW p \in Batches!Witnesses(r, s),
           Batches!GetStorageValues(r, s, c, p) = "ok"
    PROVE  Batches!Promised(r, a, s, c, p) /\ Batches!Recent(r, a, s, c, p)
<1>1. c \in Nat /\ c = Batches!LastFinalized(a, a.now) /\ p.index \in Nat
  BY LastBatch DEF Batches!GetLatestContext, Batches!Witnesses
<1>2. Batches!CheckWindow(r, c, p.index) = "ok"
  BY DEF Batches!GetStorageValues
<1>3. QED
  BY <1>1, <1>2 DEF Batches!CheckWindow, Batches!Promised, Batches!Recent

-----------------------------------------------------------------------------
(* TaikoBatches.tla *)

\* What was synced was proved; a transition is proved at a time after 0.
TaikoOK(r, s) ==
    /\ s = [now |-> s.now, proved |-> s.proved, verified |-> s.verified,
            synced |-> s.synced, written |-> s.written]
    /\ s.now \in Nat \ {0} /\ s.proved \in [1 .. r.max -> Nat] /\ s.verified \in Nat
    /\ s.synced \in 0 .. r.max
    /\ s.synced # 0 => s.proved[s.synced] # 0

\* A transition that was proved stays as it was.
TaikoKept(r, a, s) ==
    \A b \in 1 .. r.max : a.proved[b] # 0 => s.proved[b] = a.proved[b]

\* Proving adds a transition, verifying and syncing move on over proved ones.
LEMMA TaikoStep ==
    ASSUME NEW r, r.max \in Nat, NEW s, TaikoOK(r, s), NEW t \in Taiko!Moves(r, s)
    PROVE  TaikoOK(r, t) /\ TaikoKept(r, s, t)
<1>0. /\ s = [now |-> s.now, proved |-> s.proved, verified |-> s.verified,
              synced |-> s.synced, written |-> s.written]
      /\ s.now \in Nat \ {0} /\ s.proved \in [1 .. r.max -> Nat] /\ s.verified \in Nat
      /\ s.synced \in 0 .. r.max
      /\ s.synced # 0 => s.proved[s.synced] # 0
  BY DEF TaikoOK
<1>1. CASE \E b \in 1 .. r.max : s.proved[b] = 0 /\ t = [s EXCEPT !.proved[b] = s.now]
  <2>1. PICK b \in 1 .. r.max : s.proved[b] = 0 /\ t = [s EXCEPT !.proved[b] = s.now]
    BY <1>1
  <2>2. t = [now |-> s.now, proved |-> [s.proved EXCEPT ![b] = s.now], verified |-> s.verified,
             synced |-> s.synced, written |-> s.written]
    BY <1>0, <2>1
  <2>3. [s.proved EXCEPT ![b] = s.now] \in [1 .. r.max -> Nat]
    BY <1>0
  <2>4. \A d \in 1 .. r.max : s.proved[d] # 0 => [s.proved EXCEPT ![b] = s.now][d] = s.proved[d]
    BY <1>0, <2>1
  <2>5. s.synced # 0 => s.synced \in 1 .. r.max
    BY <1>0
  <2>6. QED
    BY <1>0, <2>2, <2>3, <2>4, <2>5 DEF TaikoOK, TaikoKept
<1>2. CASE \E to \in s.verified + 1 .. r.max :
            /\ \A b \in s.verified + 1 .. to : s.proved[b] # 0
            /\ t = Taiko!Verified(r, s, to)
  <2>1. PICK to \in s.verified + 1 .. r.max :
            /\ \A b \in s.verified + 1 .. to : s.proved[b] # 0
            /\ t = Taiko!Verified(r, s, to)
    BY <1>2
  <2> DEFINE roots == {b \in s.verified + 1 .. to : b % r.sync = 0}
             greatest == CHOOSE b \in roots : \A d \in roots : d <= b
             last == IF roots = {} THEN {} ELSE {greatest}
             synced == IF last = {} THEN s.synced ELSE CHOOSE b \in last : TRUE
  <2>2. t = [now |-> s.now, proved |-> s.proved, verified |-> to, synced |-> synced,
             written |-> s.written \cup {to} \cup last]
    BY <1>0, <2>1 DEF Taiko!Verified
  <2>3. synced = s.synced \/ synced \in s.verified + 1 .. to
    <3>1. CASE roots = {}
      BY <3>1
    <3>2. CASE roots # {}
      <4>1. roots \subseteq 0 .. to /\ to \in Nat
        BY <1>0, <2>1
      <4>2. greatest \in roots
        <5> HIDE DEF roots
        <5>1. \E b \in roots : \A d \in roots : d <= b
          BY <3>2, <4>1, GreatestOf
        <5>2. QED
          BY <5>1
      <4>3. synced = greatest
        BY <3>2
      <4>4. QED
        BY <4>2, <4>3
    <3>3. QED
      BY <3>1, <3>2
  <2>4. /\ t.now = s.now /\ t.proved = s.proved /\ t.verified = to /\ t.synced = synced
        /\ t = [now |-> t.now, proved |-> t.proved, verified |-> t.verified,
                synced |-> t.synced, written |-> t.written]
    BY <2>2
  <2> HIDE DEF synced
  <2>5. synced \in 0 .. r.max /\ (synced # 0 => s.proved[synced] # 0)
    BY <1>0, <2>1, <2>3
  <2>6. QED
    BY <1>0, <2>1, <2>4, <2>5 DEF TaikoOK, TaikoKept
<1>3. QED
  BY <1>1, <1>2 DEF Taiko!Moves

\* Accepted is a transition that was proved by the time asked about, and made at
\* most the window before.
LEMMA TaikoAccepts ==
    ASSUME NEW r, r.window \in Nat, r.max \in Nat, NEW a, TaikoOK(r, a), NEW s, TaikoOK(r, s),
           TaikoKept(r, a, s), NEW c, c = Taiko!GetLatestContext(r, a), NEW p \in Taiko!Witnesses(r, s),
           Taiko!GetStorageValues(r, s, c, p) = "ok"
    PROVE  Taiko!Promised(r, a, s, c, p) /\ Taiko!Recent(r, a, s, c, p)
<1>0. p.index \in 0 .. r.max /\ c \in 0 .. r.max
  BY DEF Taiko!Witnesses, Taiko!GetLatestContext, TaikoOK
<1>1. /\ Taiko!CreatedAt(s, c) = Taiko!CreatedAt(a, c) /\ Taiko!CreatedAt(a, c) \in Nat
      /\ Taiko!CreatedAt(s, p.index) \in Nat
  <2>1. c # 0 => c \in 1 .. r.max /\ a.proved[c] # 0
    BY <1>0 DEF TaikoOK, Taiko!GetLatestContext
  <2>2. p.index # 0 => p.index \in 1 .. r.max
    BY <1>0
  <2>3. QED
    BY <2>1, <2>2 DEF TaikoOK, TaikoKept, Taiko!CreatedAt
<1>2. /\ ~(p.index # 0 /\ Taiko!CreatedAt(s, p.index) = 0)
      /\ p.index % r.sync = 0
      /\ Taiko!CheckWindow(r, Taiko!CreatedAt(s, c), Taiko!CreatedAt(s, p.index)) = "ok"
  BY DEF Taiko!GetStorageValues
<1>3. Taiko!CreatedAt(s, p.index) <= Taiko!CreatedAt(a, c)
      /\ Taiko!CreatedAt(s, p.index) + r.window >= Taiko!CreatedAt(a, c)
  BY <1>1, <1>2 DEF Taiko!CheckWindow
<1>4. p.index = 0 \/ s.proved[p.index] = Taiko!CreatedAt(s, p.index)
  BY DEF Taiko!CreatedAt
<1>5. QED
  BY <1>1, <1>2, <1>3, <1>4 DEF Taiko!Promised, Taiko!Recent

-----------------------------------------------------------------------------
(* Checkpoints.tla *)

\* Headers were submitted by now and end at or before the last child block.
CheckpointOK(s) ==
    /\ s = [now |-> s.now, tip |-> s.tip, posts |-> s.posts, headers |-> s.headers]
    /\ s.now \in Nat /\ s.tip \in Nat /\ s.posts \subseteq Nat
    /\ s.headers \in Seq([start : Nat, end : Nat, at : Nat])
    /\ \A k \in DOMAIN s.headers : s.headers[k].at <= s.now
                                   /\ s.headers[k].end <= Checkpoint!LastChildBlock(s)

\* A header that was submitted stays, in its place.
CheckpointKept(a, s) ==
    Len(a.headers) <= Len(s.headers) /\ \A k \in DOMAIN a.headers : s.headers[k] = a.headers[k]

\* The last child block of the headers is a number.
LEMMA CheckpointLast ==
    ASSUME NEW s, CheckpointOK(s)
    PROVE  Checkpoint!LastChildBlock(s) \in Nat
<1>1. CASE s.headers = <<>>
  BY <1>1 DEF Checkpoint!LastChildBlock
<1>2. CASE s.headers # <<>>
  <2>1. /\ s.headers \in Seq([start : Nat, end : Nat, at : Nat])
        /\ Len(s.headers) \in Nat /\ DOMAIN s.headers = 1 .. Len(s.headers)
    BY InSeq DEF CheckpointOK
  <2>2. Len(s.headers) # 0
    BY <1>2, <2>1, EmptySeq
  <2>3. s.headers[Len(s.headers)] \in [start : Nat, end : Nat, at : Nat]
    <3>1. Len(s.headers) \in DOMAIN s.headers
      BY <2>1, <2>2
    <3>2. QED
      BY <2>1, <3>1, InSeq
  <2>4. QED
    BY <1>2, <2>3 DEF Checkpoint!LastChildBlock, Checkpoint!Header, Checkpoint!CurrentHeaderBlock
<1>3. QED
  BY <1>1, <1>2

\* A header is submitted after the others, by the time it is now.
LEMMA CheckpointStep ==
    ASSUME NEW r, r.max \in Nat, r.deployed \in Nat, NEW s, CheckpointOK(s),
           NEW t \in Checkpoint!Moves(r, s)
    PROVE  CheckpointOK(t) /\ CheckpointKept(s, t)
<1>0. /\ s = [now |-> s.now, tip |-> s.tip, posts |-> s.posts, headers |-> s.headers]
      /\ s.now \in Nat /\ s.tip \in Nat /\ s.posts \subseteq Nat
      /\ s.headers \in Seq([start : Nat, end : Nat, at : Nat])
      /\ \A k \in DOMAIN s.headers : s.headers[k].at <= s.now
                                     /\ s.headers[k].end <= Checkpoint!LastChildBlock(s)
      /\ Len(s.headers) \in Nat /\ DOMAIN s.headers = 1 .. Len(s.headers)
  BY InSeq DEF CheckpointOK
<1>1. CASE \E post : post \subseteq Nat /\ t = [s EXCEPT !.tip = @ + 1, !.posts = @ \cup post]
  <2>1. PICK post : post \subseteq Nat /\ t = [s EXCEPT !.tip = @ + 1, !.posts = @ \cup post]
    BY <1>1
  <2>2. t = [now |-> s.now, tip |-> s.tip + 1, posts |-> s.posts \cup post, headers |-> s.headers]
    BY <1>0, <2>1
  <2>3. /\ t.now = s.now /\ t.tip = s.tip + 1 /\ t.posts = s.posts \cup post /\ t.headers = s.headers
        /\ t = [now |-> t.now, tip |-> t.tip, posts |-> t.posts, headers |-> t.headers]
    BY <2>2
  <2>4. Checkpoint!LastChildBlock(t) = Checkpoint!LastChildBlock(s)
    BY <2>3 DEF Checkpoint!LastChildBlock, Checkpoint!Header, Checkpoint!CurrentHeaderBlock
  <2>5. CheckpointOK(t)
    <3>1. t.posts \subseteq Nat /\ t.tip \in Nat
      BY <1>0, <2>1, <2>3
    <3>2. /\ t.now \in Nat /\ t.headers \in Seq([start : Nat, end : Nat, at : Nat])
          /\ \A k \in DOMAIN t.headers : t.headers[k].at <= t.now
                                         /\ t.headers[k].end <= Checkpoint!LastChildBlock(t)
      BY <1>0, <2>3, <2>4
    <3>3. QED
      BY <2>3, <3>1, <3>2 DEF CheckpointOK
  <2>6. QED
    BY <1>0, <2>3, <2>5 DEF CheckpointKept
<1>2. CASE \E end \in Checkpoint!LastChildBlock(s) + 1 .. s.tip :
            t = [s EXCEPT !.headers = Append(@, [start |-> Checkpoint!LastChildBlock(s) + 1,
                                                 end |-> end, at |-> s.now])]
  <2>1. PICK end \in Checkpoint!LastChildBlock(s) + 1 .. s.tip :
            t = [s EXCEPT !.headers = Append(@, [start |-> Checkpoint!LastChildBlock(s) + 1,
                                                 end |-> end, at |-> s.now])]
    BY <1>2
  <2> DEFINE header == [start |-> Checkpoint!LastChildBlock(s) + 1, end |-> end, at |-> s.now]
  <2>2. Checkpoint!LastChildBlock(s) \in Nat
    BY CheckpointLast
  <2>3. end \in Nat /\ Checkpoint!LastChildBlock(s) < end /\ header \in [start : Nat, end : Nat, at : Nat]
    BY <1>0, <2>1, <2>2
  <2>4. t = [now |-> s.now, tip |-> s.tip, posts |-> s.posts, headers |-> Append(s.headers, header)]
    BY <1>0, <2>1
  <2>5. /\ t.now = s.now /\ t.tip = s.tip /\ t.posts = s.posts
        /\ t.headers = Append(s.headers, header)
        /\ t = [now |-> t.now, tip |-> t.tip, posts |-> t.posts, headers |-> t.headers]
    BY <2>4
  <2>6. header.end = end /\ header.at = s.now
    OBVIOUS
  <2> HIDE DEF header
  <2>7. /\ t.headers \in Seq([start : Nat, end : Nat, at : Nat])
        /\ Len(t.headers) = Len(s.headers) + 1
        /\ DOMAIN t.headers = 1 .. Len(s.headers) + 1 /\ t.headers[Len(s.headers) + 1] = header
        /\ \A k \in DOMAIN s.headers : t.headers[k] = s.headers[k]
    BY <1>0, <2>3, <2>5, OneMore
  <2>8. Checkpoint!LastChildBlock(t) = end
    <3>1. t.headers # <<>>
      BY <1>0, <2>7, EmptySeq
    <3>2. QED
      BY <2>6, <2>7, <3>1 DEF Checkpoint!LastChildBlock, Checkpoint!Header, Checkpoint!CurrentHeaderBlock
  <2>9. \A k \in DOMAIN t.headers : t.headers[k].at <= t.now /\ t.headers[k].end <= end
    <3> SUFFICES ASSUME NEW k \in DOMAIN t.headers
                 PROVE  t.headers[k].at <= t.now /\ t.headers[k].end <= end
      OBVIOUS
    <3>1. CASE k = Len(s.headers) + 1
      BY <1>0, <2>3, <2>5, <2>6, <2>7, <3>1
    <3>2. CASE k # Len(s.headers) + 1
      <4>0. \A n \in Nat : \A i \in 1 .. n + 1 : i # n + 1 => i \in 1 .. n
        OBVIOUS
      <4>1. k \in DOMAIN s.headers /\ t.headers[k] = s.headers[k]
        <5>1. k \in 1 .. Len(s.headers) + 1
          BY <2>7
        <5>2. k \in 1 .. Len(s.headers)
          BY <1>0, <3>2, <4>0, <5>1
        <5>3. QED
          BY <1>0, <2>7, <5>2
      <4>2. s.headers[k] \in [start : Nat, end : Nat, at : Nat]
        BY <1>0, <4>1, InSeq
      <4>3. s.headers[k].at <= s.now /\ s.headers[k].end <= Checkpoint!LastChildBlock(s)
        BY <1>0, <4>1
      <4>4. s.headers[k].end \in Nat
        BY <4>2
      <4>5. s.headers[k].end <= end
        BY <2>2, <2>3, <4>3, <4>4
      <4>6. QED
        BY <2>5, <4>1, <4>3, <4>5
    <3>3. QED
      BY <3>1, <3>2
  <2>10. CheckpointOK(t)
    BY <1>0, <2>5, <2>7, <2>8, <2>9 DEF CheckpointOK
  <2>11. QED
    BY <1>0, <2>7, <2>10 DEF CheckpointKept
<1>3. QED
  <2>1. t \in {[s EXCEPT !.tip = @ + 1, !.posts = @ \cup post] :
                    post \in IF s.tip < r.max
                             THEN {{}} \cup {{n} : n \in {s.tip + 1} \cap (r.deployed .. r.max)}
                             ELSE {}}
        => \E post : post \subseteq Nat /\ t = [s EXCEPT !.tip = @ + 1, !.posts = @ \cup post]
    <3>1. \A post \in IF s.tip < r.max
                      THEN {{}} \cup {{n} : n \in {s.tip + 1} \cap (r.deployed .. r.max)}
                      ELSE {} : post \subseteq Nat
      BY <1>0
    <3>2. QED
      BY <3>1
  <2>2. QED
    BY <1>1, <1>2, <2>1 DEF Checkpoint!Moves

\* Accepted is a block that is posted, under a header submitted by when it was
\* asked, at most the window before the one asked about.
LEMMA CheckpointAccepts ==
    ASSUME NEW r, r.window \in Nat, r.max \in Nat, NEW a, CheckpointOK(a), NEW s, CheckpointOK(s),
           CheckpointKept(a, s), NEW c, c = Checkpoint!GetLatestContext(r, a),
           NEW p \in Checkpoint!Witnesses(r, s), Checkpoint!GetStorageValues(r, s, c, p) = "ok"
    PROVE  Checkpoint!Promised(r, a, s, c, p) /\ Checkpoint!Recent(r, a, s, c, p)
<1>0. /\ s.headers \in Seq([start : Nat, end : Nat, at : Nat])
      /\ a.headers \in Seq([start : Nat, end : Nat, at : Nat])
      /\ Len(s.headers) \in Nat /\ DOMAIN s.headers = 1 .. Len(s.headers)
      /\ Len(a.headers) \in Nat /\ DOMAIN a.headers = 1 .. Len(a.headers)
      /\ c = Len(a.headers) /\ a.now \in Nat
  BY InSeq DEF CheckpointOK, Checkpoint!GetLatestContext, Checkpoint!CurrentHeaderBlock
<1>1. /\ p.header \in DOMAIN s.headers
      /\ \/ p.header = c
         \/ Checkpoint!CheckWindow(r, Checkpoint!CreatedAt(s, c), Checkpoint!CreatedAt(s, p.header)) = "ok"
      /\ p.post \in Checkpoint!PostsIn(s, s.headers[p.header].start, s.headers[p.header].end)
      /\ p.block = p.post - 1
  BY DEF Checkpoint!GetStorageValues, Checkpoint!Header
<1>2. s.headers[p.header] \in [start : Nat, end : Nat, at : Nat]
  BY <1>0, <1>1, InSeq
<1>3. Checkpoint!CreatedAt(s, p.header) = s.headers[p.header].at /\ s.headers[p.header].at \in Nat
  BY <1>1, <1>2 DEF Checkpoint!CreatedAt, Checkpoint!Header
<1>4. Checkpoint!CreatedAt(s, c) \in Nat /\ Checkpoint!CreatedAt(s, c) <= a.now
  <2>1. CASE c = 0
    BY <1>0, <2>1 DEF Checkpoint!CreatedAt
  <2>2. CASE c # 0
    <3>1. c \in DOMAIN a.headers
      BY <1>0, <2>2
    <3>2. Len(a.headers) <= Len(s.headers) /\ s.headers[c] = a.headers[c]
      BY <3>1 DEF CheckpointKept
    <3>3. c \in DOMAIN s.headers
      BY <1>0, <2>2, <3>2
    <3>4. a.headers[c] \in [start : Nat, end : Nat, at : Nat] /\ a.headers[c].at <= a.now
      BY <1>0, <3>1, InSeq DEF CheckpointOK
    <3>5. QED
      BY <3>2, <3>3, <3>4 DEF Checkpoint!CreatedAt, Checkpoint!Header
  <2>3. QED
    BY <2>1, <2>2
<1>5. /\ Checkpoint!CreatedAt(s, p.header) <= Checkpoint!CreatedAt(s, c)
      /\ Checkpoint!CreatedAt(s, p.header) + r.window >= Checkpoint!CreatedAt(s, c)
  <2>1. CASE p.header = c
    BY <1>4, <2>1
  <2>2. CASE Checkpoint!CheckWindow(r, Checkpoint!CreatedAt(s, c), Checkpoint!CreatedAt(s, p.header)) = "ok"
    BY <1>3, <1>4, <2>2 DEF Checkpoint!CheckWindow
  <2>3. QED
    BY <1>1, <2>1, <2>2
<1>6. p.block + 1 = p.post /\ p.post \in s.posts /\ p.post <= s.headers[p.header].end
  <2>1. p.post \in s.posts /\ p.post <= s.headers[p.header].end
    BY <1>1 DEF Checkpoint!PostsIn
  <2>2. p.post \in Nat
    BY <2>1 DEF CheckpointOK
  <2>3. p.block + 1 = p.post
    BY <1>1, <2>2
  <2>4. QED
    BY <2>1, <2>3
<1>7. p.post <= Checkpoint!LastChildBlock(s)
  <2>1. s.headers[p.header].end <= Checkpoint!LastChildBlock(s) /\ p.post \in Nat
    BY <1>1, <1>6 DEF CheckpointOK
  <2>2. Checkpoint!LastChildBlock(s) \in Nat /\ s.headers[p.header].end \in Nat
    BY <1>2, CheckpointLast
  <2>3. QED
    BY <1>6, <2>1, <2>2
<1>8. Checkpoint!CreatedAt(s, p.header) <= a.now
  <2>1. Checkpoint!CreatedAt(s, p.header) \in Nat
    BY <1>3
  <2>2. \A x, y, z \in Nat : x <= y /\ y <= z => x <= z
    OBVIOUS
  <2>3. QED
    BY <1>0, <1>4, <1>5, <2>1, <2>2
<1>9. QED
  BY <1>5, <1>6, <1>7, <1>8 DEF Checkpoint!Promised, Checkpoint!Recent

-----------------------------------------------------------------------------
(* StateUpdates.tla *)

\* State updates name what they write and the block they are written in.
UpdatesOK(s) ==
    /\ s = [now |-> s.now, updates |-> s.updates]
    /\ s.now \in Nat /\ s.updates \in Seq([index : Nat, block : Nat])

\* The state at a block is what an update wrote, or none.
LEMMA UpdatesRoot ==
    ASSUME NEW s, UpdatesOK(s), NEW n
    PROVE  Updates!RootAt(s, n) \in Nat
           /\ Updates!RootAt(s, n) \in {0} \cup {s.updates[k].index : k \in DOMAIN s.updates}
<1> DEFINE at == {k \in DOMAIN s.updates : s.updates[k].block <= n}
<1>1. /\ s.updates \in Seq([index : Nat, block : Nat])
      /\ Len(s.updates) \in Nat /\ DOMAIN s.updates = 1 .. Len(s.updates)
  BY InSeq DEF UpdatesOK
<1>2. CASE at = {}
  BY <1>2 DEF Updates!RootAt
<1>3. CASE at # {}
  <2>1. \E k \in at : \A m \in at : m <= k
    <3>1. at \subseteq 0 .. Len(s.updates)
      BY <1>1
    <3> HIDE DEF at
    <3>2. QED
      BY <1>1, <1>3, <3>1, GreatestOf
  <2>2. (CHOOSE k \in at : \A m \in at : m <= k) \in DOMAIN s.updates
    <3>1. at \subseteq DOMAIN s.updates
      OBVIOUS
    <3> HIDE DEF at
    <3>2. QED
      BY <2>1, <3>1
  <2>3. Updates!RootAt(s, n) = s.updates[CHOOSE k \in at : \A m \in at : m <= k].index
    BY <1>3 DEF Updates!RootAt
  <2> HIDE DEF at
  <2>4. \A k \in DOMAIN s.updates : s.updates[k] \in [index : Nat, block : Nat]
    BY <1>1, InSeq
  <2>5. QED
    BY <2>2, <2>3, <2>4
<1>4. QED
  BY <1>2, <1>3

\* A state update follows the others.
LEMMA UpdatesStep ==
    ASSUME NEW r, r.max \in Nat, NEW s, UpdatesOK(s), NEW t \in Updates!Moves(r, s)
    PROVE  UpdatesOK(t)
<1>1. PICK n \in Updates!StateBlockNumber(s) + 1 .. r.max :
            t = [s EXCEPT !.updates = Append(@, [index |-> n, block |-> s.now])]
  BY DEF Updates!Moves
<1>2. Updates!StateBlockNumber(s) \in Nat
  BY UpdatesRoot DEF Updates!StateBlockNumber
<1>3. [index |-> n, block |-> s.now] \in [index : Nat, block : Nat]
  BY <1>1, <1>2 DEF UpdatesOK
<1>4. Append(s.updates, [index |-> n, block |-> s.now]) \in Seq([index : Nat, block : Nat])
  BY <1>3, OneMore DEF UpdatesOK
<1>5. t = [now |-> s.now, updates |-> Append(s.updates, [index |-> n, block |-> s.now])]
  BY <1>1 DEF UpdatesOK
<1>6. QED
  BY <1>4, <1>5 DEF UpdatesOK

\* Accepted is the state at one of the last blocks.
LEMMA UpdatesAccepts ==
    ASSUME NEW r, r.depth \in Nat, NEW a, NEW s, UpdatesOK(s), NEW c,
           NEW p \in Updates!Witnesses(r, s), Updates!GetStorageValues(r, s, c, p) = "ok"
    PROVE  Updates!Promised(r, a, s, c, p) /\ Updates!Recent(r, a, s, c, p)
<1>1. p.l1Block \in 0 .. s.now /\ s.now \in Nat
  BY DEF Updates!Witnesses, UpdatesOK
<1>2. \/ p.root = Updates!RootAt(s, s.now)
      \/ p.root = Updates!RootAt(s, p.l1Block) /\ Updates!HasBlockHash(r, s, p.l1Block)
  BY DEF Updates!GetStorageValues, Updates!StateBlockNumber
<1>3. PICK block \in 0 .. s.now : block + r.depth >= s.now /\ Updates!RootAt(s, block) = p.root
  <2>1. CASE p.root = Updates!RootAt(s, s.now)
    <3>1. s.now \in 0 .. s.now /\ s.now + r.depth >= s.now
      BY <1>1
    <3>2. QED
      BY <2>1, <3>1
  <2>2. CASE p.root = Updates!RootAt(s, p.l1Block) /\ Updates!HasBlockHash(r, s, p.l1Block)
    BY <1>1, <2>2 DEF Updates!HasBlockHash
  <2>3. QED
    BY <1>2, <2>1, <2>2
<1>4. QED
  BY <1>3, UpdatesRoot DEF Updates!Promised, Updates!Recent, Updates!Usable

-----------------------------------------------------------------------------
(* OPOutputs.tla *)

\* Outputs are proposed in order of time.
OutputsOK(s) ==
    /\ s = [now |-> s.now, outputs |-> s.outputs]
    /\ s.now \in Nat
    /\ s.outputs \in Seq([root : [block : Nat, right : BOOLEAN], time : Nat])
    /\ \A i \in DOMAIN s.outputs : s.outputs[i].time <= s.now
    /\ \A i, j \in DOMAIN s.outputs : i <= j => s.outputs[i].time <= s.outputs[j].time

\* What is final stays, and what is new is made now or later.
OutputsKept(r, a, s) ==
    /\ a.now <= s.now
    /\ \A i \in DOMAIN s.outputs : (i \in DOMAIN a.outputs /\ s.outputs[i] = a.outputs[i])
                                    \/ s.outputs[i].time >= a.now
    /\ \A i \in DOMAIN a.outputs : Outputs!Final(r, a, i) =>
            i \in DOMAIN s.outputs /\ s.outputs[i] = a.outputs[i]

\* Outputs, by what OutputsOK says of them.
LEMMA OutputsTyped ==
    ASSUME NEW s, OutputsOK(s)
    PROVE  /\ Len(s.outputs) \in Nat /\ DOMAIN s.outputs = 1 .. Len(s.outputs)
           /\ \A i \in DOMAIN s.outputs :
                /\ s.outputs[i] \in [root : [block : Nat, right : BOOLEAN], time : Nat]
                /\ s.outputs[i].time \in Nat
<1>1. s.outputs \in Seq([root : [block : Nat, right : BOOLEAN], time : Nat])
  BY DEF OutputsOK
<1>2. \A i \in DOMAIN s.outputs : s.outputs[i] \in [root : [block : Nat, right : BOOLEAN], time : Nat]
  BY <1>1, InSeq
<1>3. QED
  BY <1>1, <1>2, InSeq

\* Proposing and deleting change no output that is final and leave no older one
\* in its place.
LEMMA OutputsStep ==
    ASSUME NEW r, r.max \in Nat, r.finalization \in Nat, NEW s, OutputsOK(s), NEW t \in Outputs!Moves(r, s)
    PROVE  OutputsOK(t) /\ OutputsKept(r, s, t)
<1>0. /\ s = [now |-> s.now, outputs |-> s.outputs] /\ s.now \in Nat
      /\ s.outputs \in Seq([root : [block : Nat, right : BOOLEAN], time : Nat])
      /\ \A i \in DOMAIN s.outputs : s.outputs[i].time <= s.now
      /\ \A i, j \in DOMAIN s.outputs : i <= j => s.outputs[i].time <= s.outputs[j].time
      /\ Len(s.outputs) \in Nat /\ DOMAIN s.outputs = 1 .. Len(s.outputs)
      /\ \A i \in DOMAIN s.outputs : s.outputs[i].time \in Nat
  BY OutputsTyped DEF OutputsOK
<1>1. CASE \E right \in BOOLEAN :
            t = [s EXCEPT !.outputs = Append(@, [root |-> Outputs!Root(Len(s.outputs) + 1, right),
                                                 time |-> s.now])]
  <2>1. PICK right \in BOOLEAN :
            t = [s EXCEPT !.outputs = Append(@, [root |-> Outputs!Root(Len(s.outputs) + 1, right),
                                                 time |-> s.now])]
    BY <1>1
  <2> DEFINE output == [root |-> Outputs!Root(Len(s.outputs) + 1, right), time |-> s.now]
  <2>2. output \in [root : [block : Nat, right : BOOLEAN], time : Nat] /\ output.time = s.now
    BY <1>0 DEF Outputs!Root
  <2>3. t = [now |-> s.now, outputs |-> Append(s.outputs, output)]
    BY <1>0, <2>1
  <2> HIDE DEF output
  <2>4. t.now = s.now /\ t.outputs = Append(s.outputs, output) /\ t = [now |-> t.now, outputs |-> t.outputs]
    BY <2>3
  <2>5. /\ t.outputs \in Seq([root : [block : Nat, right : BOOLEAN], time : Nat])
        /\ DOMAIN t.outputs = 1 .. Len(s.outputs) + 1
        /\ t.outputs[Len(s.outputs) + 1] = output
        /\ \A i \in DOMAIN s.outputs : t.outputs[i] = s.outputs[i]
    BY <1>0, <2>2, <2>4, OneMore
  <2>6. \A i \in DOMAIN t.outputs : i = Len(s.outputs) + 1 \/ i \in DOMAIN s.outputs
    BY <1>0, <2>5
  <2>7. \A i \in DOMAIN t.outputs : t.outputs[i].time <= t.now
    BY <1>0, <2>2, <2>4, <2>5, <2>6
  <2>8. ASSUME NEW i \in DOMAIN t.outputs, NEW j \in DOMAIN t.outputs, i <= j
        PROVE  t.outputs[i].time <= t.outputs[j].time
    <3>1. CASE j = Len(s.outputs) + 1
      BY <2>2, <2>4, <2>5, <2>7, <3>1
    <3>2. CASE j # Len(s.outputs) + 1
      <4>1. j \in DOMAIN s.outputs /\ i \in DOMAIN s.outputs
        <5>1. \A n \in Nat : \A x, y \in 1 .. n + 1 : x <= y /\ y # n + 1 => x \in 1 .. n /\ y \in 1 .. n
          OBVIOUS
        <5>2. QED
          BY <1>0, <2>5, <2>8, <3>2, <5>1
      <4>2. QED
        BY <1>0, <2>5, <2>8, <4>1
    <3>3. QED
      BY <3>1, <3>2
  <2>9. OutputsOK(t)
    BY <1>0, <2>4, <2>5, <2>7, <2>8 DEF OutputsOK
  <2>10. OutputsKept(r, s, t)
    <3>1. s.now <= t.now
      BY <1>0, <2>4
    <3>2. \A i \in DOMAIN t.outputs : (i \in DOMAIN s.outputs /\ t.outputs[i] = s.outputs[i])
                                        \/ t.outputs[i].time >= s.now
      BY <1>0, <2>2, <2>5, <2>6
    <3>3. \A i \in DOMAIN s.outputs : i \in DOMAIN t.outputs /\ t.outputs[i] = s.outputs[i]
      BY <1>0, <2>5
    <3>4. QED
      BY <3>1, <3>2, <3>3 DEF OutputsKept
  <2>11. QED
    BY <2>9, <2>10
<1>2. CASE \E i \in DOMAIN s.outputs : ~Outputs!Final(r, s, i)
                /\ t = [s EXCEPT !.outputs = SubSeq(@, 1, i - 1)]
  <2>1. PICK i \in DOMAIN s.outputs : ~Outputs!Final(r, s, i)
                /\ t = [s EXCEPT !.outputs = SubSeq(@, 1, i - 1)]
    BY <1>2
  <2>2. t = [now |-> s.now, outputs |-> SubSeq(s.outputs, 1, i - 1)]
    BY <1>0, <2>1
  <2>3. t.now = s.now /\ t.outputs = SubSeq(s.outputs, 1, i - 1) /\ t = [now |-> t.now, outputs |-> t.outputs]
    BY <2>2
  <2>4. /\ t.outputs \in Seq([root : [block : Nat, right : BOOLEAN], time : Nat])
        /\ DOMAIN t.outputs = 1 .. i - 1 /\ \A k \in 1 .. i - 1 : t.outputs[k] = s.outputs[k]
    <3>1. 1 \in Nat /\ i - 1 \in 0 .. Len(s.outputs) /\ i - 1 \in Int
      BY <1>0
    <3>2. \A k \in 1 .. i - 1 : k \in 1 .. Len(s.outputs) /\ s.outputs[k] \in [root : [block : Nat, right : BOOLEAN], time : Nat]
      <4>1. \A n \in Nat : \A x \in 1 .. n : \A k \in 1 .. x - 1 : k \in 1 .. n
        OBVIOUS
      <4>2. \A k \in 1 .. i - 1 : k \in 1 .. Len(s.outputs)
        BY <1>0, <4>1
      <4>3. \A k \in DOMAIN s.outputs : s.outputs[k] \in [root : [block : Nat, right : BOOLEAN], time : Nat]
        BY OutputsTyped
      <4>4. QED
        BY <1>0, <4>2, <4>3
    <3>3. /\ t.outputs \in Seq([root : [block : Nat, right : BOOLEAN], time : Nat])
          /\ Len(t.outputs) = i - 1 /\ \A k \in 1 .. i - 1 : t.outputs[k] = s.outputs[k]
      <4> DEFINE b == i - 1
      <4>1. b \in Int /\ b >= 0
        BY <3>1
      <4> HIDE DEF b
      <4>2. /\ SubSeq(s.outputs, 1, b) \in Seq([root : [block : Nat, right : BOOLEAN], time : Nat])
            /\ Len(SubSeq(s.outputs, 1, b)) = IF 1 <= b THEN b - 1 + 1 ELSE 0
            /\ \A k \in 1 .. b - 1 + 1 : SubSeq(s.outputs, 1, b)[k] = s.outputs[1 + k - 1]
        <5>1. \A k \in 1 .. b : s.outputs[k] \in [root : [block : Nat, right : BOOLEAN], time : Nat]
          BY <3>2 DEF b
        <5>2. 1 \in Int
          OBVIOUS
        <5>3. QED
          BY <4>1, <5>1, <5>2, SubSeqProperties
      <4>3. \A k \in 1 .. b : k \in 1 .. b - 1 + 1 /\ 1 + k - 1 = k
        BY <4>1
      <4>4. (IF 1 <= b THEN b - 1 + 1 ELSE 0) = b
        BY <4>1
      <4>5. t.outputs = SubSeq(s.outputs, 1, b)
        BY <2>3 DEF b
      <4>6. t.outputs \in Seq([root : [block : Nat, right : BOOLEAN], time : Nat]) /\ Len(t.outputs) = b
        BY <4>2, <4>4, <4>5
      <4>7. \A k \in 1 .. b : t.outputs[k] = s.outputs[k]
        BY <4>2, <4>3, <4>5
      <4>8. QED
        BY <4>6, <4>7 DEF b
    <3>4. QED
      BY <3>3, InSeq
  <2>5. \A k \in DOMAIN t.outputs : k \in DOMAIN s.outputs /\ t.outputs[k] = s.outputs[k]
    BY <1>0, <2>4
  <2>6. OutputsOK(t)
    BY <1>0, <2>3, <2>4, <2>5 DEF OutputsOK
  <2>7. \A k \in DOMAIN s.outputs : Outputs!Final(r, s, k) => k \in DOMAIN t.outputs
    <3> SUFFICES ASSUME NEW k \in DOMAIN s.outputs, Outputs!Final(r, s, k), k \notin 1 .. i - 1
                 PROVE  FALSE
      BY <2>4
    <3>1. i <= k
      BY <1>0
    <3>2. s.outputs[i].time <= s.outputs[k].time
      BY <1>0, <3>1
    <3>3. s.outputs[k].time + r.finalization <= s.now /\ ~(s.outputs[i].time + r.finalization <= s.now)
      BY <2>1 DEF Outputs!Final
    <3>4. s.outputs[k].time \in Nat /\ s.outputs[i].time \in Nat
      BY <1>0
    <3>5. QED
      <4>1. \A x, y, f, n \in Nat : x <= y /\ y + f <= n => x + f <= n
        OBVIOUS
      <4>2. QED
        BY <1>0, <3>2, <3>3, <3>4, <4>1
  <2>8. OutputsKept(r, s, t)
    BY <1>0, <2>3, <2>5, <2>7 DEF OutputsKept
  <2>9. QED
    BY <2>6, <2>8
<1>3. QED
  <2>1. t \in {[s EXCEPT !.outputs = Append(@, [root |-> Outputs!Root(Len(s.outputs) + 1, right), time |-> s.now])] :
                    right \in IF Len(s.outputs) < r.max THEN BOOLEAN ELSE {}}
        => \E right \in BOOLEAN :
            t = [s EXCEPT !.outputs = Append(@, [root |-> Outputs!Root(Len(s.outputs) + 1, right),
                                                 time |-> s.now])]
    <3>1. (IF Len(s.outputs) < r.max THEN BOOLEAN ELSE {}) \subseteq BOOLEAN
      OBVIOUS
    <3>2. QED
      BY <3>1
  <2>2. QED
    BY <1>1, <1>2, <2>1 DEF Outputs!Moves

\* Nor does time.
LEMMA OutputsTick ==
    ASSUME NEW r, r.finalization \in Nat, NEW s, OutputsOK(s), NEW t, t = [s EXCEPT !.now = @ + 1]
    PROVE  OutputsOK(t) /\ OutputsKept(r, s, t)
<1>1. t = [now |-> s.now + 1, outputs |-> s.outputs]
  BY DEF OutputsOK
<1>2. t.now = s.now + 1 /\ t.outputs = s.outputs /\ t = [now |-> t.now, outputs |-> t.outputs]
  BY <1>1
<1>3. s.now \in Nat /\ \A i \in DOMAIN s.outputs : s.outputs[i].time \in Nat
  BY OutputsTyped DEF OutputsOK
<1>4. QED
  BY <1>2, <1>3 DEF OutputsOK, OutputsKept

\* What two stretches of time keep, both together keep.
LEMMA OutputsOn ==
    ASSUME NEW r, r.finalization \in Nat, NEW a, OutputsOK(a), NEW s, OutputsOK(s), NEW t, OutputsOK(t),
           OutputsKept(r, a, s), OutputsKept(r, s, t)
    PROVE  OutputsKept(r, a, t)
<1>1. /\ a.now \in Nat /\ s.now \in Nat /\ t.now \in Nat /\ a.now <= s.now /\ s.now <= t.now
  BY DEF OutputsOK, OutputsKept
<1>2. \A i \in DOMAIN t.outputs : (i \in DOMAIN a.outputs /\ t.outputs[i] = a.outputs[i])
                                    \/ t.outputs[i].time >= a.now
  <2> SUFFICES ASSUME NEW i \in DOMAIN t.outputs
               PROVE  (i \in DOMAIN a.outputs /\ t.outputs[i] = a.outputs[i]) \/ t.outputs[i].time >= a.now
    OBVIOUS
  <2>1. t.outputs[i].time \in Nat
    BY OutputsTyped
  <2>2. CASE i \in DOMAIN s.outputs /\ t.outputs[i] = s.outputs[i]
    BY <2>2 DEF OutputsKept
  <2>3. CASE t.outputs[i].time >= s.now
    BY <1>1, <2>1, <2>3
  <2>4. QED
    BY <2>2, <2>3 DEF OutputsKept
<1>3. \A i \in DOMAIN a.outputs : Outputs!Final(r, a, i) =>
            i \in DOMAIN t.outputs /\ t.outputs[i] = a.outputs[i]
  <2> SUFFICES ASSUME NEW i \in DOMAIN a.outputs, Outputs!Final(r, a, i)
               PROVE  i \in DOMAIN t.outputs /\ t.outputs[i] = a.outputs[i]
    OBVIOUS
  <2>1. i \in DOMAIN s.outputs /\ s.outputs[i] = a.outputs[i]
    BY DEF OutputsKept
  <2>2. a.outputs[i].time \in Nat
    BY OutputsTyped
  <2>3. Outputs!Final(r, s, i)
    BY <1>1, <2>1, <2>2 DEF Outputs!Final
  <2>4. QED
    BY <2>1, <2>3 DEF OutputsKept
<1>4. QED
  BY <1>1, <1>2, <1>3 DEF OutputsKept

\* The binary search: what it finds is old enough.
LEMMA OutputFound ==
    ASSUME NEW r, r.finalization \in Nat, r.minAge \in Nat, NEW s, OutputsOK(s),
           Outputs!FindOutputIndex(r, s) # Outputs!NoIndex
    PROVE  /\ Outputs!FindOutputIndex(r, s) \in 0 .. Len(s.outputs) - 1
           /\ s.outputs[Outputs!FindOutputIndex(r, s) + 1].time + Outputs!Age(r) <= s.now
<1> DEFINE minAge == IF r.minAge = 0 THEN r.finalization ELSE r.minAge
           t == s.now - minAge
           n == Outputs!NextOutputIndex(s)
           D == (0 .. n) \X (0 .. n)
           V == 0 .. n
           bound == CHOOSE bound : bound = [w \in (0 .. n) \X (0 .. n) |->
                        LET mid == (w[1] + w[2]) \div 2
                        IN CASE w[1] >= w[2] -> w[1]
                             [] w[1] < w[2] /\ Outputs!OutputAt(s, mid).time > t -> bound[<<w[1], mid>>]
                             [] OTHER -> bound[<<mid + 1, w[2]>>]]
<1>1. Outputs!FindOutputIndex(r, s) = IF minAge > s.now THEN Outputs!NoIndex ELSE bound[<<0, n>>] - 1
  BY DEF Outputs!FindOutputIndex
<1>2. /\ n \in Nat /\ n = Len(s.outputs) /\ t \in Int /\ minAge = Outputs!Age(r) /\ s.now \in Nat
      /\ minAge \in Nat
  BY OutputsTyped DEF Outputs!NextOutputIndex, Outputs!Age, Outputs!Unfinalized, OutputsOK
<1>3. \A k \in 0 .. n - 1 : Outputs!OutputAt(s, k).time \in Nat
  <2> SUFFICES ASSUME NEW k \in 0 .. n - 1 PROVE Outputs!OutputAt(s, k).time \in Nat
    OBVIOUS
  <2>1. k + 1 \in 1 .. n
    BY <1>2
  <2>2. s.outputs[k + 1].time \in Nat
    BY <1>2, <2>1, OutputsTyped
  <2>3. QED
    BY <2>2 DEF Outputs!OutputAt
<1> DEFINE G == [w \in D |-> [h \in [D -> V] |->
                    IF w[1] >= w[2] THEN w[1]
                    ELSE IF Outputs!OutputAt(s, (w[1] + w[2]) \div 2).time > t
                         THEN h[<<w[1], (w[1] + w[2]) \div 2>>]
                         ELSE h[<<(w[1] + w[2]) \div 2 + 1, w[2]>>]]]
           rank == [w \in D |-> IF w[1] >= w[2] THEN 0 ELSE w[2] - w[1]]
<1> HIDE DEF minAge, t, n
<1>4. \A w \in D : /\ w[1] \in 0 .. n /\ w[2] \in 0 .. n /\ w = <<w[1], w[2]>>
                   /\ rank[w] = IF w[1] >= w[2] THEN 0 ELSE w[2] - w[1]
  OBVIOUS
<1>5. \A x, y \in 0 .. n : ~(x >= y) =>
            /\ (x + y) \div 2 \in 0 .. n - 1 /\ (x + y) \div 2 + 1 \in 0 .. n
            /\ x <= (x + y) \div 2 /\ (x + y) \div 2 < y
  BY <1>2
<1>6. \A x, y \in 0 .. n : \E w \in D : w = <<x, y>> /\ w[1] = x /\ w[2] = y
  <2> SUFFICES ASSUME NEW x \in 0 .. n, NEW y \in 0 .. n
               PROVE  \E w \in D : w = <<x, y>> /\ w[1] = x /\ w[2] = y
    OBVIOUS
  <2>1. <<x, y>> \in D /\ <<x, y>>[1] = x /\ <<x, y>>[2] = y
    OBVIOUS
  <2>2. QED
    BY <2>1
<1> HIDE DEF D
<1>7. \A x, y \in 0 .. n : rank[<<x, y>>] = IF x >= y THEN 0 ELSE y - x
  <2> SUFFICES ASSUME NEW x \in 0 .. n, NEW y \in 0 .. n
               PROVE  rank[<<x, y>>] = IF x >= y THEN 0 ELSE y - x
    OBVIOUS
  <2>1. PICK w \in D : w = <<x, y>> /\ w[1] = x /\ w[2] = y
    BY <1>6
  <2>2. rank[w] = IF w[1] >= w[2] THEN 0 ELSE w[2] - w[1]
    BY <1>4
  <2>3. QED
    BY <2>1, <2>2
<1>8. rank \in [D -> 0 .. n]
  <2>1. \A w \in D : (IF w[1] >= w[2] THEN 0 ELSE w[2] - w[1]) \in 0 .. n
    BY <1>2, <1>4
  <2>2. QED
    BY <2>1
<1> HIDE DEF rank
<1>9. \A w \in D, h \in [D -> V] : G[w][h] \in V
  <2> SUFFICES ASSUME NEW w \in D, NEW h \in [D -> V] PROVE G[w][h] \in V
    OBVIOUS
  <2>1. CASE w[1] >= w[2]
    BY <1>4, <2>1
  <2>2. CASE ~(w[1] >= w[2])
    <3>1. (w[1] + w[2]) \div 2 \in 0 .. n /\ (w[1] + w[2]) \div 2 + 1 \in 0 .. n
      <4>1. PICK x \in 0 .. n, y \in 0 .. n : x = w[1] /\ y = w[2]
        BY <1>4
      <4>2. (x + y) \div 2 \in 0 .. n - 1 /\ (x + y) \div 2 + 1 \in 0 .. n
        BY <1>5, <2>2, <4>1
      <4>3. \A m \in 0 .. n - 1 : m \in 0 .. n
        BY ONLY <1>2
      <4>4. QED
        BY ONLY <4>1, <4>2, <4>3
    <3>2. <<w[1], (w[1] + w[2]) \div 2>> \in D /\ <<(w[1] + w[2]) \div 2 + 1, w[2]>> \in D
      <4>1. \A x, y \in 0 .. n : <<x, y>> \in D
        BY ONLY <1>6
      <4>2. w[1] \in 0 .. n /\ w[2] \in 0 .. n
        BY <1>4
      <4>3. QED
        BY ONLY <3>1, <4>1, <4>2
    <3>3. QED
      BY <2>2, <3>2
  <2>3. QED
    BY <2>1, <2>2
<1>10. ASSUME NEW w \in D, NEW f \in [D -> V], NEW h \in [D -> V], SameBelow(D, rank, rank[w], f, h)
       PROVE  G[w][f] = G[w][h]
  <2>1. CASE w[1] >= w[2]
    BY <2>1
  <2>2. CASE ~(w[1] >= w[2])
    <3> DEFINE mid == (w[1] + w[2]) \div 2
    <3>1. w[1] \in 0 .. n /\ w[2] \in 0 .. n /\ rank[w] = w[2] - w[1]
      BY <1>4, <1>7, <2>2
    <3>2. mid \in 0 .. n /\ mid + 1 \in 0 .. n /\ w[1] <= mid /\ mid < w[2] /\ mid \in 0 .. n - 1
      <4>1. PICK x \in 0 .. n, y \in 0 .. n : x = w[1] /\ y = w[2]
        BY <3>1
      <4>2. mid = (x + y) \div 2 /\ ~(x >= y)
        BY <2>2, <4>1
      <4>3. mid + 1 \in 0 .. n /\ x <= mid /\ mid < y /\ mid \in 0 .. n - 1
        BY <1>5, <4>2
      <4>4. mid \in 0 .. n
        BY <1>2, <4>3
      <4>5. QED
        BY <4>1, <4>3, <4>4
    <3> HIDE DEF mid
    <3>3. <<w[1], mid>> \in D /\ <<mid + 1, w[2]>> \in D
      <4>0. \A x, y \in 0 .. n : <<x, y>> \in D
        BY <1>6
      <4>1. \E v \in D : v = <<w[1], mid>>
        BY <4>0, <3>1, <3>2
      <4>2. \E v \in D : v = <<mid + 1, w[2]>>
        BY <4>0, <3>1, <3>2
      <4>3. QED
        BY <4>1, <4>2
    <3>4. rank[<<w[1], mid>>] < rank[w] /\ rank[<<mid + 1, w[2]>>] < rank[w]
      <4>1. rank[<<w[1], mid>>] = (IF w[1] >= mid THEN 0 ELSE mid - w[1])
            /\ rank[<<mid + 1, w[2]>>] = (IF mid + 1 >= w[2] THEN 0 ELSE w[2] - (mid + 1))
        BY <1>7, <3>1, <3>2
      <4>2. \A x, y, m \in 0 .. n : x <= m /\ m < y =>
                /\ (IF x >= m THEN 0 ELSE m - x) < y - x
                /\ (IF m + 1 >= y THEN 0 ELSE y - (m + 1)) < y - x
        BY ONLY <1>2
      <4>3. QED
        BY ONLY <3>1, <3>2, <4>1, <4>2
    <3>5. f[<<w[1], mid>>] = h[<<w[1], mid>>] /\ f[<<mid + 1, w[2]>>] = h[<<mid + 1, w[2]>>]
      BY <1>10, <3>3, <3>4 DEF SameBelow
    <3>6. \A g \in [D -> V] : G[w][g] = IF Outputs!OutputAt(s, mid).time > t
                                        THEN g[<<w[1], mid>>] ELSE g[<<mid + 1, w[2]>>]
      BY <2>2 DEF mid
    <3>7. QED
      BY <3>5, <3>6
  <2>3. QED
    BY <2>1, <2>2
<1>11. bound = [w \in D |-> LET mid == (w[1] + w[2]) \div 2
                            IN CASE w[1] >= w[2] -> w[1]
                                 [] w[1] < w[2] /\ Outputs!OutputAt(s, mid).time > t -> bound[<<w[1], mid>>]
                                 [] OTHER -> bound[<<mid + 1, w[2]>>]]
  <2>1. \E f \in [D -> V] : \A w \in D : f[w] = G[w][f]
    <3>1. G \in [D -> [[D -> V] -> V]]
      BY <1>9
    <3>2. V # {}
      BY <1>2
    <3> HIDE DEF G, D, V
    <3>3. QED
      <4>1. \A w \in D : \A f, h \in [D -> V] : SameBelow(D, rank, rank[w], f, h) => G[w][f] = G[w][h]
        BY <1>10
      <4>2. Rule(D, V, n, rank, G)
        BY <1>2, <1>8, <3>1, <3>2, <4>1 DEF Rule
      <4>3. QED
        BY <4>2, Recursion
  <2>2. PICK f \in [D -> V] : \A w \in D : f[w] = G[w][f]
    BY <2>1
  <2>3. \A w \in D : f[w] = LET mid == (w[1] + w[2]) \div 2
                            IN CASE w[1] >= w[2] -> w[1]
                                 [] w[1] < w[2] /\ Outputs!OutputAt(s, mid).time > t -> f[<<w[1], mid>>]
                                 [] OTHER -> f[<<mid + 1, w[2]>>]
    <3> SUFFICES ASSUME NEW w \in D
                 PROVE  f[w] = LET mid == (w[1] + w[2]) \div 2
                            IN CASE w[1] >= w[2] -> w[1]
                                 [] w[1] < w[2] /\ Outputs!OutputAt(s, mid).time > t -> f[<<w[1], mid>>]
                                 [] OTHER -> f[<<mid + 1, w[2]>>]
      OBVIOUS
    <3>1. f[w] = IF w[1] >= w[2] THEN w[1]
                 ELSE IF Outputs!OutputAt(s, (w[1] + w[2]) \div 2).time > t
                      THEN f[<<w[1], (w[1] + w[2]) \div 2>>]
                      ELSE f[<<(w[1] + w[2]) \div 2 + 1, w[2]>>]
      BY <2>2
    <3>2. w[1] \in Int /\ w[2] \in Int
      BY <1>4
    <3>3. QED
      BY <3>1, <3>2
  <2>4. f = [w \in D |-> LET mid == (w[1] + w[2]) \div 2
                            IN CASE w[1] >= w[2] -> w[1]
                                 [] w[1] < w[2] /\ Outputs!OutputAt(s, mid).time > t -> f[<<w[1], mid>>]
                                 [] OTHER -> f[<<mid + 1, w[2]>>]]
    BY <2>2, <2>3
  <2>5. QED
    BY <2>4, Zenon DEF D
<1> HIDE DEF bound, G
<1>12. \A x, y \in 0 .. n : bound[<<x, y>>] =
            IF x >= y THEN x
            ELSE IF Outputs!OutputAt(s, (x + y) \div 2).time > t
                 THEN bound[<<x, (x + y) \div 2>>]
                 ELSE bound[<<(x + y) \div 2 + 1, y>>]
  <2> SUFFICES ASSUME NEW x \in 0 .. n, NEW y \in 0 .. n
               PROVE  bound[<<x, y>>] =
                            IF x >= y THEN x
                            ELSE IF Outputs!OutputAt(s, (x + y) \div 2).time > t
                                 THEN bound[<<x, (x + y) \div 2>>]
                                 ELSE bound[<<(x + y) \div 2 + 1, y>>]
    OBVIOUS
  <2>1. PICK w \in D : w = <<x, y>> /\ w[1] = x /\ w[2] = y
    BY <1>6
  <2>2. x \in Int /\ y \in Int
    OBVIOUS
  <2>3. bound[w] = LET mid == (w[1] + w[2]) \div 2
                            IN CASE w[1] >= w[2] -> w[1]
                                 [] w[1] < w[2] /\ Outputs!OutputAt(s, mid).time > t -> bound[<<w[1], mid>>]
                                 [] OTHER -> bound[<<mid + 1, w[2]>>]
    BY <1>11
  <2>4. QED
    BY <2>1, <2>2, <2>3
<1> DEFINE Old(k) == k = 0 \/ Outputs!OutputAt(s, k - 1).time <= t
           S == {w \in D : w[1] <= w[2] /\ Old(w[1]) => bound[w] \in 0 .. n /\ Old(bound[w])}
<1>13. \A w \in D : (\A v \in D : rank[v] < rank[w] => v \in S) => w \in S
  <2> SUFFICES ASSUME NEW w \in D, \A v \in D : rank[v] < rank[w] => v \in S, w[1] <= w[2], Old(w[1])
               PROVE  bound[w] \in 0 .. n /\ Old(bound[w])
    OBVIOUS
  <2>1. PICK x \in 0 .. n, y \in 0 .. n : w = <<x, y>> /\ w[1] = x /\ w[2] = y
    BY <1>4
  <2>2. CASE x >= y
    BY <1>12, <2>1, <2>2
  <2>3. CASE ~(x >= y)
    <3> DEFINE mid == (x + y) \div 2
    <3>1. /\ mid \in 0 .. n /\ mid + 1 \in 0 .. n /\ x <= mid /\ mid < y /\ mid \in 0 .. n - 1
          /\ x \in Nat /\ y \in Nat
      BY <1>2, <1>5, <2>3
    <3>2. bound[<<x, y>>] = IF Outputs!OutputAt(s, mid).time > t
                            THEN bound[<<x, mid>>] ELSE bound[<<mid + 1, y>>]
      BY <1>12, <2>3
    <3> HIDE DEF mid
    <3>3. rank[<<x, mid>>] < rank[w] /\ rank[<<mid + 1, y>>] < rank[w]
      <4>1. rank[<<x, mid>>] = (IF x >= mid THEN 0 ELSE mid - x)
            /\ rank[<<mid + 1, y>>] = (IF mid + 1 >= y THEN 0 ELSE y - (mid + 1)) /\ rank[w] = y - x
        BY <1>7, <2>1, <2>3, <3>1
      <4>2. QED
        BY <2>3, <3>1, <4>1
    <3>4. CASE Outputs!OutputAt(s, mid).time > t
      <4>1. PICK v \in D : v = <<x, mid>> /\ v[1] = x /\ v[2] = mid
        BY <1>6, <3>1
      <4>2. v \in S
        BY <3>3, <4>1
      <4>3. bound[v] \in 0 .. n /\ Old(bound[v])
        BY <2>1, <3>1, <4>1, <4>2
      <4>4. QED
        BY <2>1, <3>2, <3>4, <4>1, <4>3
    <3>5. CASE ~(Outputs!OutputAt(s, mid).time > t)
      <4>1. PICK v \in D : v = <<mid + 1, y>> /\ v[1] = mid + 1 /\ v[2] = y
        BY <1>6, <3>1
      <4>2. v \in S
        BY <3>3, <4>1
      <4>3. mid + 1 <= y /\ mid + 1 - 1 = mid /\ Outputs!OutputAt(s, mid).time \in Nat
        BY <1>3, <3>1
      <4>4. Old(v[1])
        <5>1. Outputs!OutputAt(s, mid).time <= t
          BY <1>2, <3>5, <4>3
        <5>2. QED
          <6>1. PICK k : k = v[1] - 1
            OBVIOUS
          <6>2. k = mid
            BY <3>1, <4>1, <6>1
          <6>3. Outputs!OutputAt(s, k).time <= t
            BY <5>1, <6>2
          <6>4. QED
            BY <6>1, <6>3
      <4>5. bound[v] \in 0 .. n /\ Old(bound[v])
        BY <4>1, <4>2, <4>3, <4>4
      <4>6. QED
        BY <2>1, <3>2, <3>5, <4>1, <4>5
    <3>6. QED
      BY <3>4, <3>5
  <2>4. QED
    BY <2>2, <2>3
<1>14. bound[<<0, n>>] \in 0 .. n /\ Old(bound[<<0, n>>])
  <2>1. \A w \in D : w \in S
    <3> HIDE DEF S
    <3>1. Inductive(D, n, rank, S)
      BY <1>2, <1>8, <1>13 DEF Inductive
    <3>2. QED
      BY <3>1, Induction
  <2>2. PICK w \in D : w = <<0, n>> /\ w[1] = 0 /\ w[2] = n
    BY <1>2, <1>6
  <2>3. QED
    BY <1>2, <2>1, <2>2
<1>15. PICK k : k = bound[<<0, n>>] /\ k \in 0 .. n /\ k # 0 /\ Old(k) /\ Outputs!FindOutputIndex(r, s) = k - 1
  BY <1>1, <1>14 DEF Outputs!NoIndex
<1>16. s.outputs[k - 1 + 1].time <= s.now - Outputs!Age(r)
  BY <1>2, <1>15 DEF Outputs!OutputAt, t
<1>17. PICK i : i = k - 1
  OBVIOUS
<1>18. i \in 0 .. Len(s.outputs) - 1 /\ i + 1 \in DOMAIN s.outputs
  <2>0. k \in 0 .. n /\ k # 0
    BY <1>15
  <2>1. i \in 0 .. Len(s.outputs) - 1 /\ i + 1 \in 1 .. Len(s.outputs)
    BY ONLY <1>2, <1>17, <2>0
  <2>2. QED
    BY <2>1, OutputsTyped
<1>19. s.outputs[i + 1].time \in Nat /\ s.outputs[i + 1].time <= s.now - Outputs!Age(r)
  BY <1>16, <1>17, <1>18, OutputsTyped
<1>20. s.outputs[i + 1].time + Outputs!Age(r) <= s.now
  BY ONLY <1>2, <1>19
<1>21. QED
  BY <1>15, <1>17, <1>18, <1>20

\* Accepted is an output that is there, and was usable when it was asked or took
\* the place of one that was deleted; made at most the window before.
LEMMA OutputsAccepts ==
    ASSUME NEW r, r.window \in Nat, r.max \in Nat, r.minAge \in Nat, r.finalization \in Nat \ {0},
           NEW a, OutputsOK(a), NEW s, OutputsOK(s), OutputsKept(r, a, s),
           NEW c, c = Outputs!GetLatestContext(r, a), c # Outputs!NoIndex, NEW p \in Outputs!Witnesses(r, s),
           Outputs!GetStorageValues(r, s, c, p) = "ok"
    PROVE  Outputs!Promised(r, a, s, c, p) /\ Outputs!Recent(r, a, s, c, p)
<1>1. c \in 0 .. Len(a.outputs) - 1 /\ a.outputs[c + 1].time + Outputs!Age(r) <= a.now
  BY OutputFound DEF Outputs!GetLatestContext
<1>2. p.index \in 0 .. r.max
  BY DEF Outputs!Witnesses
<1>3. /\ Outputs!HasOutput(s, p.index) /\ Outputs!OutputAt(s, p.index).root = p.root
      /\ \/ p.index = c
         \/ /\ Outputs!HasOutput(s, c)
            /\ Outputs!CheckWindow(r, Outputs!OutputAt(s, c).time, Outputs!OutputAt(s, p.index).time) = "ok"
  BY DEF Outputs!GetStorageValues
<1>4. /\ Len(a.outputs) \in Nat /\ DOMAIN a.outputs = 1 .. Len(a.outputs)
      /\ Len(s.outputs) \in Nat /\ DOMAIN s.outputs = 1 .. Len(s.outputs)
      /\ a.now \in Nat /\ s.now \in Nat /\ Outputs!Age(r) \in Nat \ {0}
  BY OutputsTyped DEF OutputsOK, Outputs!Age, Outputs!Unfinalized
<1>5. c + 1 \in DOMAIN a.outputs /\ p.index + 1 \in DOMAIN s.outputs
  <2>1. c + 1 \in 1 .. Len(a.outputs)
    BY ONLY <1>1, <1>4
  <2>2. p.index < Len(s.outputs) /\ p.index \in Nat
    BY ONLY <1>2, <1>3, r.max \in Nat DEF Outputs!HasOutput, Outputs!NextOutputIndex
  <2>3. p.index + 1 \in 1 .. Len(s.outputs)
    BY ONLY <1>4, <2>2
  <2>4. QED
    BY ONLY <1>4, <2>1, <2>3
<1>6. a.outputs[c + 1].time \in Nat /\ s.outputs[p.index + 1].time \in Nat
  BY <1>5, OutputsTyped
<1>7. Outputs!HasOutput(s, c) => c + 1 \in DOMAIN s.outputs /\ s.outputs[c + 1].time \in Nat
  <2> HAVE Outputs!HasOutput(s, c)
  <2>1. c + 1 \in DOMAIN s.outputs
    BY ONLY <1>1, <1>4, Outputs!HasOutput(s, c) DEF Outputs!HasOutput, Outputs!NextOutputIndex
  <2>2. QED
    BY <2>1, OutputsTyped
<1>8. Outputs!HasOutput(s, c)
  BY <1>3
<1>9. /\ s.outputs[p.index + 1].time + r.window >= s.outputs[c + 1].time
      /\ s.outputs[p.index + 1].time <= s.outputs[c + 1].time
  <2>1. CASE p.index = c
    BY <1>6, <2>1
  <2>2. CASE Outputs!CheckWindow(r, Outputs!OutputAt(s, c).time, Outputs!OutputAt(s, p.index).time) = "ok"
    BY <1>6, <1>7, <1>8, <2>2 DEF Outputs!CheckWindow, Outputs!OutputAt
  <2>3. QED
    BY <1>3, <2>1, <2>2
<1>10. p.index \in Outputs!Usable(r, a) \/ (Outputs!Unfinalized(r) /\ Outputs!Replaced(a, s, c))
  <2>1. Outputs!Replaced(a, s, c) => Outputs!Unfinalized(r)
    <3> SUFFICES ASSUME ~Outputs!Unfinalized(r) PROVE ~Outputs!Replaced(a, s, c)
      OBVIOUS
    <3>1. Outputs!Final(r, a, c + 1)
      BY <1>1 DEF Outputs!Final, Outputs!Age
    <3>2. s.outputs[c + 1] = a.outputs[c + 1]
      BY <1>5, <3>1 DEF OutputsKept
    <3>3. QED
      BY <1>8, <3>2 DEF Outputs!Replaced, Outputs!OutputAt
  <2>2. CASE ~Outputs!Replaced(a, s, c)
    <3>1. s.outputs[c + 1] = a.outputs[c + 1]
      BY <2>2 DEF Outputs!Replaced, Outputs!OutputAt
    <3>2. s.outputs[p.index + 1].time + Outputs!Age(r) <= a.now
      <4>1. \A x, y, g, n \in Nat : x <= y /\ y + g <= n => x + g <= n
        OBVIOUS
      <4>2. QED
        <5>1. s.outputs[p.index + 1].time <= a.outputs[c + 1].time
          BY <1>9, <3>1
        <5>2. QED
          BY <1>1, <1>4, <1>6, <4>1, <5>1
    <3>3. ~(s.outputs[p.index + 1].time >= a.now)
      BY ONLY <1>4, <1>6, <3>2
    <3>4. p.index + 1 \in DOMAIN a.outputs /\ s.outputs[p.index + 1] = a.outputs[p.index + 1]
      BY <1>5, <3>3 DEF OutputsKept
    <3>5. p.index \in 0 .. Len(a.outputs) - 1
      BY <1>2, <1>4, <3>4
    <3>6. a.outputs[p.index + 1].time + Outputs!Age(r) <= a.now
      BY <3>2, <3>4
    <3>7. p.index \in Outputs!Usable(r, a)
      BY <3>5, <3>6 DEF Outputs!Usable, Outputs!OutputAt
    <3>8. QED
      BY <3>7
  <2>3. QED
    BY <2>1, <2>2
<1>11. QED
  BY <1>3, <1>9, <1>10 DEF Outputs!Promised, Outputs!Recent, Outputs!OutputAt

-----------------------------------------------------------------------------
(* NitroNodes.tla *)

\* A node of the rollup chain; what is made has a time after 0.
NitroNode == [prev : Nat, made : Nat \ {0}, staked : BOOLEAN, state : {"pending", "confirmed", "destroyed"}]

\* The chain of nodes, by types.
NitroTyped(s) ==
    /\ s = [now |-> s.now, confirmed |-> s.confirmed, nodes |-> s.nodes]
    /\ s.now \in Nat /\ s.nodes \in Seq(NitroNode)

\* What is confirmed follows what is confirmed.
NitroOK(s) ==
    /\ NitroTyped(s)
    /\ \A n \in Nitro!Nodes(s) :
            /\ Nitro!NodeAt(s, n).made <= s.now
            /\ n > 0 => Nitro!NodeAt(s, n).prev < n
            /\ n > 0 /\ Nitro!NodeAt(s, n).state = "confirmed" =>
                    Nitro!NodeAt(s, Nitro!NodeAt(s, n).prev).state = "confirmed"
    /\ s.confirmed \in Nitro!Nodes(s) /\ Nitro!NodeAt(s, s.confirmed).state = "confirmed"

\* A node stays, with the block it was made in, and confirmed if it was.
NitroKept(a, s) ==
    /\ a.now <= s.now
    /\ \A n \in Nitro!Nodes(a) :
            /\ n \in Nitro!Nodes(s)
            /\ Nitro!NodeAt(s, n).made = Nitro!NodeAt(a, n).made
            /\ Nitro!NodeAt(a, n).state = "confirmed" => Nitro!NodeAt(s, n).state = "confirmed"

\* Node n is at position n + 1.
LEMMA NitroNodesTyped ==
    ASSUME NEW s, NitroTyped(s)
    PROVE  /\ Len(s.nodes) \in Nat /\ DOMAIN s.nodes = 1 .. Len(s.nodes)
           /\ Nitro!Nodes(s) = 0 .. Len(s.nodes) - 1
           /\ \A n \in Nitro!Nodes(s) : n \in Nat /\ n + 1 \in DOMAIN s.nodes /\ Nitro!NodeAt(s, n) \in NitroNode
<1>1. s.nodes \in Seq(NitroNode) /\ Nitro!Nodes(s) = 0 .. Len(s.nodes) - 1
  BY DEF NitroTyped, Nitro!Nodes
<1>2. Len(s.nodes) \in Nat /\ DOMAIN s.nodes = 1 .. Len(s.nodes)
  BY <1>1, InSeq
<1>3. \A n \in Nitro!Nodes(s) : n \in Nat /\ n + 1 \in DOMAIN s.nodes
  BY <1>1, <1>2
<1>4. QED
  BY <1>1, <1>2, <1>3, InSeq DEF Nitro!NodeAt

\* One more node.
LEMMA NitroAppended ==
    ASSUME NEW s, NitroTyped(s), NEW node \in NitroNode, NEW t, t = [s EXCEPT !.nodes = Append(@, node)]
    PROVE  /\ NitroTyped(t) /\ t.now = s.now /\ t.confirmed = s.confirmed
           /\ Len(t.nodes) = Len(s.nodes) + 1
           /\ Nitro!Nodes(t) = Nitro!Nodes(s) \cup {Len(s.nodes)}
           /\ Nitro!NodeAt(t, Len(s.nodes)) = node
           /\ \A n \in Nitro!Nodes(s) : Nitro!NodeAt(t, n) = Nitro!NodeAt(s, n)
<1>1. t = [now |-> s.now, confirmed |-> s.confirmed, nodes |-> Append(s.nodes, node)]
  BY DEF NitroTyped
<1>2. /\ t.now = s.now /\ t.confirmed = s.confirmed /\ t.nodes = Append(s.nodes, node)
      /\ t = [now |-> t.now, confirmed |-> t.confirmed, nodes |-> t.nodes]
  BY <1>1
<1>3. /\ t.nodes \in Seq(NitroNode) /\ Len(t.nodes) = Len(s.nodes) + 1
      /\ t.nodes[Len(s.nodes) + 1] = node
      /\ \A k \in DOMAIN s.nodes : t.nodes[k] = s.nodes[k]
  BY <1>2, OneMore DEF NitroTyped
<1>4. NitroTyped(t)
  BY <1>2, <1>3 DEF NitroTyped
<1>5. /\ Len(s.nodes) \in Nat /\ Nitro!Nodes(s) = 0 .. Len(s.nodes) - 1
      /\ Nitro!Nodes(t) = 0 .. Len(t.nodes) - 1
      /\ \A n \in Nitro!Nodes(s) : n + 1 \in DOMAIN s.nodes
  BY <1>4, NitroNodesTyped
<1>6. Nitro!Nodes(t) = Nitro!Nodes(s) \cup {Len(s.nodes)}
  BY <1>3, <1>5
<1>7. QED
  BY <1>2, <1>3, <1>4, <1>5, <1>6 DEF Nitro!NodeAt

\* One node changed.
NitroWith(s, n, node, last) ==
    [now |-> s.now, confirmed |-> last, nodes |-> [s.nodes EXCEPT ![n + 1] = node]]

\* Changing one node leaves the others.
LEMMA NitroChanged ==
    ASSUME NEW s, NitroTyped(s), NEW n \in Nitro!Nodes(s), NEW node \in NitroNode, NEW last,
           NEW t, t = NitroWith(s, n, node, last)
    PROVE  /\ NitroTyped(t) /\ t.now = s.now /\ t.confirmed = last
           /\ Len(t.nodes) = Len(s.nodes)
           /\ Nitro!Nodes(t) = Nitro!Nodes(s)
           /\ Nitro!NodeAt(t, n) = node
           /\ \A m \in Nitro!Nodes(s) : m # n => Nitro!NodeAt(t, m) = Nitro!NodeAt(s, m)
<1>1. t = [now |-> s.now, confirmed |-> last, nodes |-> [s.nodes EXCEPT ![n + 1] = node]]
  BY DEF NitroWith
<1>2. /\ t.now = s.now /\ t.confirmed = last /\ t.nodes = [s.nodes EXCEPT ![n + 1] = node]
      /\ t = [now |-> t.now, confirmed |-> t.confirmed, nodes |-> t.nodes]
  BY <1>1
<1>3. s.nodes \in Seq(NitroNode) /\ n + 1 \in 1 .. Len(s.nodes) /\ n \in Nat
      /\ \A m \in Nitro!Nodes(s) : m \in Nat /\ m + 1 \in DOMAIN s.nodes
  BY NitroNodesTyped DEF NitroTyped
<1>4. /\ t.nodes \in Seq(NitroNode) /\ Len(t.nodes) = Len(s.nodes) /\ DOMAIN t.nodes = DOMAIN s.nodes
  BY <1>2, <1>3, ExceptSeq
<1>5. NitroTyped(t)
  BY <1>2, <1>4 DEF NitroTyped
<1>6. Nitro!Nodes(t) = Nitro!Nodes(s)
  BY <1>4 DEF Nitro!Nodes
<1>7. t.nodes[n + 1] = node /\ \A k \in DOMAIN s.nodes : k # n + 1 => t.nodes[k] = s.nodes[k]
  BY <1>2, <1>3
<1>8. \A m \in Nitro!Nodes(s) : m # n => m + 1 # n + 1
  BY <1>3
<1>9. QED
  BY <1>2, <1>3, <1>4, <1>5, <1>6, <1>7, <1>8 DEF Nitro!NodeAt

\* Staking, confirming and destroying keep what NitroOK and NitroKept say.
LEMMA NitroStep ==
    ASSUME NEW r, r.confirmation \in Nat, NEW s, NitroOK(s), NEW t \in Nitro!Moves(r, s)
    PROVE  NitroOK(t) /\ NitroKept(s, t) /\ Len(t.nodes) \in {Len(s.nodes), Len(s.nodes) + 1}
<1> DEFINE pending == {n \in Nitro!Nodes(s) : Nitro!NodeAt(s, n).state = "pending"}
           first == {n \in pending : \A m \in pending : n <= m}
           Stands(n) == Nitro!NodeAt(s, n).state = "confirmed"
<1>0. /\ NitroTyped(s) /\ s.now \in Nat /\ Len(s.nodes) \in Nat
      /\ Nitro!Nodes(s) = 0 .. Len(s.nodes) - 1
      /\ \A n \in Nitro!Nodes(s) :
            /\ n \in Nat /\ Nitro!NodeAt(s, n) \in NitroNode /\ Nitro!NodeAt(s, n).made <= s.now
            /\ n > 0 => Nitro!NodeAt(s, n).prev < n
            /\ n > 0 /\ Stands(n) => Stands(Nitro!NodeAt(s, n).prev)
      /\ s.confirmed \in Nitro!Nodes(s) /\ Stands(s.confirmed)
  BY NitroNodesTyped DEF NitroOK, NitroTyped
<1>1. \A n \in Nitro!Nodes(s) : n > 0 => Nitro!NodeAt(s, n).prev \in Nitro!Nodes(s)
  <2> SUFFICES ASSUME NEW n \in Nitro!Nodes(s), n > 0 PROVE Nitro!NodeAt(s, n).prev \in Nitro!Nodes(s)
    OBVIOUS
  <2>1. Nitro!NodeAt(s, n).prev \in Nat
    BY <1>0 DEF NitroNode
  <2>2. QED
    BY <1>0, <2>1
<1>2. CASE \E p \in pending \cup {s.confirmed} :
            t = [s EXCEPT !.nodes = Append(@, [prev |-> p, made |-> s.now, staked |-> TRUE, state |-> "pending"])]
  <2>1. PICK p \in pending \cup {s.confirmed} :
            t = [s EXCEPT !.nodes = Append(@, [prev |-> p, made |-> s.now, staked |-> TRUE, state |-> "pending"])]
    BY <1>2
  <2> DEFINE node == [prev |-> p, made |-> s.now, staked |-> TRUE, state |-> "pending"]
  <2>2. p \in Nitro!Nodes(s)
    BY <1>0, <2>1
  <2>3. s.now # 0
    <3>1. Nitro!NodeAt(s, s.confirmed).made \in Nat \ {0} /\ Nitro!NodeAt(s, s.confirmed).made <= s.now
      BY <1>0 DEF NitroNode
    <3>2. QED
      BY <1>0, <3>1
  <2>4. node \in NitroNode /\ node.prev = p /\ node.made = s.now /\ node.state # "confirmed"
    BY <1>0, <2>2, <2>3 DEF NitroNode
  <2> HIDE DEF node, pending
  <2>5. /\ NitroTyped(t) /\ t.now = s.now /\ t.confirmed = s.confirmed /\ Len(t.nodes) = Len(s.nodes) + 1
        /\ Nitro!Nodes(t) = Nitro!Nodes(s) \cup {Len(s.nodes)}
        /\ Nitro!NodeAt(t, Len(s.nodes)) = node
        /\ \A n \in Nitro!Nodes(s) : Nitro!NodeAt(t, n) = Nitro!NodeAt(s, n)
    BY <1>0, <2>1, <2>4, NitroAppended DEF node
  <2>6. ASSUME NEW n \in Nitro!Nodes(t)
        PROVE  /\ Nitro!NodeAt(t, n).made <= t.now
               /\ n > 0 => Nitro!NodeAt(t, n).prev < n
               /\ n > 0 /\ Nitro!NodeAt(t, n).state = "confirmed" =>
                        Nitro!NodeAt(t, Nitro!NodeAt(t, n).prev).state = "confirmed"
    <3>1. CASE n = Len(s.nodes)
      <4>1. p < n
        BY <1>0, <2>2, <3>1
      <4>2. QED
        BY <1>0, <2>4, <2>5, <3>1, <4>1
    <3>2. CASE n # Len(s.nodes)
      <4>1. n \in Nitro!Nodes(s) /\ Nitro!NodeAt(t, n) = Nitro!NodeAt(s, n)
        BY <2>5, <3>2
      <4>2. n > 0 => Nitro!NodeAt(t, Nitro!NodeAt(s, n).prev) = Nitro!NodeAt(s, Nitro!NodeAt(s, n).prev)
        BY <1>1, <2>5, <4>1
      <4>3. QED
        BY <1>0, <2>5, <4>1, <4>2
    <3>3. QED
      BY <3>1, <3>2
  <2>7. QED
    BY <1>0, <2>5, <2>6 DEF NitroOK, NitroKept
<1>3. CASE \E n \in Nitro!Nodes(s) : t = [s EXCEPT !.nodes[n + 1].staked = FALSE]
  <2>1. PICK n \in Nitro!Nodes(s) : t = [s EXCEPT !.nodes[n + 1].staked = FALSE]
    BY <1>3
  <2> DEFINE node == [Nitro!NodeAt(s, n) EXCEPT !.staked = FALSE]
  <2>2. Nitro!NodeAt(s, n) \in NitroNode
    BY <1>0
  <2>3. /\ node \in NitroNode /\ node.prev = Nitro!NodeAt(s, n).prev /\ node.made = Nitro!NodeAt(s, n).made
        /\ node.state = Nitro!NodeAt(s, n).state
    BY <2>2 DEF NitroNode
  <2>4. t = NitroWith(s, n, node, s.confirmed)
    <3>1. s = [now |-> s.now, confirmed |-> s.confirmed, nodes |-> s.nodes]
      BY <1>0 DEF NitroTyped
    <3>2. QED
      BY <2>1, <3>1 DEF Nitro!NodeAt, NitroWith
  <2> HIDE DEF node
  <2>5. /\ NitroTyped(t) /\ t.now = s.now /\ t.confirmed = s.confirmed /\ Len(t.nodes) = Len(s.nodes)
        /\ Nitro!Nodes(t) = Nitro!Nodes(s) /\ Nitro!NodeAt(t, n) = node
        /\ \A m \in Nitro!Nodes(s) : m # n => Nitro!NodeAt(t, m) = Nitro!NodeAt(s, m)
    <3>1. NitroTyped(s) /\ n \in Nitro!Nodes(s) /\ node \in NitroNode
      BY <1>0, <2>3
    <3>2. QED
      BY ONLY <2>4, <3>1, NitroChanged
  <2>6. \A m \in Nitro!Nodes(s) :
            /\ Nitro!NodeAt(t, m).prev = Nitro!NodeAt(s, m).prev
            /\ Nitro!NodeAt(t, m).made = Nitro!NodeAt(s, m).made
            /\ Nitro!NodeAt(t, m).state = Nitro!NodeAt(s, m).state
    BY <2>3, <2>5
  <2>7. QED
    BY <1>0, <1>1, <2>5, <2>6 DEF NitroOK, NitroKept
<1>4. CASE \E n \in first : \E state \in Nitro!Resolved(r, s, n) :
            t = [s EXCEPT !.nodes[n + 1].state = state,
                          !.confirmed = IF state = "confirmed" THEN n ELSE @]
  <2>0. PICK n \in first : \E state \in Nitro!Resolved(r, s, n) :
            t = [s EXCEPT !.nodes[n + 1].state = state,
                          !.confirmed = IF state = "confirmed" THEN n ELSE @]
    BY <1>4
  <2>1. PICK state \in Nitro!Resolved(r, s, n) :
            t = [s EXCEPT !.nodes[n + 1].state = state,
                          !.confirmed = IF state = "confirmed" THEN n ELSE @]
    BY <2>0
  <2> DEFINE node == [Nitro!NodeAt(s, n) EXCEPT !.state = state]
             last == IF state = "confirmed" THEN n ELSE s.confirmed
  <2>2. Nitro!NodeAt(s, n) \in NitroNode /\ n \in Nitro!Nodes(s) /\ ~Stands(n)
    BY <1>0
  <2>3. /\ state \in {"confirmed", "destroyed"}
        /\ state = "confirmed" => Nitro!NodeAt(s, n).prev = s.confirmed
    BY <2>1 DEF Nitro!Resolved
  <2>4. /\ node \in NitroNode /\ node.prev = Nitro!NodeAt(s, n).prev /\ node.made = Nitro!NodeAt(s, n).made
        /\ node.state = state
    BY <2>2, <2>3 DEF NitroNode
  <2>5. t = NitroWith(s, n, node, last)
    <3>1. s = [now |-> s.now, confirmed |-> s.confirmed, nodes |-> s.nodes]
      BY <1>0 DEF NitroTyped
    <3>2. QED
      BY <2>1, <3>1 DEF Nitro!NodeAt, NitroWith
  <2>6. last \in Nitro!Nodes(s) /\ (last = n <=> state = "confirmed")
    BY <1>0, <2>2
  <2> HIDE DEF node, last, first
  <2>7. /\ NitroTyped(t) /\ t.now = s.now /\ t.confirmed = last /\ Len(t.nodes) = Len(s.nodes)
        /\ Nitro!Nodes(t) = Nitro!Nodes(s) /\ Nitro!NodeAt(t, n) = node
        /\ \A m \in Nitro!Nodes(s) : m # n => Nitro!NodeAt(t, m) = Nitro!NodeAt(s, m)
    <3>1. NitroTyped(s) /\ n \in Nitro!Nodes(s) /\ node \in NitroNode
      BY <1>0, <2>2, <2>4
    <3>2. QED
      BY ONLY <2>5, <3>1, NitroChanged
  <2>8. \A m \in Nitro!Nodes(s) :
            /\ Nitro!NodeAt(t, m).prev = Nitro!NodeAt(s, m).prev
            /\ Nitro!NodeAt(t, m).made = Nitro!NodeAt(s, m).made
            /\ Stands(m) => Nitro!NodeAt(t, m).state = "confirmed"
            /\ Nitro!NodeAt(t, m).state = "confirmed" => Stands(m) \/ (m = n /\ state = "confirmed")
    BY <2>2, <2>4, <2>7
  <2>9. Nitro!NodeAt(t, t.confirmed).state = "confirmed"
    <3>1. CASE state = "confirmed"
      BY <2>4, <2>6, <2>7, <3>1
    <3>2. CASE state # "confirmed"
      BY <1>0, <2>7, <2>8, <3>2 DEF last
    <3>3. QED
      BY <3>1, <3>2
  <2>10. ASSUME NEW m \in Nitro!Nodes(t), m > 0, Nitro!NodeAt(t, m).state = "confirmed"
         PROVE  Nitro!NodeAt(t, Nitro!NodeAt(t, m).prev).state = "confirmed"
    <3>1. m \in Nitro!Nodes(s) /\ Nitro!NodeAt(t, m).prev = Nitro!NodeAt(s, m).prev
          /\ Nitro!NodeAt(s, m).prev \in Nitro!Nodes(s)
      BY <1>1, <2>7, <2>8, <2>10
    <3>2. Stands(Nitro!NodeAt(s, m).prev)
      BY <1>0, <2>3, <2>8, <2>10, <3>1
    <3>3. QED
      BY <2>8, <3>1, <3>2
  <2>11. QED
    <3>1. NitroOK(t)
      BY <1>0, <2>6, <2>7, <2>8, <2>9, <2>10 DEF NitroOK
    <3>2. NitroKept(s, t)
      BY <1>0, <2>7, <2>8 DEF NitroKept
    <3>3. QED
      BY <2>7, <3>1, <3>2
<1>5. QED
  <2>1. \/ t \in {[s EXCEPT !.nodes = Append(@, [prev |-> p, made |-> s.now,
                                                staked |-> TRUE, state |-> "pending"])] :
                   p \in {p \in pending \cup {s.confirmed} : Len(s.nodes) < r.max}}
        \/ t \in {[s EXCEPT !.nodes[n + 1].staked = FALSE] : n \in {n \in Nitro!Nodes(s) : Nitro!Exists(s, n)}}
        \/ t \in UNION {{[s EXCEPT !.nodes[n + 1].state = state,
                                   !.confirmed = IF state = "confirmed" THEN n ELSE @] :
                             state \in Nitro!Resolved(r, s, n)} : n \in first}
    BY DEF Nitro!Moves
  <2> DEFINE After(n, state) == [s EXCEPT !.nodes[n + 1].state = state,
                                          !.confirmed = IF state = "confirmed" THEN n ELSE @]
  <2>2. ASSUME t \in UNION {{After(n, state) : state \in Nitro!Resolved(r, s, n)} : n \in first}
        PROVE  \E n \in first : \E state \in Nitro!Resolved(r, s, n) : t = After(n, state)
    <3> HIDE DEF After, first
    <3>1. QED
      BY <2>2
  <2>3. QED
    BY <1>2, <1>3, <1>4, <2>1, <2>2

\* So does time.
LEMMA NitroTick ==
    ASSUME NEW s, NitroOK(s), NEW t, t = [s EXCEPT !.now = @ + 1]
    PROVE  NitroOK(t) /\ NitroKept(s, t)
<1>1. t = [now |-> s.now + 1, confirmed |-> s.confirmed, nodes |-> s.nodes]
  BY DEF NitroOK, NitroTyped
<1>2. /\ t.now = s.now + 1 /\ t.confirmed = s.confirmed /\ t.nodes = s.nodes
      /\ t = [now |-> t.now, confirmed |-> t.confirmed, nodes |-> t.nodes]
  BY <1>1
<1>3. /\ Nitro!Nodes(t) = Nitro!Nodes(s) /\ \A n : Nitro!NodeAt(t, n) = Nitro!NodeAt(s, n)
  BY <1>2 DEF Nitro!Nodes, Nitro!NodeAt
<1>4. s.now \in Nat /\ \A n \in Nitro!Nodes(s) : Nitro!NodeAt(s, n).made \in Nat
  BY NitroNodesTyped DEF NitroOK, NitroTyped, NitroNode
<1>5. NitroTyped(t)
  BY <1>2, <1>4 DEF NitroOK, NitroTyped
<1>6. \A n \in Nitro!Nodes(t) : Nitro!NodeAt(t, n).made <= t.now
  BY <1>2, <1>3, <1>4 DEF NitroOK
<1>7. QED
  BY <1>2, <1>3, <1>4, <1>5, <1>6 DEF NitroOK, NitroKept

\* What two stretches of time keep, both together keep.
LEMMA NitroOn ==
    ASSUME NEW a, NitroOK(a), NEW s, NitroOK(s), NEW t, NitroOK(t), NitroKept(a, s), NitroKept(s, t)
    PROVE  NitroKept(a, t)
<1>1. a.now \in Nat /\ s.now \in Nat /\ t.now \in Nat
  BY DEF NitroOK, NitroTyped
<1>2. QED
  BY <1>1 DEF NitroKept

\* What the finder finds, somebody has a stake on, and it is old enough.
LEMMA NitroFound ==
    ASSUME NEW r, r.minAge \in Nat, NEW s, NitroOK(s), Nitro!GetLatestContext(r, s) # Nitro!NoIndex
    PROVE  LET c == Nitro!GetLatestContext(r, s)
           IN /\ c \in Nitro!Nodes(s)
              /\ ~Nitro!Unfinalized(r) => c = s.confirmed
              /\ Nitro!Unfinalized(r) => /\ Nitro!IsNodeUsable(s, c)
                                         /\ Nitro!CreatedAtBlock(s, c) <= s.now - r.minAge
<1> DEFINE D == Nitro!Nodes(s)
           Good(n) == Nitro!CreatedAtBlock(s, n) <= s.now - r.minAge /\ Nitro!IsNodeUsable(s, n)
           V == {Nitro!NoIndex} \cup D
           down == CHOOSE down : down = [n \in Nitro!Nodes(s) |->
                        IF Nitro!CreatedAtBlock(s, n) <= s.now - r.minAge
                                /\ Nitro!IsNodeUsable(s, n) THEN n
                        ELSE IF n = 0 THEN Nitro!NoIndex ELSE down[n - 1]]
           c == Nitro!GetLatestContext(r, s)
           last == Nitro!LatestNodeCreated(s, s.now)
<1>1. c = IF ~Nitro!Unfinalized(r) THEN s.confirmed ELSE down[last]
  BY DEF Nitro!GetLatestContext
<1>2. /\ Len(s.nodes) \in Nat /\ D = 0 .. Len(s.nodes) - 1 /\ s.now \in Nat /\ s.confirmed \in D
      /\ \A n \in D : Nitro!NodeAt(s, n).made <= s.now
  BY NitroNodesTyped DEF NitroOK, NitroTyped
<1>3. CASE ~Nitro!Unfinalized(r)
  BY <1>1, <1>2, <1>3
<1>4. CASE Nitro!Unfinalized(r)
  <2> DEFINE G == [n \in D |-> [h \in [D -> V] |->
                        IF Good(n) THEN n ELSE IF n = 0 THEN Nitro!NoIndex ELSE h[n - 1]]]
             rank == [n \in D |-> n]
  <2> HIDE DEF c, last, D, Good
  <2>1. \A n \in D : rank[n] = n /\ n \in 0 .. Len(s.nodes) /\ (n # 0 => n - 1 \in D)
    BY <1>2
  <2>2. rank \in [D -> 0 .. Len(s.nodes)]
    BY <2>1
  <2> HIDE DEF rank
  <2>3. \A n \in D : \A f, h \in [D -> V] : SameBelow(D, rank, rank[n], f, h) => G[n][f] = G[n][h]
    <3> SUFFICES ASSUME NEW n \in D, NEW f \in [D -> V], NEW h \in [D -> V],
                        SameBelow(D, rank, rank[n], f, h)
                 PROVE  G[n][f] = G[n][h]
      OBVIOUS
    <3>1. n # 0 => f[n - 1] = h[n - 1]
      <4> HAVE n # 0
      <4>1. n - 1 \in D /\ rank[n - 1] = n - 1 /\ rank[n] = n /\ n \in Nat
        BY <2>1
      <4>2. rank[n - 1] < rank[n]
        BY <4>1
      <4>3. QED
        BY <4>1, <4>2 DEF SameBelow
    <3>2. QED
      BY <3>1
  <2>4. G \in [D -> [[D -> V] -> V]]
    <3> SUFFICES ASSUME NEW n \in D, NEW h \in [D -> V] PROVE G[n][h] \in V
      OBVIOUS
    <3>1. n # 0 => h[n - 1] \in V
      BY <2>1
    <3>2. QED
      BY <3>1
  <2>5. PICK f \in [D -> V] : \A n \in D : f[n] = G[n][f]
    <3>1. V # {}
      OBVIOUS
    <3> HIDE DEF V, G
    <3>2. Rule(D, V, Len(s.nodes), rank, G)
      BY <1>2, <2>2, <2>3, <2>4, <3>1 DEF Rule
    <3>3. QED
      BY <3>2, Recursion
  <2>6. f = [n \in D |-> IF Nitro!CreatedAtBlock(s, n) <= s.now - r.minAge
                                /\ Nitro!IsNodeUsable(s, n) THEN n
                         ELSE IF n = 0 THEN Nitro!NoIndex ELSE f[n - 1]]
    <3>1. \A n \in D : f[n] = IF Nitro!CreatedAtBlock(s, n) <= s.now - r.minAge
                                        /\ Nitro!IsNodeUsable(s, n) THEN n
                                ELSE IF n = 0 THEN Nitro!NoIndex ELSE f[n - 1]
      BY <2>5 DEF Good
    <3>2. QED
      BY <2>5, <3>1
  <2>7. down = [n \in D |-> IF Nitro!CreatedAtBlock(s, n) <= s.now - r.minAge
                                /\ Nitro!IsNodeUsable(s, n) THEN n
                         ELSE IF n = 0 THEN Nitro!NoIndex ELSE down[n - 1]]
    BY <2>6 DEF D
  <2> HIDE DEF down
  <2>8. \A n \in D : down[n] = IF Good(n) THEN n ELSE IF n = 0 THEN Nitro!NoIndex ELSE down[n - 1]
    BY <2>7 DEF Good
  <2> DEFINE S == {n \in D : down[n] = Nitro!NoIndex \/ (down[n] \in D /\ Good(down[n]))}
  <2>9. \A n \in D : (\A m \in D : rank[m] < rank[n] => m \in S) => n \in S
    <3> SUFFICES ASSUME NEW n \in D, \A m \in D : rank[m] < rank[n] => m \in S PROVE n \in S
      OBVIOUS
    <3>1. CASE Good(n) \/ n = 0
      BY <2>8, <3>1
    <3>2. CASE ~Good(n) /\ n # 0
      <4>1. n - 1 \in D /\ rank[n - 1] = n - 1 /\ rank[n] = n /\ n \in Nat
        BY <2>1, <3>2
      <4>2. rank[n - 1] < rank[n]
        BY <4>1
      <4>3. n - 1 \in S
        BY <4>1, <4>2
      <4>4. down[n] = down[n - 1]
        BY <2>8, <3>2
      <4>5. QED
        BY <4>3, <4>4
    <3>3. QED
      BY <3>1, <3>2
  <2>10. \A n \in D : n \in S
    <3> HIDE DEF S
    <3>1. Inductive(D, Len(s.nodes), rank, S)
      BY <1>2, <2>2, <2>9 DEF Inductive
    <3>2. QED
      BY <3>1, Induction
  <2>11. last \in D
    <3> DEFINE old == {n \in D : Nitro!NodeAt(s, n).made <= s.now}
    <3>1. old \subseteq 0 .. Len(s.nodes) /\ s.confirmed \in old
      BY <1>2, <2>1
    <3>2. \E n \in old : \A m \in old : m <= n
      <4> HIDE DEF old
      <4>1. QED
        BY <1>2, <3>1, GreatestOf
    <3>3. \E n \in D : /\ Nitro!NodeAt(s, n).made <= s.now
                       /\ \A m \in D : Nitro!NodeAt(s, m).made <= s.now => m <= n
      BY <3>2
    <3>4. QED
      BY <3>3 DEF last, D, Nitro!LatestNodeCreated
  <2>12. c = down[last]
    BY <1>1, <1>4
  <2>13. c \in D /\ Good(c)
    BY <2>10, <2>11, <2>12 DEF c
  <2>14. QED
    BY <1>4, <2>13 DEF Good, c, D
<1>5. QED
  BY <1>3, <1>4

\* A node that is not the genesis follows one made before it.
LEMMA NitroBefore ==
    ASSUME NEW s, NitroOK(s)
    PROVE  /\ Len(s.nodes) \in Nat
           /\ \A m \in Nitro!Nodes(s) : m \in 0 .. Len(s.nodes)
           /\ \A m \in Nitro!Nodes(s) : m # 0 =>
                    Nitro!NodeAt(s, m).prev \in Nitro!Nodes(s) /\ Nitro!NodeAt(s, m).prev < m
<1>1. Len(s.nodes) \in Nat /\ Nitro!Nodes(s) = 0 .. Len(s.nodes) - 1
      /\ \A m \in Nitro!Nodes(s) : Nitro!NodeAt(s, m) \in NitroNode
  BY NitroNodesTyped DEF NitroOK
<1>2. \A m \in Nitro!Nodes(s) : m > 0 => Nitro!NodeAt(s, m).prev < m
  BY DEF NitroOK
<1>3. \A m \in Nitro!Nodes(s) : Nitro!NodeAt(s, m).prev \in Nat
  BY <1>1 DEF NitroNode
<1>4. QED
  BY <1>1, <1>2, <1>3

\* The walk from a node comes to the one it follows, and on from there.
LEMMA NitroWalks ==
    ASSUME NEW s, NitroOK(s), NEW c \in Nitro!Nodes(s)
    PROVE  Nitro!Chain(s, c) = IF c = 0 THEN {}
                               ELSE {Nitro!NodeAt(s, c).prev} \cup Nitro!Chain(s, Nitro!NodeAt(s, c).prev)
<1> DEFINE D == Nitro!Nodes(s)
           V == SUBSET D
           prev(m) == Nitro!NodeAt(s, m).prev
           up == CHOOSE up : up = [m \in Nitro!Nodes(s) |->
                        IF m = 0 THEN {} ELSE {Nitro!NodeAt(s, m).prev} \cup up[Nitro!NodeAt(s, m).prev]]
           G == [m \in D |-> [h \in [D -> V] |-> IF m = 0 THEN {} ELSE {prev(m)} \cup h[prev(m)]]]
           rank == [m \in D |-> m]
<1>1. \A m \in D : Nitro!Chain(s, m) = up[m]
  BY DEF Nitro!Chain
<1>2. Len(s.nodes) \in Nat /\ \A m \in D : m \in 0 .. Len(s.nodes) /\ (m # 0 => prev(m) \in D /\ prev(m) < m)
  BY NitroBefore
<1>3. \A m \in D : rank[m] = m
  OBVIOUS
<1>4. rank \in [D -> 0 .. Len(s.nodes)]
  BY <1>2
<1> HIDE DEF D, rank, prev
<1>5. \A m \in D : \A f, h \in [D -> V] : SameBelow(D, rank, rank[m], f, h) => G[m][f] = G[m][h]
  <2> SUFFICES ASSUME NEW m \in D, NEW f \in [D -> V], NEW h \in [D -> V], SameBelow(D, rank, rank[m], f, h)
               PROVE  G[m][f] = G[m][h]
    OBVIOUS
  <2>1. m # 0 => f[prev(m)] = h[prev(m)]
    BY <1>2, <1>3 DEF SameBelow
  <2>2. QED
    BY <2>1
<1>6. G \in [D -> [[D -> V] -> V]]
  <2> SUFFICES ASSUME NEW m \in D, NEW h \in [D -> V] PROVE G[m][h] \in V
    OBVIOUS
  <2>1. m # 0 => prev(m) \in D /\ h[prev(m)] \in V
    BY <1>2
  <2>2. QED
    BY <2>1
<1>7. PICK f \in [D -> V] : \A m \in D : f[m] = G[m][f]
  <2>1. V # {}
    OBVIOUS
  <2> HIDE DEF V, G
  <2>2. Rule(D, V, Len(s.nodes), rank, G)
    BY <1>2, <1>4, <1>5, <1>6, <2>1 DEF Rule
  <2>3. QED
    BY <2>2, Recursion
<1>8. f = [m \in D |-> IF m = 0 THEN {} ELSE {Nitro!NodeAt(s, m).prev} \cup f[Nitro!NodeAt(s, m).prev]]
  BY <1>7 DEF prev
<1>9. up = [m \in D |-> IF m = 0 THEN {} ELSE {prev(m)} \cup up[prev(m)]]
  BY <1>8 DEF D, prev
<1> HIDE DEF up, G
<1>10. c \in D /\ (c # 0 => prev(c) \in D)
  BY <1>2 DEF D
<1>11. QED
  BY <1>1, <1>9, <1>10 DEF prev

\* From what is confirmed, the walk comes to what is confirmed.
LEMMA NitroChain ==
    ASSUME NEW s, NitroOK(s), NEW c \in Nitro!Nodes(s), Nitro!NodeAt(s, c).state = "confirmed",
           NEW x \in Nitro!Chain(s, c)
    PROVE  x \in Nitro!Nodes(s) /\ Nitro!NodeAt(s, x).state = "confirmed"
<1> DEFINE D == Nitro!Nodes(s)
           prev(m) == Nitro!NodeAt(s, m).prev
           Stands(m) == Nitro!NodeAt(s, m).state = "confirmed"
           up(m) == Nitro!Chain(s, m)
           rank == [m \in D |-> m]
           S == {m \in D : Stands(m) => \A y \in up(m) : y \in D /\ Stands(y)}
<1>1. /\ Len(s.nodes) \in Nat
      /\ \A m \in D : m \in 0 .. Len(s.nodes) /\ (m # 0 => prev(m) \in D /\ prev(m) < m)
  BY NitroBefore
<1>2. \A m \in D : m # 0 /\ Stands(m) => Stands(prev(m))
  <2>1. \A m \in D : m > 0 /\ Stands(m) => Stands(prev(m))
    BY DEF NitroOK
  <2> HIDE DEF D, prev, Stands
  <2>2. QED
    BY <1>1, <2>1
<1>3. rank \in [D -> 0 .. Len(s.nodes)] /\ \A m \in D : rank[m] = m
  BY <1>1
<1>4. \A m \in D : up(m) = IF m = 0 THEN {} ELSE {prev(m)} \cup up(prev(m))
  BY NitroWalks
<1> HIDE DEF D, prev, Stands, up, rank
<1>5. \A m \in D : (\A l \in D : rank[l] < rank[m] => l \in S) => m \in S
  <2> SUFFICES ASSUME NEW m \in D, \A l \in D : rank[l] < rank[m] => l \in S PROVE m \in S
    OBVIOUS
  <2>1. CASE m = 0
    BY <1>4, <2>1
  <2>2. CASE m # 0
    <3>1. prev(m) \in D /\ prev(m) \in S /\ (Stands(m) => Stands(prev(m)))
      BY <1>1, <1>2, <1>3, <2>2
    <3>2. up(m) = {prev(m)} \cup up(prev(m))
      BY <1>4, <2>2
    <3>3. QED
      BY <3>1, <3>2
  <2>3. QED
    BY <2>1, <2>2
<1>6. \A m \in D : m \in S
  <2> HIDE DEF S
  <2>1. Inductive(D, Len(s.nodes), rank, S)
    BY <1>1, <1>3, <1>5 DEF Inductive
  <2>2. QED
    BY <2>1, Induction
<1>7. QED
  BY <1>6 DEF D, Stands, up

\* Accepted is a node that is confirmed or, before it is, one that has a stake
\* or was asked for, and was old enough.
LEMMA NitroAccepts ==
    ASSUME NEW r, r.window \in Nat, r.minAge \in Nat,
           NEW a, NitroOK(a), NEW s, NitroOK(s), NitroKept(a, s),
           NEW c, c = Nitro!GetLatestContext(r, a), c # Nitro!NoIndex, NEW p,
           Nitro!GetStorageValues(r, s, c, p) = "ok"
    PROVE  Nitro!Promised(r, a, s, c, p) /\ Nitro!Recent(r, a, s, c, p)
<1>1. /\ c \in Nitro!Nodes(a)
      /\ ~Nitro!Unfinalized(r) => c = a.confirmed
      /\ Nitro!Unfinalized(r) => /\ Nitro!IsNodeUsable(a, c)
                                 /\ Nitro!CreatedAtBlock(a, c) <= a.now - r.minAge
  BY NitroFound
<1>2. /\ p.index # c /\ ~Nitro!Unfinalized(r) => p.index \in Nitro!Chain(s, c)
      /\ p.index # c /\ Nitro!Unfinalized(r) => Nitro!IsNodeUsable(s, p.index)
      /\ Nitro!CheckWindow(r, Nitro!CreatedAtBlock(s, c), Nitro!CreatedAtBlock(s, p.index)) = "ok"
      /\ Nitro!Exists(s, p.index)
  BY DEF Nitro!GetStorageValues
<1>3. p.index \in Nitro!Nodes(s) /\ c \in Nitro!Nodes(s)
  BY <1>1, <1>2 DEF Nitro!Exists, NitroKept
<1>4. /\ Nitro!NodeAt(s, p.index).made \in Nat \ {0} /\ Nitro!NodeAt(s, c).made \in Nat
      /\ a.now \in Nat
  BY <1>3, NitroNodesTyped DEF NitroOK, NitroTyped, NitroNode
<1>5. /\ Nitro!CreatedAtBlock(s, p.index) = Nitro!NodeAt(s, p.index).made
      /\ Nitro!CreatedAtBlock(s, c) \in {0, Nitro!NodeAt(s, c).made}
  BY <1>2 DEF Nitro!CreatedAtBlock
<1>6. /\ Nitro!CreatedAtBlock(s, p.index) <= Nitro!CreatedAtBlock(s, c)
      /\ Nitro!CreatedAtBlock(s, p.index) + r.window >= Nitro!CreatedAtBlock(s, c)
  BY <1>2, <1>4, <1>5 DEF Nitro!CheckWindow
<1>7. CASE Nitro!Unfinalized(r)
  <2>1. Nitro!CreatedAtBlock(a, c) = Nitro!NodeAt(a, c).made
    BY <1>1, <1>7 DEF Nitro!IsNodeUsable, Nitro!CreatedAtBlock
  <2>2. Nitro!NodeAt(s, c).made = Nitro!NodeAt(a, c).made
    BY <1>1 DEF NitroKept
  <2>3. Nitro!NodeAt(s, c).made <= a.now - r.minAge
    BY <1>1, <1>7, <2>1, <2>2
  <2>4. Nitro!NodeAt(s, p.index).made <= Nitro!NodeAt(s, c).made
    BY <1>4, <1>5, <1>6
  <2>5. Nitro!NodeAt(s, p.index).made + r.minAge <= a.now
    BY <1>4, <2>3, <2>4
  <2>6. QED
    BY <1>2, <1>6, <1>7, <2>5 DEF Nitro!Promised, Nitro!Recent
<1>8. CASE ~Nitro!Unfinalized(r)
  <2>1. Nitro!NodeAt(s, c).state = "confirmed"
    BY <1>1, <1>8 DEF NitroOK, NitroKept
  <2>2. Nitro!NodeAt(s, p.index).state = "confirmed"
    BY <1>2, <1>3, <1>8, <2>1, NitroChain
  <2>3. QED
    BY <1>2, <1>6, <1>8, <2>2 DEF Nitro!Promised, Nitro!Recent
<1>9. QED
  BY <1>7, <1>8

-----------------------------------------------------------------------------
(* BoLDAssertions.tla *)

\* An assertion, and an event of the rollup contract about one.
BoldNode == [parent : Nat, made : Nat, status : {"pending", "confirmed"}, rivalled : BOOLEAN, finished : BOOLEAN]
BoldEvent == [name : {"created", "confirmed"}, hash : Nat, block : Nat]

\* The assertions and events, by types.
BoldTyped(s) ==
    /\ s = [now |-> s.now, confirmed |-> s.confirmed, nodes |-> s.nodes, log |-> s.log]
    /\ s.now \in Nat /\ s.nodes \in Seq(BoldNode) /\ s.log \in Seq(BoldEvent)

\* A parent is older than its child, has no second one unless it says so, and
\* there is an event for everything confirmed.
BoldOK(s) ==
    /\ BoldTyped(s)
    /\ s.confirmed \in DOMAIN s.nodes
    /\ \A a \in DOMAIN s.nodes :
            /\ s.nodes[a].parent < a
            /\ s.nodes[a].status = "confirmed" => a \in BoLD!ConfirmedBy(s, s.now)
            /\ ~s.nodes[a].rivalled =>
                    \A x, y \in DOMAIN s.nodes : s.nodes[x].parent = a /\ s.nodes[y].parent = a => x = y

\* Assertions and events, by what BoldTyped says of them.
LEMMA BoldNodes ==
    ASSUME NEW s, BoldTyped(s)
    PROVE  /\ Len(s.nodes) \in Nat /\ DOMAIN s.nodes = 1 .. Len(s.nodes)
           /\ Len(s.log) \in Nat /\ DOMAIN s.log = 1 .. Len(s.log)
           /\ \A a \in DOMAIN s.nodes : s.nodes[a] \in BoldNode
           /\ \A k \in DOMAIN s.log : s.log[k] \in BoldEvent
  BY InSeq DEF BoldTyped

\* The events there are stay.
LEMMA BoldLogged ==
    ASSUME NEW s, BoldTyped(s), NEW t, NEW e \in BoldEvent, t.log = Append(s.log, e), t.now \in Nat,
           s.now <= t.now
    PROVE  /\ t.log \in Seq(BoldEvent)
           /\ \A a \in BoLD!ConfirmedBy(s, s.now) : a \in BoLD!ConfirmedBy(t, t.now)
           /\ e.name = "confirmed" /\ e.block <= t.now => e.hash \in BoLD!ConfirmedBy(t, t.now)
<1>1. /\ t.log \in Seq(BoldEvent) /\ DOMAIN t.log = 1 .. Len(s.log) + 1 /\ t.log[Len(s.log) + 1] = e
      /\ \A k \in DOMAIN s.log : t.log[k] = s.log[k]
  BY OneMore DEF BoldTyped
<1>2. /\ Len(s.log) \in Nat /\ DOMAIN s.log = 1 .. Len(s.log)
      /\ \A k \in DOMAIN s.log : s.log[k].block \in Nat
  BY BoldNodes DEF BoldEvent
<1>3. s.now \in Nat
  BY DEF BoldTyped
<1>4. ASSUME NEW a \in BoLD!ConfirmedBy(s, s.now) PROVE a \in BoLD!ConfirmedBy(t, t.now)
  <2>1. PICK k \in DOMAIN s.log : s.log[k].name = "confirmed" /\ s.log[k].block <= s.now /\ a = s.log[k].hash
    BY DEF BoLD!ConfirmedBy
  <2>2. k \in DOMAIN t.log /\ t.log[k] = s.log[k] /\ t.log[k].block <= t.now
    BY <1>1, <1>2, <1>3, <2>1
  <2>3. QED
    BY <2>1, <2>2 DEF BoLD!ConfirmedBy
<1>5. ASSUME e.name = "confirmed", e.block <= t.now PROVE e.hash \in BoLD!ConfirmedBy(t, t.now)
  <2>1. Len(s.log) + 1 \in DOMAIN t.log
    BY <1>1, <1>2
  <2>2. QED
    BY <1>1, <1>5, <2>1 DEF BoLD!ConfirmedBy
<1>6. QED
  BY <1>1, <1>4, <1>5

\* The chain with one assertion more, of which p is the parent.
BoldMade(s, p, rivalled, node, event) ==
    [now |-> s.now, confirmed |-> s.confirmed,
     nodes |-> Append([s.nodes EXCEPT ![p] = [s.nodes[p] EXCEPT !.rivalled = rivalled]], node),
     log |-> Append(s.log, event)]

\* A new assertion is logged and makes rivals of its siblings.
LEMMA BoldCreated ==
    ASSUME NEW s, BoldOK(s), NEW p \in DOMAIN s.nodes, NEW node \in BoldNode,
           node.parent = p, node.status = "pending", ~node.rivalled,
           NEW event \in BoldEvent, NEW rivalled \in BOOLEAN,
           rivalled <=> \E a \in DOMAIN s.nodes : s.nodes[a].parent = p,
           NEW t, t = BoldMade(s, p, rivalled, node, event)
    PROVE  BoldOK(t)
<1> DEFINE q == [s.nodes EXCEPT ![p] = [s.nodes[p] EXCEPT !.rivalled = rivalled]]
           n == Len(s.nodes) + 1
<1>0. BoldTyped(s) /\ s.now \in Nat /\ s.confirmed \in DOMAIN s.nodes
  BY DEF BoldOK, BoldTyped
<1>1. /\ Len(s.nodes) \in Nat /\ DOMAIN s.nodes = 1 .. Len(s.nodes) /\ s.nodes \in Seq(BoldNode)
      /\ \A a \in DOMAIN s.nodes : s.nodes[a] \in BoldNode
  BY <1>0, BoldNodes DEF BoldTyped
<1>2. [s.nodes[p] EXCEPT !.rivalled = rivalled] \in BoldNode
  BY <1>1 DEF BoldNode
<1>3. q \in Seq(BoldNode) /\ Len(q) = Len(s.nodes) /\ DOMAIN q = DOMAIN s.nodes
  BY <1>1, <1>2, ExceptSeq
<1>4. \A a \in DOMAIN s.nodes :
            /\ q[a].parent = s.nodes[a].parent /\ q[a].made = s.nodes[a].made
            /\ q[a].status = s.nodes[a].status /\ q[a].finished = s.nodes[a].finished
            /\ a # p => q[a] = s.nodes[a]
            /\ a = p => (q[a].rivalled <=> rivalled)
  BY <1>1 DEF BoldNode
<1> HIDE DEF q
<1>5. /\ t.now = s.now /\ t.confirmed = s.confirmed /\ t.nodes = Append(q, node) /\ t.log = Append(s.log, event)
      /\ t = [now |-> t.now, confirmed |-> t.confirmed, nodes |-> t.nodes, log |-> t.log]
  BY DEF BoldMade, q
<1>6. /\ t.nodes \in Seq(BoldNode) /\ DOMAIN t.nodes = 1 .. Len(s.nodes) + 1 /\ t.nodes[n] = node
      /\ \A a \in DOMAIN s.nodes : t.nodes[a] = q[a]
  BY <1>3, <1>5, OneMore
<1>7. t.log \in Seq(BoldEvent) /\ \A a \in BoLD!ConfirmedBy(s, s.now) : a \in BoLD!ConfirmedBy(t, t.now)
  <2>1. BoldTyped(s) /\ t.log = Append(s.log, event) /\ t.now \in Nat /\ s.now <= t.now
    BY <1>0, <1>5
  <2>2. QED
    BY ONLY <2>1, event \in BoldEvent, BoldLogged
<1>8. /\ n \in DOMAIN t.nodes /\ n \notin DOMAIN s.nodes /\ p < n
      /\ \A a \in DOMAIN t.nodes : a = n \/ a \in DOMAIN s.nodes
      /\ \A a \in DOMAIN s.nodes : a \in DOMAIN t.nodes /\ a # n /\ s.nodes[a].parent < a
  BY <1>1, <1>6 DEF BoldOK
<1>9. ASSUME NEW a \in DOMAIN t.nodes, ~t.nodes[a].rivalled,
             NEW x \in DOMAIN t.nodes, NEW y \in DOMAIN t.nodes,
             t.nodes[x].parent = a, t.nodes[y].parent = a
      PROVE  x = y
  <2>1. CASE a = n
    <3>1. \A b \in DOMAIN s.nodes : s.nodes[b].parent \in Nat
      BY <1>1 DEF BoldNode
    <3>2. \A b \in DOMAIN s.nodes : s.nodes[b].parent # n
      <4>1. \A b \in 1 .. Len(s.nodes) : b < n
        BY <1>1
      <4>2. QED
        BY <1>1, <1>8, <3>1, <4>1
    <3>3. x = n /\ y = n
      BY <1>4, <1>6, <1>8, <1>9, <2>1, <3>2
    <3>4. QED
      BY <3>3
  <2>2. CASE a = p
    <3>1. ~ \E b \in DOMAIN s.nodes : s.nodes[b].parent = p
      BY <1>4, <1>6, <1>9, <2>2
    <3>2. x = n /\ y = n
      BY <1>4, <1>6, <1>8, <1>9, <2>2, <3>1
    <3>3. QED
      BY <3>2
  <2>3. CASE a # n /\ a # p
    <3>1. a \in DOMAIN s.nodes /\ ~s.nodes[a].rivalled
      <4>1. a \in DOMAIN s.nodes
        BY ONLY <1>8, <1>9, <2>3
      <4>2. t.nodes[a] = s.nodes[a]
        BY ONLY <1>4, <1>6, <2>3, <4>1
      <4>3. QED
        BY <1>9, <4>1, <4>2
    <3>2. x \in DOMAIN s.nodes /\ s.nodes[x].parent = a /\ y \in DOMAIN s.nodes /\ s.nodes[y].parent = a
      <4>1. ASSUME NEW z \in DOMAIN t.nodes, t.nodes[z].parent = a PROVE z \in DOMAIN s.nodes /\ s.nodes[z].parent = a
        <5>1. z # n
          BY <1>6, <2>3, <4>1
        <5>2. z \in DOMAIN s.nodes
          BY <1>8, <5>1
        <5>3. t.nodes[z].parent = s.nodes[z].parent
          BY <1>4, <1>6, <5>2
        <5>4. QED
          BY <4>1, <5>2, <5>3
      <4>2. QED
        BY <1>9, <4>1
    <3>3. QED
      BY <3>1, <3>2 DEF BoldOK
  <2>4. QED
    BY <2>1, <2>2, <2>3
<1>10. ASSUME NEW a \in DOMAIN t.nodes
       PROVE  /\ t.nodes[a].parent < a
              /\ t.nodes[a].status = "confirmed" => a \in BoLD!ConfirmedBy(t, t.now)
  <2>1. CASE a = n
    BY ONLY <2>1, <1>6, <1>8, node.parent = p, node.status = "pending"
  <2>2. CASE a \in DOMAIN s.nodes
    <3>1. t.nodes[a].parent = s.nodes[a].parent /\ t.nodes[a].status = s.nodes[a].status
      BY ONLY <1>4, <1>6, <2>2
    <3>2. QED
      BY <1>7, <2>2, <3>1 DEF BoldOK
  <2>3. QED
    BY <1>8, <1>10, <2>1, <2>2
<1>11. BoldTyped(t)
  BY <1>0, <1>5, <1>6, <1>7 DEF BoldTyped
<1>12. QED
  BY <1>0, <1>5, <1>8, <1>9, <1>10, <1>11 DEF BoldOK

\* The chain with assertion a confirmed.
BoldSettled(s, a, node, event) ==
    [now |-> s.now, confirmed |-> a, nodes |-> [s.nodes EXCEPT ![a] = node], log |-> Append(s.log, event)]

\* A confirmed assertion is logged as such.
LEMMA BoldConfirmed ==
    ASSUME NEW s, BoldOK(s), NEW a \in DOMAIN s.nodes,
           NEW node \in BoldNode, node.parent = s.nodes[a].parent, node.rivalled = s.nodes[a].rivalled,
           NEW event \in BoldEvent, event.name = "confirmed", event.block <= s.now, event.hash = a,
           NEW t, t = BoldSettled(s, a, node, event)
    PROVE  BoldOK(t)
<1>0. BoldTyped(s) /\ s.now \in Nat /\ s.confirmed \in DOMAIN s.nodes
  BY DEF BoldOK, BoldTyped
<1>1. /\ Len(s.nodes) \in Nat /\ DOMAIN s.nodes = 1 .. Len(s.nodes) /\ s.nodes \in Seq(BoldNode)
      /\ \A b \in DOMAIN s.nodes : s.nodes[b] \in BoldNode
  BY <1>0, BoldNodes DEF BoldTyped
<1>3. /\ t.now = s.now /\ t.confirmed = a /\ t.nodes = [s.nodes EXCEPT ![a] = node] /\ t.log = Append(s.log, event)
      /\ t = [now |-> t.now, confirmed |-> t.confirmed, nodes |-> t.nodes, log |-> t.log]
  BY DEF BoldSettled
<1>4. t.nodes \in Seq(BoldNode) /\ DOMAIN t.nodes = DOMAIN s.nodes
  <2>1. s.nodes \in Seq(BoldNode) /\ a \in 1 .. Len(s.nodes) /\ node \in BoldNode
    BY <1>1
  <2>2. QED
    BY <1>1, <1>3, <2>1, ExceptSeq
<1>5. \A b \in DOMAIN s.nodes :
            /\ t.nodes[b].parent = s.nodes[b].parent /\ t.nodes[b].rivalled = s.nodes[b].rivalled
            /\ b # a => t.nodes[b].status = s.nodes[b].status
  BY <1>1, <1>3
<1>6. /\ t.log \in Seq(BoldEvent) /\ \A b \in BoLD!ConfirmedBy(s, s.now) : b \in BoLD!ConfirmedBy(t, t.now)
      /\ a \in BoLD!ConfirmedBy(t, t.now)
  <2>1. BoldTyped(s) /\ t.log = Append(s.log, event) /\ t.now \in Nat /\ s.now <= t.now
    BY <1>0, <1>3
  <2>2. /\ t.log \in Seq(BoldEvent) /\ \A b \in BoLD!ConfirmedBy(s, s.now) : b \in BoLD!ConfirmedBy(t, t.now)
        /\ event.name = "confirmed" /\ event.block <= t.now => event.hash \in BoLD!ConfirmedBy(t, t.now)
    BY ONLY <2>1, event \in BoldEvent, BoldLogged
  <2>3. QED
    BY <1>3, <2>2
<1>7. BoldTyped(t)
  BY <1>0, <1>3, <1>4, <1>6 DEF BoldTyped
<1>8. QED
  BY <1>3, <1>4, <1>5, <1>6, <1>7 DEF BoldOK

\* Creating and confirming assertions keep what BoldOK says.
LEMMA BoldStep ==
    ASSUME NEW r, r.finishes \subseteq BOOLEAN, NEW s, BoldOK(s), NEW t \in BoLD!Moves(r, s)
    PROVE  BoldOK(t)
<1>0. BoldTyped(s) /\ s.now \in Nat /\ s = [now |-> s.now, confirmed |-> s.confirmed, nodes |-> s.nodes, log |-> s.log]
  BY DEF BoldOK, BoldTyped
<1>1. /\ Len(s.nodes) \in Nat /\ DOMAIN s.nodes = 1 .. Len(s.nodes)
      /\ \A b \in DOMAIN s.nodes : s.nodes[b] \in BoldNode
  BY <1>0, BoldNodes
<1>2. CASE \E p \in DOMAIN s.nodes, f \in r.finishes : t = BoLD!Made(s, p, f)
  <2>1. PICK p \in DOMAIN s.nodes, f \in r.finishes : t = BoLD!Made(s, p, f)
    BY <1>2
  <2> DEFINE node == [parent |-> p, made |-> s.now, status |-> "pending", rivalled |-> FALSE, finished |-> f]
             event == BoLD!Event("created", Len(s.nodes) + 1, s.now)
             rivalled == \E a \in DOMAIN s.nodes : s.nodes[a].parent = p
  <2>2. /\ node \in BoldNode /\ node.parent = p /\ node.status = "pending" /\ ~node.rivalled
        /\ event \in BoldEvent
    BY <1>0, <1>1 DEF BoldNode, BoldEvent, BoLD!Event
  <2>3. t = BoldMade(s, p, rivalled, node, event)
    BY <1>0, <2>1, Zenon DEF BoldMade, BoLD!Hashes, BoLD!Made
  <2>4. rivalled \in BOOLEAN
    OBVIOUS
  <2>5. PICK v \in BOOLEAN : v = rivalled
    BY <2>4
  <2> HIDE DEF node, event
  <2>6. QED
    BY <2>2, <2>3, <2>5, BoldCreated
<1>3. CASE \E a \in DOMAIN s.nodes : t = BoLD!Settled(s, a)
  <2>1. PICK a \in DOMAIN s.nodes : t = BoLD!Settled(s, a)
    BY <1>3
  <2> DEFINE node == [s.nodes[a] EXCEPT !.status = "confirmed"]
             event == BoLD!Event("confirmed", a, s.now)
  <2>2. event \in BoldEvent /\ event.name = "confirmed" /\ event.block <= s.now /\ event.hash = a
    BY <1>0, <1>1 DEF BoldEvent, BoLD!Event
  <2>3. t = BoldSettled(s, a, node, event)
    BY <1>0, <2>1 DEF BoldSettled, BoLD!Settled
  <2>4. node \in BoldNode /\ node.parent = s.nodes[a].parent /\ node.rivalled = s.nodes[a].rivalled
    BY <1>1 DEF BoldNode
  <2> HIDE DEF node, event
  <2>5. QED
    BY <2>2, <2>3, <2>4, BoldConfirmed
<1>4. QED
  BY <1>2, <1>3 DEF BoLD!Moves, BoLD!Hashes

\* So does time.
LEMMA BoldTick ==
    ASSUME NEW s, BoldOK(s), NEW t, t = [s EXCEPT !.now = @ + 1]
    PROVE  BoldOK(t)
<1>1. t = [now |-> s.now + 1, confirmed |-> s.confirmed, nodes |-> s.nodes, log |-> s.log]
  BY DEF BoldOK, BoldTyped
<1>2. /\ t.now = s.now + 1 /\ t.confirmed = s.confirmed /\ t.nodes = s.nodes /\ t.log = s.log
      /\ t = [now |-> t.now, confirmed |-> t.confirmed, nodes |-> t.nodes, log |-> t.log]
  BY <1>1
<1>3. s.now \in Nat /\ \A k \in DOMAIN s.log : s.log[k].block \in Nat
  BY BoldNodes DEF BoldOK, BoldTyped, BoldEvent
<1>4. \A a \in BoLD!ConfirmedBy(s, s.now) : a \in BoLD!ConfirmedBy(t, t.now)
  BY <1>2, <1>3 DEF BoLD!ConfirmedBy
<1>5. BoldTyped(t)
  BY <1>2, <1>3 DEF BoldOK, BoldTyped
<1>6. QED
  BY <1>2, <1>4, <1>5 DEF BoldOK

\* By a block, an assertion stands if it is finished and is confirmed or has no
\* rival and its parent stands: the recursion of Standing.
LEMMA StandingIs ==
    ASSUME NEW s, BoldOK(s), NEW block, NEW a \in DOMAIN s.nodes
    PROVE  \E stands :
                /\ BoLD!Standing(s, block, a) <=> s.nodes[a].finished /\ stands[a]
                /\ \A x \in 0 .. a :
                      stands[x] <=> \/ x \in BoLD!ConfirmedBy(s, block)
                                    \/ /\ x # 0
                                       /\ ~BoLD!Rivalled(s, block, s.nodes[x].parent)
                                       /\ stands[s.nodes[x].parent]
<1> DEFINE Sure(x) == x \in BoLD!ConfirmedBy(s, block)
           Alone(x) == x # 0 /\ ~BoLD!Rivalled(s, block, s.nodes[x].parent)
           up(x) == s.nodes[x].parent
           D == 0 .. a
           stands == CHOOSE stands : stands = [x \in 0 .. a |->
                        \/ x \in BoLD!ConfirmedBy(s, block)
                        \/ /\ x # 0
                           /\ ~BoLD!Rivalled(s, block, s.nodes[x].parent)
                           /\ stands[s.nodes[x].parent]]
           G == [x \in D |-> [h \in [D -> BOOLEAN] |-> Sure(x) \/ (Alone(x) /\ h[up(x)])]]
           rank == [x \in D |-> x]
<1>1. BoLD!Standing(s, block, a) <=> s.nodes[a].finished /\ stands[a]
  BY DEF BoLD!Standing
<1>2. /\ BoldTyped(s) /\ DOMAIN s.nodes = 1 .. Len(s.nodes) /\ Len(s.nodes) \in Nat
      /\ \A x \in DOMAIN s.nodes : s.nodes[x].parent \in Nat /\ s.nodes[x].parent < x
  BY BoldNodes DEF BoldOK, BoldNode
<1>3. a \in DOMAIN s.nodes /\ a \in Nat
  BY <1>2
<1>4. \A x \in D : x # 0 => x \in DOMAIN s.nodes /\ up(x) \in D /\ up(x) < x
  <2> SUFFICES ASSUME NEW x \in D, x # 0 PROVE x \in DOMAIN s.nodes /\ up(x) \in D /\ up(x) < x
    OBVIOUS
  <2>1. x \in DOMAIN s.nodes /\ x \in Nat
    BY <1>2, <1>3
  <2>2. s.nodes[x].parent \in Nat /\ s.nodes[x].parent < x /\ x <= a
    BY <1>2, <2>1
  <2>3. QED
    BY <1>3, <2>1, <2>2
<1>5. rank \in [D -> 0 .. a] /\ \A x \in D : rank[x] = x
  OBVIOUS
<1> HIDE DEF D, rank, Sure, Alone, up
<1>6. G \in [D -> [[D -> BOOLEAN] -> BOOLEAN]]
  OBVIOUS
<1>7. \A x \in D : Alone(x) => up(x) \in D /\ rank[up(x)] < rank[x]
  BY <1>4, <1>5 DEF Alone
<1>8. \A x \in D : \A f, h \in [D -> BOOLEAN] : SameBelow(D, rank, rank[x], f, h) => G[x][f] = G[x][h]
  <2> SUFFICES ASSUME NEW x \in D, NEW f \in [D -> BOOLEAN], NEW h \in [D -> BOOLEAN],
                      SameBelow(D, rank, rank[x], f, h)
               PROVE  G[x][f] = G[x][h]
    OBVIOUS
  <2>1. Alone(x) => f[up(x)] = h[up(x)]
    BY <1>7 DEF SameBelow
  <2>2. QED
    BY <2>1
<1>9. Rule(D, BOOLEAN, a, rank, G)
  <2> HIDE DEF G
  <2>1. QED
    BY <1>3, <1>5, <1>6, <1>8 DEF Rule
<1>10. PICK f \in [D -> BOOLEAN] : \A x \in D : f[x] = G[x][f]
  BY <1>9, Recursion
<1>11. \A x \in D : f[x] = (Sure(x) \/ (Alone(x) /\ f[up(x)]))
  BY <1>10
<1>12. f = [x \in 0 .. a |->
                        \/ x \in BoLD!ConfirmedBy(s, block)
                        \/ /\ x # 0
                           /\ ~BoLD!Rivalled(s, block, s.nodes[x].parent)
                           /\ f[s.nodes[x].parent]]
  BY <1>11, Zenon DEF Sure, Alone, up, D
<1>13. stands = [x \in 0 .. a |->
                        \/ x \in BoLD!ConfirmedBy(s, block)
                        \/ /\ x # 0
                           /\ ~BoLD!Rivalled(s, block, s.nodes[x].parent)
                           /\ stands[s.nodes[x].parent]]
  BY <1>12, Zenon
<1> HIDE DEF stands, G
<1>14. \A x \in D : stands[x] <=> \/ x \in BoLD!ConfirmedBy(s, block)
                                  \/ /\ x # 0
                                     /\ ~BoLD!Rivalled(s, block, s.nodes[x].parent)
                                     /\ stands[s.nodes[x].parent]
  BY <1>13, Zenon DEF D
<1>15. QED
  BY <1>1, <1>14, Zenon DEF D

\* By block: a chain that starts with a confirmed assertion, each of which is
\* confirmed or the only child of the one before it, stands.
LEMMA BoldStands ==
    ASSUME NEW s, BoldOK(s), NEW n \in Nat, n > 0, NEW chain, DOMAIN chain = 1 .. n,
           \A i \in 1 .. n : chain[i] \in BoLD!Hashes(s),
           s.nodes[chain[1]].status = "confirmed",
           \A i \in 2 .. n : /\ s.nodes[chain[i]].parent = chain[i - 1]
                             /\ s.nodes[chain[i]].status = "confirmed" \/ ~s.nodes[chain[i - 1]].rivalled,
           s.nodes[chain[n]].finished
    PROVE  BoLD!Standing(s, s.now, chain[n])
<1> DEFINE a == chain[n]
           Sure(x) == x \in BoLD!ConfirmedBy(s, s.now)
           Alone(x) == x # 0 /\ ~BoLD!Rivalled(s, s.now, s.nodes[x].parent)
           up(x) == s.nodes[x].parent
           D == 0 .. a
<1>2. /\ BoldTyped(s) /\ DOMAIN s.nodes = 1 .. Len(s.nodes) /\ Len(s.nodes) \in Nat
      /\ \A x \in DOMAIN s.nodes : s.nodes[x].parent \in Nat /\ s.nodes[x].parent < x
  BY BoldNodes DEF BoldOK, BoldNode
<1>3. a \in DOMAIN s.nodes /\ a \in Nat
  BY <1>2 DEF BoLD!Hashes
<1>4. \A x \in D : x # 0 => x \in DOMAIN s.nodes /\ up(x) \in D /\ up(x) < x
  <2> SUFFICES ASSUME NEW x \in D, x # 0 PROVE x \in DOMAIN s.nodes /\ up(x) \in D /\ up(x) < x
    OBVIOUS
  <2>1. x \in DOMAIN s.nodes /\ x \in Nat
    BY <1>2, <1>3
  <2>2. s.nodes[x].parent \in Nat /\ s.nodes[x].parent < x /\ x <= a
    BY <1>2, <2>1
  <2>3. QED
    BY <1>3, <2>1, <2>2
<1>1. PICK stands :
            /\ BoLD!Standing(s, s.now, a) <=> s.nodes[a].finished /\ stands[a]
            /\ \A x \in D : stands[x] <=> \/ x \in BoLD!ConfirmedBy(s, s.now)
                                        \/ /\ x # 0
                                           /\ ~BoLD!Rivalled(s, s.now, s.nodes[x].parent)
                                           /\ stands[s.nodes[x].parent]
  BY <1>3, StandingIs
<1> HIDE DEF a, D
<1>14. \A x \in D : Sure(x) \/ (Alone(x) /\ stands[up(x)]) => stands[x]
  BY <1>1
<1> HIDE DEF Sure, Alone, up
<1> DEFINE S == {i \in 1 .. n : chain[i] \in D => stands[chain[i]]}
           place == [i \in 1 .. n |-> i]
<1>15. \A x \in DOMAIN s.nodes : s.nodes[x].status = "confirmed" => Sure(x)
  BY DEF BoldOK, Sure
<1>16. ASSUME NEW i \in 1 .. n, \A j \in 1 .. n : place[j] < place[i] => j \in S
       PROVE  i \in S
  <2> SUFFICES ASSUME chain[i] \in D PROVE stands[chain[i]]
    OBVIOUS
  <2>0. chain[i] \in DOMAIN s.nodes
    BY DEF BoLD!Hashes
  <2>1. CASE s.nodes[chain[i]].status = "confirmed"
    BY <1>14, <1>15, <2>0, <2>1
  <2>2. CASE s.nodes[chain[i]].status # "confirmed"
    <3>1. i \in 2 .. n /\ i - 1 \in 1 .. n /\ i - 1 < i
      BY <2>2
    <3>2. up(chain[i]) = chain[i - 1] /\ ~s.nodes[chain[i - 1]].rivalled /\ chain[i - 1] \in DOMAIN s.nodes
      BY <2>2, <3>1 DEF up, BoLD!Hashes
    <3>3. ~BoLD!Rivalled(s, s.now, chain[i - 1])
      BY <3>2 DEF BoldOK, BoLD!Rivalled, BoLD!Hashes
    <3>4. chain[i] # 0
      BY <1>2, <2>0
    <3>5. Alone(chain[i]) /\ chain[i - 1] \in D
      BY <1>4, <3>2, <3>3, <3>4 DEF Alone, up
    <3>6. place[i - 1] < place[i]
      BY <3>1
    <3>7. i - 1 \in S
      BY <1>16, <3>1, <3>6
    <3>8. stands[up(chain[i])]
      BY <3>2, <3>5, <3>7
    <3>9. QED
      BY <1>14, <3>5, <3>8
  <2>3. QED
    BY <2>1, <2>2
<1>17. \A i \in 1 .. n : i \in S
  <2>1. place \in [1 .. n -> 0 .. n]
    OBVIOUS
  <2> HIDE DEF S, place
  <2>2. Inductive(1 .. n, n, place, S)
    BY <1>16, <2>1 DEF Inductive
  <2>3. QED
    BY <2>2, Induction
<1>18. n \in S /\ a \in D
  BY <1>3, <1>17 DEF D
<1>19. stands[a]
  BY <1>18 DEF a
<1>20. QED
  BY <1>1, <1>19, Zenon DEF a

\* Accepted is an assertion that is confirmed or, before it is, one that stands
\* and was old enough.
LEMMA BoldAccepts ==
    ASSUME NEW r, r.window \in Nat, r.minAge \in Nat, r.longest \in Nat, r.max \in Nat,
           NEW a, BoldOK(a), NEW s, BoldOK(s),
           NEW c, c = BoLD!GetLatestContext(r, a), NEW p \in BoLD!Witnesses(r, s),
           BoLD!GetStorageValues(r, s, c, p) = "ok"
    PROVE  BoLD!Promised(r, a, s, c, p) /\ BoLD!Recent(r, a, s, c, p)
<1> DEFINE chain == p.assertions
           n == Len(chain)
<1>1. PICK m \in 1 .. r.longest : chain \in [1 .. m -> 1 .. r.max]
  BY DEF BoLD!Witnesses
<1>2. n = m /\ n \in Nat /\ DOMAIN chain = 1 .. n
  BY <1>1
<1> HIDE DEF chain, n
<1>3. /\ BoLD!VerifyAssertionChain(r, s, chain) = "ok"
      /\ s.nodes[chain[n]].finished
      /\ BoLD!CheckWindow(r, c, s.nodes[chain[n]].made) = "ok"
  <2>1. BoLD!GetStorageValues(r, s, c, p) =
            IF BoLD!VerifyAssertionChain(r, s, chain) # "ok" THEN BoLD!VerifyAssertionChain(r, s, chain)
            ELSE IF ~s.nodes[chain[n]].finished THEN "not finished"
            ELSE BoLD!CheckWindow(r, c, s.nodes[chain[n]].made)
    BY Zenon DEF BoLD!GetStorageValues, chain, n
  <2>2. QED
    BY <2>1, Zenon
<1>4. /\ chain[1] \in BoLD!Hashes(s) /\ n >= 2 /\ s.nodes[chain[1]].status = "confirmed"
      /\ \A i \in 2 .. n : /\ chain[i] \in BoLD!Hashes(s) /\ s.nodes[chain[i]].parent = chain[i - 1]
                           /\ s.nodes[chain[i]].status = "confirmed" \/ BoLD!Unfinalized(r)
                           /\ s.nodes[chain[i]].status = "confirmed" \/ ~s.nodes[chain[i - 1]].rivalled
  BY <1>2, <1>3 DEF BoLD!VerifyAssertionChain, n
<1>5. BoLD!Standing(s, s.now, chain[n])
  <2>1. \A i \in 1 .. n : chain[i] \in BoLD!Hashes(s)
    BY <1>2, <1>4
  <2>2. n > 0 /\ s.nodes[chain[1]].status = "confirmed" /\ s.nodes[chain[n]].finished
    BY <1>2, <1>3, <1>4
  <2>3. \A i \in 2 .. n :
            /\ s.nodes[chain[i]].parent = chain[i - 1]
            /\ s.nodes[chain[i]].status = "confirmed" \/ ~s.nodes[chain[i - 1]].rivalled
    BY <1>4
  <2>4. QED
    BY ONLY BoldOK(s), <1>2, <2>1, <2>2, <2>3, BoldStands
<1>6. /\ \A x \in DOMAIN s.nodes : s.nodes[x].made \in Nat
      /\ a.now \in Nat /\ a.nodes[a.confirmed].made \in Nat
  BY BoldNodes DEF BoldOK, BoldTyped, BoldNode
<1>7. c \in Int /\ (BoLD!Unfinalized(r) => c = a.now - r.minAge)
  BY <1>6 DEF BoLD!GetLatestContext
<1>8. n \in 2 .. n /\ chain[n] \in DOMAIN s.nodes
  BY <1>2, <1>4 DEF BoLD!Hashes
<1>9. s.nodes[chain[n]].made \in Nat
  BY <1>6, <1>8
<1>10. s.nodes[chain[n]].made <= c /\ s.nodes[chain[n]].made + r.window >= c
  BY <1>3, <1>7, <1>9 DEF BoLD!CheckWindow
<1>11. BoLD!Unfinalized(r) => s.nodes[chain[n]].made + r.minAge <= a.now
  BY <1>6, <1>7, <1>9, <1>10
<1>12. QED
  BY <1>4, <1>5, <1>8, <1>10, <1>11 DEF BoLD!Promised, BoLD!Recent, chain, n

-----------------------------------------------------------------------------
(* DoubleNitro.tla: the rollups of the two chains, each as above.          *)

\* The nodes of DoubleNitro are those of NitroNodes: two instances of one
\* module.
LEMMA DoubleNitroNames ==
    /\ \A r, s : Double!Nitro!Moves(r, s) = Nitro!Moves(r, s)
    /\ \A r, s : Double!Nitro!GetLatestContext(r, s) = Nitro!GetLatestContext(r, s)
    /\ \A r, s, c, p : Double!Nitro!GetStorageValues(r, s, c, p) = Nitro!GetStorageValues(r, s, c, p)
    /\ \A r, a, s, c, p : Double!Nitro!Promised(r, a, s, c, p) <=> Nitro!Promised(r, a, s, c, p)
    /\ \A r, a, s, c, p : Double!Nitro!Recent(r, a, s, c, p) <=> Nitro!Recent(r, a, s, c, p)
    /\ \A s, n : Double!Nitro!Exists(s, n) <=> Nitro!Exists(s, n)
    /\ \A s, n : Double!Nitro!NodeAt(s, n) = Nitro!NodeAt(s, n)
    /\ Double!Nitro!NoIndex = Nitro!NoIndex
<1>1. /\ \A s, n : Double!Nitro!Exists(s, n) <=> Nitro!Exists(s, n)
      /\ \A s, n : Double!Nitro!NodeAt(s, n) = Nitro!NodeAt(s, n)
      /\ \A s, n : Double!Nitro!CreatedAtBlock(s, n) = Nitro!CreatedAtBlock(s, n)
      /\ \A s, n : Double!Nitro!IsNodeUsable(s, n) <=> Nitro!IsNodeUsable(s, n)
      /\ \A s : Double!Nitro!Nodes(s) = Nitro!Nodes(s)
      /\ \A r : Double!Nitro!Unfinalized(r) <=> Nitro!Unfinalized(r)
      /\ Double!Nitro!NoIndex = Nitro!NoIndex
  BY DEF Double!Nitro!Exists, Nitro!Exists, Double!Nitro!NodeAt, Nitro!NodeAt, Double!Nitro!CreatedAtBlock,
         Nitro!CreatedAtBlock, Double!Nitro!IsNodeUsable, Nitro!IsNodeUsable, Double!Nitro!Nodes, Nitro!Nodes,
         Double!Nitro!Unfinalized, Nitro!Unfinalized, Double!Nitro!NoIndex, Nitro!NoIndex
<1>2. \A r, s : Double!Nitro!Moves(r, s) = Nitro!Moves(r, s)
  BY Zenon DEF Double!Nitro!Moves, Nitro!Moves, Double!Nitro!Nodes, Nitro!Nodes, Double!Nitro!NodeAt, Nitro!NodeAt,
         Double!Nitro!Exists, Nitro!Exists, Double!Nitro!Resolved, Nitro!Resolved
<1>3. \A r, s : Double!Nitro!GetLatestContext(r, s) = Nitro!GetLatestContext(r, s)
  BY Zenon DEF Double!Nitro!GetLatestContext, Nitro!GetLatestContext, Double!Nitro!Nodes, Nitro!Nodes, Double!Nitro!NodeAt, Nitro!NodeAt,
         Double!Nitro!Exists, Nitro!Exists, Double!Nitro!CreatedAtBlock, Nitro!CreatedAtBlock, Double!Nitro!IsNodeUsable, Nitro!IsNodeUsable,
         Double!Nitro!Unfinalized, Nitro!Unfinalized, Double!Nitro!NoIndex, Nitro!NoIndex,
         Double!Nitro!LatestNodeCreated, Nitro!LatestNodeCreated
<1>4. \A r, s, c, p : Double!Nitro!GetStorageValues(r, s, c, p) = Nitro!GetStorageValues(r, s, c, p)
  <2>1. \A s, n : Double!Nitro!Chain(s, n) = Nitro!Chain(s, n)
    BY Zenon DEF Double!Nitro!Chain, Nitro!Chain, Double!Nitro!Nodes, Nitro!Nodes, Double!Nitro!NodeAt, Nitro!NodeAt
  <2>2. \A r, x, y : Double!Nitro!CheckWindow(r, x, y) = Nitro!CheckWindow(r, x, y)
    BY Zenon DEF Double!Nitro!CheckWindow, Nitro!CheckWindow
  <2>3. ASSUME NEW r, NEW s, NEW c, NEW p
        PROVE  Double!Nitro!GetStorageValues(r, s, c, p) = Nitro!GetStorageValues(r, s, c, p)
    <3>1. \A x : /\ Double!Nitro!Chain(s, x) = Nitro!Chain(s, x)
                 /\ Double!Nitro!CreatedAtBlock(s, x) = Nitro!CreatedAtBlock(s, x)
                 /\ Double!Nitro!Exists(s, x) <=> Nitro!Exists(s, x)
                 /\ Double!Nitro!IsNodeUsable(s, x) <=> Nitro!IsNodeUsable(s, x)
      BY <1>1, <2>1
    <3> DEFINE Skipped1 == p.index # c /\ ~Nitro!Unfinalized(r) /\ p.index \notin Nitro!Chain(s, c)
               Skipped2 == p.index # c /\ Nitro!Unfinalized(r) /\ ~Nitro!IsNodeUsable(s, p.index)
               window == Nitro!CheckWindow(r, Nitro!CreatedAtBlock(s, c), Nitro!CreatedAtBlock(s, p.index))
    <3>2. Nitro!GetStorageValues(r, s, c, p) =
            CASE Skipped1 -> "not finalized" [] Skipped2 -> "not usable"
              [] OTHER -> IF window = "ok" /\ ~Nitro!Exists(s, p.index) THEN "confirmData" ELSE window
      BY Zenon DEF Nitro!GetStorageValues
    <3>3. Double!Nitro!GetStorageValues(r, s, c, p) =
            CASE Skipped1 -> "not finalized" [] Skipped2 -> "not usable"
              [] OTHER -> IF window = "ok" /\ ~Nitro!Exists(s, p.index) THEN "confirmData" ELSE window
      <4>1. Double!Nitro!Chain(s, c) = Nitro!Chain(s, c)
        BY <3>1
      <4>2. QED
        BY <1>1, <2>2, <3>1, <4>1 DEF Double!Nitro!GetStorageValues
    <3>4. QED
      BY <3>2, <3>3
  <2>4. QED
    BY <2>3
<1>5. /\ \A r, a, s, c, p : Double!Nitro!Promised(r, a, s, c, p) <=> Nitro!Promised(r, a, s, c, p)
      /\ \A r, a, s, c, p : Double!Nitro!Recent(r, a, s, c, p) <=> Nitro!Recent(r, a, s, c, p)
  BY <1>1 DEF Double!Nitro!Promised, Nitro!Promised, Double!Nitro!Recent, Nitro!Recent
<1>6. QED
  BY <1>1, <1>2, <1>3, <1>4, <1>5

\* Two chains of nodes, and the node of the second that each block of the first
\* saw.
DoubleTyped(s) == s = [one |-> s.one, two |-> s.two, seen |-> s.seen] /\ s.seen \in Seq(Int)

\* What the nodes of the first are made with are nodes of the second.
DoubleOK(r, s) ==
    /\ DoubleTyped(s) /\ NitroOK(s.one) /\ NitroOK(s.two)
    /\ Len(s.seen) = Len(s.one.nodes)
    /\ \A k \in DOMAIN s.seen :
            /\ s.seen[k] < Len(s.two.nodes)
            /\ r.minAge23 = 0 => s.seen[k] \in Nitro!Nodes(s.two)
                                    /\ Nitro!NodeAt(s.two, s.seen[k]).state = "confirmed"

\* What the chain of the verifier keeps.
DoubleKept(a, s) == NitroKept(a.one, s.one)

\* The node of the second chain that is read is one of it, or none.
LEMMA DoubleRead ==
    ASSUME NEW r, NEW two, NitroOK(two)
    PROVE  /\ Double!NodeRead(r, two) \in Int /\ Double!NodeRead(r, two) < Len(two.nodes)
           /\ r.minAge23 = 0 => /\ Double!NodeRead(r, two) \in Nitro!Nodes(two)
                                /\ Nitro!NodeAt(two, Double!NodeRead(r, two)).state = "confirmed"
<1>1. /\ Len(two.nodes) \in Nat /\ Nitro!Nodes(two) = 0 .. Len(two.nodes) - 1
      /\ two.confirmed \in Nitro!Nodes(two) /\ Nitro!NodeAt(two, two.confirmed).state = "confirmed"
  BY NitroNodesTyped DEF NitroOK
<1>2. Double!NodeRead(r, two) = IF r.minAge23 = 0 THEN two.confirmed
                                ELSE IF Nitro!Exists(two, Len(two.nodes) - 1) THEN Len(two.nodes) - 1 ELSE -1
  BY DoubleNitroNames DEF Double!NodeRead, Double!NoIndex
<1>3. QED
  BY <1>1, <1>2

\* One more of the first, or none.
LEMMA DoubleFirst ==
    ASSUME NEW r, NEW s, DoubleOK(r, s), NEW one, NitroOK(one), NitroKept(s.one, one),
           Len(one.nodes) \in {Len(s.one.nodes), Len(s.one.nodes) + 1},
           NEW t, t = [one |-> one, two |-> s.two,
                       seen |-> IF Len(one.nodes) = Len(s.seen) THEN s.seen
                                ELSE Append(s.seen, Double!NodeRead(r, s.two))]
    PROVE  DoubleOK(r, t) /\ DoubleKept(s, t)
<1>1. /\ t.one = one /\ t.two = s.two /\ t = [one |-> t.one, two |-> t.two, seen |-> t.seen]
      /\ t.seen = IF Len(one.nodes) = Len(s.seen) THEN s.seen ELSE Append(s.seen, Double!NodeRead(r, s.two))
  OBVIOUS
<1>2. /\ s.seen \in Seq(Int) /\ Len(s.seen) = Len(s.one.nodes)
  BY DEF DoubleOK, DoubleTyped
<1>3. Len(s.seen) \in Nat /\ DOMAIN s.seen = 1 .. Len(s.seen)
  BY <1>2, InSeq
<1>4. CASE Len(one.nodes) = Len(s.seen)
  BY <1>1, <1>2, <1>4 DEF DoubleOK, DoubleTyped, DoubleKept
<1>5. CASE Len(one.nodes) # Len(s.seen)
  <2> DEFINE node == Double!NodeRead(r, s.two)
  <2>1. /\ node \in Int /\ node < Len(s.two.nodes)
        /\ r.minAge23 = 0 => node \in Nitro!Nodes(s.two) /\ Nitro!NodeAt(s.two, node).state = "confirmed"
    BY DoubleRead DEF DoubleOK
  <2> HIDE DEF node
  <2>2. t.seen = Append(s.seen, node)
    BY <1>1, <1>5 DEF node
  <2>3. /\ t.seen \in Seq(Int) /\ Len(t.seen) = Len(s.seen) + 1
        /\ DOMAIN t.seen = 1 .. Len(s.seen) + 1 /\ t.seen[Len(s.seen) + 1] = node
        /\ \A k \in DOMAIN s.seen : t.seen[k] = s.seen[k]
    <3>1. s.seen \in Seq(Int) /\ node \in Int
      BY <1>2, <2>1
    <3>2. QED
      BY ONLY <2>2, <3>1, OneMore
  <2>4. \A k \in DOMAIN t.seen : k \in DOMAIN s.seen \/ k = Len(s.seen) + 1
    BY <1>3, <2>3
  <2>5. ASSUME NEW k \in DOMAIN t.seen
        PROVE  /\ t.seen[k] < Len(t.two.nodes)
               /\ r.minAge23 = 0 => t.seen[k] \in Nitro!Nodes(t.two)
                                       /\ Nitro!NodeAt(t.two, t.seen[k]).state = "confirmed"
    BY <1>1, <2>1, <2>3, <2>4 DEF DoubleOK
  <2>6. Len(t.seen) = Len(t.one.nodes)
    BY <1>1, <1>2, <1>5, <2>3
  <2>7. QED
    BY <1>1, <2>3, <2>5, <2>6 DEF DoubleOK, DoubleTyped, DoubleKept
<1>6. QED
  BY <1>4, <1>5

\* What is confirmed on the second stays so.
LEMMA DoubleSecond ==
    ASSUME NEW r, NEW s, DoubleOK(r, s), NEW one, NitroOK(one), NitroKept(s.one, one),
           Len(one.nodes) = Len(s.one.nodes), NEW two, NitroOK(two), NitroKept(s.two, two),
           Len(two.nodes) \in {Len(s.two.nodes), Len(s.two.nodes) + 1},
           NEW t, t = [one |-> one, two |-> two, seen |-> s.seen]
    PROVE  DoubleOK(r, t) /\ DoubleKept(s, t)
<1>1. t.one = one /\ t.two = two /\ t.seen = s.seen /\ t = [one |-> t.one, two |-> t.two, seen |-> t.seen]
  OBVIOUS
<1>2. Len(s.two.nodes) \in Nat /\ s.seen \in Seq(Int)
  BY NitroNodesTyped DEF DoubleOK, DoubleTyped, NitroOK
<1>3. ASSUME NEW k \in DOMAIN s.seen
      PROVE  /\ s.seen[k] < Len(two.nodes)
             /\ r.minAge23 = 0 => s.seen[k] \in Nitro!Nodes(two)
                                     /\ Nitro!NodeAt(two, s.seen[k]).state = "confirmed"
  <2>1. s.seen[k] \in Int /\ s.seen[k] < Len(s.two.nodes)
    BY <1>2, <1>3, InSeq DEF DoubleOK
  <2>2. s.seen[k] < Len(two.nodes)
    BY <1>2, <2>1
  <2>3. QED
    BY <2>2 DEF DoubleOK, NitroKept
<1>4. QED
  BY <1>1, <1>2, <1>3 DEF DoubleOK, DoubleTyped, DoubleKept

\* A step of either chain keeps what is said of both.
LEMMA DoubleStep ==
    ASSUME NEW r, r.confirmation \in Nat, NEW s, DoubleOK(r, s), NEW t \in Double!Moves(r, s)
    PROVE  DoubleOK(r, t) /\ DoubleKept(s, t)
<1>0. s = [one |-> s.one, two |-> s.two, seen |-> s.seen] /\ NitroOK(s.one) /\ NitroOK(s.two)
  BY DEF DoubleOK, DoubleTyped
<1>1. CASE \E one \in Nitro!Moves(r, s.one) :
            t = [s EXCEPT !.one = one,
                          !.seen = IF Len(one.nodes) = Len(@) THEN @
                                   ELSE Append(@, Double!NodeRead(r, s.two))]
  <2>1. PICK one \in Nitro!Moves(r, s.one) :
            t = [s EXCEPT !.one = one,
                          !.seen = IF Len(one.nodes) = Len(@) THEN @
                                   ELSE Append(@, Double!NodeRead(r, s.two))]
    BY <1>1
  <2>2. t = [one |-> one, two |-> s.two,
             seen |-> IF Len(one.nodes) = Len(s.seen) THEN s.seen
                      ELSE Append(s.seen, Double!NodeRead(r, s.two))]
    BY <1>0, <2>1
  <2>3. NitroOK(one) /\ NitroKept(s.one, one) /\ Len(one.nodes) \in {Len(s.one.nodes), Len(s.one.nodes) + 1}
    BY <1>0, NitroStep
  <2>4. QED
    BY <2>2, <2>3, DoubleFirst
<1>2. CASE \E two \in Nitro!Moves(Double!Second(r), s.two) : t = [s EXCEPT !.two = two]
  <2>1. PICK two \in Nitro!Moves(Double!Second(r), s.two) : t = [s EXCEPT !.two = two]
    BY <1>2
  <2>2. t = [one |-> s.one, two |-> two, seen |-> s.seen]
    BY <1>0, <2>1
  <2>3. Double!Second(r).confirmation \in Nat
    BY DEF Double!Second
  <2>4. NitroOK(two) /\ NitroKept(s.two, two) /\ Len(two.nodes) \in {Len(s.two.nodes), Len(s.two.nodes) + 1}
    BY <1>0, <2>3, NitroStep
  <2>5. NitroKept(s.one, s.one)
    BY <1>0 DEF NitroOK, NitroTyped, NitroKept
  <2>6. QED
    BY <1>0, <2>2, <2>4, <2>5, DoubleSecond
<1>3. CASE t = [s EXCEPT !.one.now = @ + 1, !.two.now = @ + 1]
  <2> DEFINE one == [s.one EXCEPT !.now = @ + 1]
             two == [s.two EXCEPT !.now = @ + 1]
  <2>1. t = [one |-> one, two |-> two, seen |-> s.seen]
    BY <1>0, <1>3
  <2>2. /\ NitroOK(one) /\ NitroKept(s.one, one) /\ NitroOK(two) /\ NitroKept(s.two, two)
    BY <1>0, NitroTick
  <2>3. Len(one.nodes) = Len(s.one.nodes) /\ Len(two.nodes) = Len(s.two.nodes)
    BY <1>0 DEF NitroOK, NitroTyped
  <2> HIDE DEF one, two
  <2>4. QED
    BY <2>1, <2>2, <2>3, DoubleSecond
<1>4. QED
  BY <1>1, <1>2, <1>3, DoubleNitroNames DEF Double!Moves

\* What two stretches of time keep, both together keep.
LEMMA DoubleOn ==
    ASSUME NEW r, NEW a, DoubleOK(r, a), NEW s, DoubleOK(r, s), NEW t, DoubleOK(r, t),
           DoubleKept(a, s), DoubleKept(s, t)
    PROVE  DoubleKept(a, t)
  BY NitroOn DEF DoubleOK, DoubleKept

\* Accepted is the node of the second chain that an accepted node of the first
\* saw.
LEMMA DoubleAccepts ==
    ASSUME NEW r, r.window \in Nat, r.minAge \in Nat,
           NEW a, DoubleOK(r, a), NEW s, DoubleOK(r, s), DoubleKept(a, s),
           NEW c, c = Double!GetLatestContext(r, a), c # Nitro!NoIndex, NEW p,
           Double!GetStorageValues(r, s, c, p) = "ok"
    PROVE  Double!Promised(r, a, s, c, p) /\ Double!Recent(r, a, s, c, p)
<1> DEFINE q == [index |-> p.index]
<1>1. NitroOK(a.one) /\ NitroOK(s.one) /\ NitroKept(a.one, s.one) /\ s.seen \in Seq(Int)
      /\ Len(s.seen) = Len(s.one.nodes)
  BY DEF DoubleOK, DoubleKept, DoubleTyped
<1>2. c = Nitro!GetLatestContext(r, a.one)
  BY DoubleNitroNames DEF Double!GetLatestContext
<1>3. Nitro!GetStorageValues(r, s.one, c, q) = "ok" /\ s.seen[p.index + 1] = p.node
  BY DoubleNitroNames DEF Double!GetStorageValues
<1>4. Nitro!Promised(r, a.one, s.one, c, q) /\ Nitro!Recent(r, a.one, s.one, c, q)
  BY <1>1, <1>2, <1>3, NitroAccepts
<1>5. p.index \in Nitro!Nodes(s.one)
  BY <1>4 DEF Nitro!Promised, Nitro!Exists
<1>6. p.index + 1 \in DOMAIN s.seen
  <2>1. DOMAIN s.seen = 1 .. Len(s.one.nodes) /\ Len(s.one.nodes) \in Nat /\ Nitro!Nodes(s.one) = 0 .. Len(s.one.nodes) - 1
    BY <1>1, InSeq, NitroNodesTyped DEF NitroOK
  <2>2. QED
    BY <1>5, <2>1
<1>7. QED
  <2>1. /\ p.node < Len(s.two.nodes)
        /\ r.minAge23 = 0 => Nitro!NodeAt(s.two, p.node).state = "confirmed"
    BY <1>3, <1>6 DEF DoubleOK
  <2>2. Double!Nitro!Promised(r, a.one, s.one, c, q) /\ Double!Nitro!Recent(r, a.one, s.one, c, p)
    <3>1. q.index = p.index
      OBVIOUS
    <3>2. Nitro!Recent(r, a.one, s.one, c, p)
      BY <1>4, <3>1 DEF Nitro!Recent
    <3>3. QED
      BY <1>4, <3>2, DoubleNitroNames
  <2>3. Double!Nitro!NodeAt(s.two, p.node) = Nitro!NodeAt(s.two, p.node)
    BY DoubleNitroNames
  <2>4. QED
    BY <2>1, <2>2, <2>3 DEF Double!Promised, Double!Recent

-----------------------------------------------------------------------------
(* OPGames.tla *)

\* A game has these fields.
GameShape(g) ==
    g = [kind |-> g.kind, proposer |-> g.proposer, parent |-> g.parent, root |-> g.root,
         created |-> g.created, claims |-> g.claims, status |-> g.status, resolved |-> g.resolved,
         proper |-> g.proper, wasRespected |-> g.wasRespected]

\* A game builds on an earlier one; one of the newer type that nobody
\* challenged is not resolved.
GameGood(g, i) ==
    /\ GameShape(g)
    /\ g.parent = Games!Anchor \/ g.parent \in 0 .. i - 1
    /\ g.kind \in {"fault", "succinct"} /\ (g.kind = "fault" => g.parent = Games!Anchor)
    /\ g.created \in Nat /\ g.resolved \in Nat
    /\ g.kind = "succinct" /\ g.claims = "unchallenged" => g.status = Games!InProgress

\* The games, by types; there are not as many as the index that stands for no
\* parent.
GamesTyped(s) ==
    /\ s = [now |-> s.now, respected |-> s.respected, games |-> s.games]
    /\ s.now \in Nat /\ (\E S : s.games \in Seq(S)) /\ Len(s.games) <= Games!Anchor

\* The games are good, each at its index.
GamesOK(s) == GamesTyped(s) /\ \A i \in Games!Games(s) : GameGood(Games!GameOf(s, i), i)

\* Games stay; what they say may change.
GamesKept(a, s) == Games!Games(a) \subseteq Games!Games(s)

\* Game i is at position i + 1.
LEMMA GamesAre ==
    ASSUME NEW s, GamesTyped(s)
    PROVE  /\ Len(s.games) \in Nat /\ DOMAIN s.games = 1 .. Len(s.games)
           /\ Games!Games(s) = 0 .. Len(s.games) - 1
           /\ \A i \in Games!Games(s) : i \in Nat /\ i + 1 \in DOMAIN s.games
           /\ Games!Anchor \notin Games!Games(s)
<1>1. PICK S : s.games \in Seq(S)
  BY DEF GamesTyped
<1>2. Len(s.games) \in Nat /\ DOMAIN s.games = 1 .. Len(s.games) /\ Games!Games(s) = 0 .. Len(s.games) - 1
  BY <1>1, InSeq DEF Games!Games
<1>3. Len(s.games) <= Games!Anchor /\ Games!Anchor = 99
  BY DEF GamesTyped, Games!Anchor
<1>4. QED
  BY <1>2, <1>3

\* A new game that is good keeps them good.
LEMMA GameMade ==
    ASSUME NEW s, GamesOK(s), NEW g, GameGood(g, Len(s.games)), Len(s.games) < Games!Anchor,
           NEW t, t = [s EXCEPT !.games = Append(@, g)]
    PROVE  GamesOK(t) /\ GamesKept(s, t)
<1>0. GamesTyped(s) /\ s.now \in Nat
  BY DEF GamesOK, GamesTyped
<1>1. t = [now |-> s.now, respected |-> s.respected, games |-> Append(s.games, g)]
  BY <1>0 DEF GamesTyped
<1>2. /\ t.now = s.now /\ t.games = Append(s.games, g)
      /\ t = [now |-> t.now, respected |-> t.respected, games |-> t.games]
  BY <1>1
<1>3. PICK S : s.games \in Seq(S)
  BY <1>0 DEF GamesTyped
<1> DEFINE T == S \cup {g}
<1>4. s.games \in Seq(T)
  <2>1. S \subseteq T
    OBVIOUS
  <2> HIDE DEF T
  <2>2. QED
    BY <1>3, <2>1
<1>5. g \in T
  OBVIOUS
<1> HIDE DEF T
<1>6. /\ t.games \in Seq(T) /\ Len(t.games) = Len(s.games) + 1 /\ t.games[Len(s.games) + 1] = g
      /\ \A k \in DOMAIN s.games : t.games[k] = s.games[k]
  BY <1>2, <1>4, <1>5, OneMore
<1>7. /\ Len(s.games) \in Nat /\ Games!Games(s) = 0 .. Len(s.games) - 1
      /\ \A i \in Games!Games(s) : i \in Nat /\ i + 1 \in DOMAIN s.games
  BY <1>0, GamesAre
<1>8. GamesTyped(t)
  <2>1. Games!Anchor = 99
    BY DEF Games!Anchor
  <2>2. QED
    BY <1>0, <1>2, <1>6, <1>7, <2>1 DEF GamesTyped
<1>9. Games!Games(t) = 0 .. Len(t.games) - 1
  BY DEF Games!Games
<1>10. \A i \in Games!Games(t) : i = Len(s.games) \/ i \in Games!Games(s)
  BY <1>6, <1>7, <1>9
<1>11. \A i \in Games!Games(t) : GameGood(Games!GameOf(t, i), i)
  BY <1>6, <1>7, <1>10 DEF GamesOK, Games!GameOf
<1>12. GamesKept(s, t)
  BY <1>6, <1>7, <1>9 DEF GamesKept
<1>13. QED
  BY <1>8, <1>11, <1>12 DEF GamesOK

\* So does a game that stays good.
LEMMA GameChanged ==
    ASSUME NEW s, GamesOK(s), NEW i \in Games!Games(s), NEW g, GameGood(g, i), NEW t, t = Games!Changed(s, i, g)
    PROVE  GamesOK(t) /\ GamesKept(s, t)
<1>0. GamesTyped(s) /\ s.now \in Nat
  BY DEF GamesOK, GamesTyped
<1>1. t = [now |-> s.now, respected |-> s.respected, games |-> [s.games EXCEPT ![i + 1] = g]]
  BY <1>0 DEF GamesTyped, Games!Changed
<1>2. /\ t.now = s.now /\ t.games = [s.games EXCEPT ![i + 1] = g]
      /\ t = [now |-> t.now, respected |-> t.respected, games |-> t.games]
  BY <1>1
<1>3. PICK S : s.games \in Seq(S)
  BY <1>0 DEF GamesTyped
<1> DEFINE T == S \cup {g}
<1>4. s.games \in Seq(T)
  <2>1. S \subseteq T
    OBVIOUS
  <2> HIDE DEF T
  <2>2. QED
    BY <1>3, <2>1
<1>5. g \in T
  OBVIOUS
<1> HIDE DEF T
<1>6. /\ Len(s.games) \in Nat /\ DOMAIN s.games = 1 .. Len(s.games) /\ Games!Games(s) = 0 .. Len(s.games) - 1
      /\ \A j \in Games!Games(s) : j \in Nat /\ j + 1 \in DOMAIN s.games
  BY <1>0, GamesAre
<1>7. t.games \in Seq(T) /\ Len(t.games) = Len(s.games)
  BY <1>2, <1>4, <1>5, <1>6, ExceptSeq
<1>8. \A j \in Games!Games(s) : t.games[j + 1] = IF j = i THEN g ELSE s.games[j + 1]
  BY <1>2, <1>6
<1>9. GamesTyped(t)
  BY <1>0, <1>2, <1>7 DEF GamesTyped
<1>10. Games!Games(t) = Games!Games(s)
  BY <1>7 DEF Games!Games
<1>11. \A j \in Games!Games(t) : GameGood(Games!GameOf(t, j), j)
  BY <1>8, <1>10 DEF GamesOK, Games!GameOf
<1>12. QED
  BY <1>9, <1>10, <1>11 DEF GamesOK, GamesKept

\* What is below a bound on games is no anchor.
LEMMA BelowAnchor ==
    ASSUME NEW n \in Nat, NEW m \in 0 .. Games!Anchor, n < m
    PROVE  n < Games!Anchor
<1>1. Games!Anchor = 99
  BY DEF Games!Anchor
<1>2. QED
  BY <1>1

\* Making, challenging, resolving and blacklisting a game, and respecting
\* another type, keep them good.
LEMMA GamesStep ==
    ASSUME NEW r, r.max \in 0 .. Games!Anchor, \A k \in r.creations : k.type \in {"fault", "succinct"},
           NEW s, GamesOK(s), NEW t \in Games!Moves(r, s)
    PROVE  GamesOK(t) /\ GamesKept(s, t)
<1>0. /\ GamesTyped(s) /\ s.now \in Nat /\ Len(s.games) \in Nat /\ Games!Games(s) = 0 .. Len(s.games) - 1
      /\ \A i \in Games!Games(s) : GameGood(Games!GameOf(s, i), i)
      /\ Games!Anchor = 99
  BY GamesAre DEF GamesOK, GamesTyped, Games!Anchor
<1>1. CASE \E g \in Games!Created(r, s) : /\ Len(s.games) < r.max
                                          /\ g.kind = "fault" => g.parent = Games!Anchor
                                          /\ t = [s EXCEPT !.games = Append(@, g)]
  <2>1. PICK g \in Games!Created(r, s) : /\ Len(s.games) < r.max
                                         /\ g.kind = "fault" => g.parent = Games!Anchor
                                         /\ t = [s EXCEPT !.games = Append(@, g)]
    BY <1>1
  <2>2. PICK k \in r.creations, parent \in {Games!Anchor} \cup IF r.forks THEN Games!Games(s) ELSE {} :
            g = [kind |-> k.type, proposer |-> k.proposer, parent |-> parent,
                 root |-> Games!Root(Len(s.games) + 1, k.right), created |-> s.now,
                 claims |-> "unchallenged", status |-> Games!InProgress, resolved |-> 0,
                 proper |-> TRUE, wasRespected |-> k.type = s.respected]
    BY DEF Games!Created
  <2>3. parent = Games!Anchor \/ parent \in 0 .. Len(s.games) - 1
    BY <1>0, <2>2
  <2>4. GameGood(g, Len(s.games))
    BY <1>0, <2>1, <2>2, <2>3 DEF GameGood, GameShape
  <2>5. Len(s.games) < Games!Anchor
    BY <1>0, <2>1, BelowAnchor
  <2>6. QED
    BY <2>1, <2>4, <2>5, GameMade
<1>2. ASSUME NEW i \in Games!Games(s), NEW w
      PROVE  /\ GameGood(Games!Challenged(Games!GameOf(s, i)), i)
             /\ GameGood(Games!Resolved(s, Games!GameOf(s, i), w), i)
             /\ GameGood(Games!Blacklisted(Games!GameOf(s, i)), i)
  <2> DEFINE g == Games!GameOf(s, i)
             resolved == IF g.kind = "succinct" THEN "resolved" ELSE g.claims
             With(claims, status, at, proper) ==
                [kind |-> g.kind, proposer |-> g.proposer, parent |-> g.parent, root |-> g.root,
                 created |-> g.created, claims |-> claims, status |-> status, resolved |-> at,
                 proper |-> proper, wasRespected |-> g.wasRespected]
  <2>1. GameGood(g, i)
    BY <1>0
  <2> HIDE DEF g
  <2>2. g = With(g.claims, g.status, g.resolved, g.proper)
    BY <2>1 DEF GameGood, GameShape
  <2>3. /\ Games!Challenged(g) = With("challenged", g.status, g.resolved, g.proper)
        /\ Games!Resolved(s, g, w) = With(resolved, w, s.now, g.proper)
        /\ Games!Blacklisted(g) = With(g.claims, g.status, g.resolved, FALSE)
    <3>1. Games!Challenged(g) = With("challenged", g.status, g.resolved, g.proper)
      BY <2>2 DEF Games!Challenged
    <3>2. Games!Resolved(s, g, w) = With(resolved, w, s.now, g.proper)
      <4>1. Games!Resolved(s, g, w) = [g EXCEPT !.status = w, !.resolved = s.now, !.claims = resolved]
        BY Zenon DEF Games!Resolved
      <4> HIDE DEF resolved
      <4>2. QED
        BY <2>2, <4>1
    <3>3. Games!Blacklisted(g) = With(g.claims, g.status, g.resolved, FALSE)
      <4>1. Games!Blacklisted(g) = [With(g.claims, g.status, g.resolved, g.proper) EXCEPT !.proper = FALSE]
        <5> HIDE DEF With
        <5>1. QED
          BY <2>2 DEF Games!Blacklisted
      <4>2. QED
        BY <4>1
    <3>4. QED
      BY <3>1, <3>2, <3>3
  <2>4. ASSUME NEW claims, NEW status, NEW at \in Nat, NEW proper,
               g.kind = "succinct" /\ claims = "unchallenged" => status = Games!InProgress
        PROVE  GameGood(With(claims, status, at, proper), i)
    BY <2>1, <2>4 DEF GameGood, GameShape
  <2>5. /\ g.kind = "succinct" /\ g.claims = "unchallenged" => g.status = Games!InProgress
        /\ g.kind = "succinct" => resolved # "unchallenged"
        /\ g.resolved \in Nat /\ s.now \in Nat
    BY <1>0, <2>1 DEF GameGood
  <2> HIDE DEF With, resolved
  <2>6. QED
    BY <2>3, <2>4, <2>5 DEF g
<1>3. CASE \E i \in Games!Games(s) : t = Games!Changed(s, i, Games!Challenged(Games!GameOf(s, i)))
  BY <1>2, <1>3, GameChanged
<1>4. CASE \E i \in Games!Games(s) : \E w \in Games!Outcomes(r, s, Games!GameOf(s, i)) :
            t = Games!Changed(s, i, Games!Resolved(s, Games!GameOf(s, i), w))
  BY <1>2, <1>4, GameChanged
<1>5. CASE \E i \in Games!Games(s) : t = Games!Changed(s, i, Games!Blacklisted(Games!GameOf(s, i)))
  BY <1>2, <1>5, GameChanged
<1>6. CASE \E type \in r.respectable : t = [s EXCEPT !.respected = type]
  <2>1. PICK type \in r.respectable : t = [s EXCEPT !.respected = type]
    BY <1>6
  <2>2. t = [now |-> s.now, respected |-> type, games |-> s.games]
    BY <1>0, <2>1 DEF GamesTyped
  <2>3. t.now = s.now /\ t.games = s.games /\ t = [now |-> t.now, respected |-> t.respected, games |-> t.games]
    BY <2>2
  <2>4. Games!Games(t) = Games!Games(s) /\ \A i : Games!GameOf(t, i) = Games!GameOf(s, i)
    BY <2>3 DEF Games!Games, Games!GameOf
  <2>5. GamesTyped(t)
    BY <1>0, <2>3 DEF GamesTyped
  <2>6. QED
    BY <1>0, <2>4, <2>5 DEF GamesOK, GamesKept
<1>7. QED
  <2>1. \/ t \in {[s EXCEPT !.games = Append(@, g)] :
                    g \in {g \in Games!Created(r, s) : Len(s.games) < r.max
                            /\ (g.kind = "fault" => g.parent = Games!Anchor)}}
        \/ t \in {Games!Changed(s, i, Games!Challenged(Games!GameOf(s, i))) :
                    i \in {i \in Games!Games(s) : Games!GameOf(s, i).status = Games!InProgress}}
        \/ t \in UNION {{Games!Changed(s, i, Games!Resolved(s, Games!GameOf(s, i), w)) :
                            w \in Games!Outcomes(r, s, Games!GameOf(s, i))} : i \in Games!Games(s)}
        \/ t \in {Games!Changed(s, i, Games!Blacklisted(Games!GameOf(s, i))) :
                    i \in IF r.blacklists THEN Games!Games(s) ELSE {}}
        \/ t \in {[s EXCEPT !.respected = type] : type \in r.respectable}
    BY DEF Games!Moves
  <2>2. \A i : i \in (IF r.blacklists THEN Games!Games(s) ELSE {}) => i \in Games!Games(s)
    OBVIOUS
  <2>3. QED
    BY <1>1, <1>3, <1>4, <1>5, <1>6, <2>1, <2>2

-----------------------------------------------------------------------------
\* So does time.
LEMMA GamesTick ==
    ASSUME NEW s, GamesOK(s), NEW t, t = [s EXCEPT !.now = @ + 1]
    PROVE  GamesOK(t) /\ GamesKept(s, t)
<1>0. GamesTyped(s) /\ s.now \in Nat
  BY DEF GamesOK, GamesTyped
<1>1. t = [now |-> s.now + 1, respected |-> s.respected, games |-> s.games]
  BY <1>0 DEF GamesTyped
<1>2. t.now = s.now + 1 /\ t.games = s.games /\ t = [now |-> t.now, respected |-> t.respected, games |-> t.games]
  BY <1>1
<1>3. Games!Games(t) = Games!Games(s) /\ \A i : Games!GameOf(t, i) = Games!GameOf(s, i)
  BY <1>2 DEF Games!Games, Games!GameOf
<1>4. GamesTyped(t)
  BY <1>0, <1>2 DEF GamesTyped
<1>5. QED
  BY <1>3, <1>4 DEF GamesOK, GamesKept

\* From a game to what it builds on is a step down.
GameRank(s) == [i \in Games!Games(s) \cup {Games!Anchor} |-> IF i = Games!Anchor THEN 0 ELSE i + 1]

LEMMA GamesDown ==
    ASSUME NEW s, GamesOK(s)
    PROVE  LET rank == GameRank(s)
               parent(i) == Games!GameOf(s, i).parent
           IN /\ Len(s.games) \in Nat
              /\ Games!Games(s) = 0 .. Len(s.games) - 1 /\ Games!Anchor \notin Games!Games(s)
              /\ rank \in [Games!Games(s) \cup {Games!Anchor} -> 0 .. Len(s.games)]
              /\ \A i \in Games!Games(s) :
                    /\ i \in Nat /\ rank[i] \in Nat /\ rank[i] = i + 1
                    /\ parent(i) \in Games!Games(s) \cup {Games!Anchor}
                    /\ rank[parent(i)] \in Nat /\ rank[parent(i)] < rank[i]
                    /\ parent(i) # Games!Anchor => parent(i) \in Nat /\ parent(i) < i
<1>1. /\ Len(s.games) \in Nat /\ Games!Games(s) = 0 .. Len(s.games) - 1
      /\ Games!Anchor \notin Games!Games(s)
  BY GamesAre DEF GamesOK
<1> DEFINE rank == GameRank(s)
           parent(i) == Games!GameOf(s, i).parent
<1>2. rank[Games!Anchor] = 0 /\ \A i \in Games!Games(s) : rank[i] = i + 1
  BY <1>1 DEF GameRank
<1>3. rank \in [Games!Games(s) \cup {Games!Anchor} -> 0 .. Len(s.games)]
  BY <1>1 DEF GameRank
<1> HIDE DEF rank
<1>4. ASSUME NEW i \in Games!Games(s)
      PROVE  /\ i \in Nat /\ rank[i] \in Nat /\ rank[i] = i + 1
             /\ parent(i) \in Games!Games(s) \cup {Games!Anchor}
             /\ rank[parent(i)] \in Nat /\ rank[parent(i)] < rank[i]
             /\ parent(i) # Games!Anchor => parent(i) \in Nat /\ parent(i) < i
  <2>1. parent(i) = Games!Anchor \/ parent(i) \in 0 .. i - 1
    BY DEF GamesOK, GameGood
  <2> HIDE DEF parent
  <2>2. i \in Nat /\ i < Len(s.games)
    BY <1>1
  <2>3. CASE parent(i) = Games!Anchor
    BY <1>2, <2>2, <2>3
  <2>4. CASE parent(i) \in 0 .. i - 1
    <3>1. parent(i) \in Nat /\ parent(i) < i /\ parent(i) \in Games!Games(s)
      BY <1>1, <2>2, <2>4
    <3>2. QED
      BY <1>2, <2>2, <3>1
  <2>5. QED
    BY <2>1, <2>3, <2>4
<1>5. QED
  BY <1>1, <1>3, <1>4 DEF rank

\* Where the search among the ancestors stops.
AncestorHere(s, type, memo, i) ==
    i = Games!Anchor \/ i >= memo \/ Games!GameOf(s, i).kind # type
        \/ Games!GameOf(s, i).claims # "unchallenged"

\* Ancestor() is what its recursion says.
LEMMA AncestorIs ==
    ASSUME NEW s, GamesOK(s), NEW type, NEW memo
    PROVE  \A i \in Games!Games(s) \cup {Games!Anchor} :
                Games!Ancestor(s, type, memo, i) =
                    IF AncestorHere(s, type, memo, i) THEN i
                    ELSE Games!Ancestor(s, type, memo, Games!GameOf(s, i).parent)
<1> DEFINE D == Games!Games(s) \cup {Games!Anchor}
           parent(i) == Games!GameOf(s, i).parent
           Here(i) == AncestorHere(s, type, memo, i)
           up == CHOOSE up : up = [i \in Games!Games(s) \cup {Games!Anchor} |->
                    IF i = Games!Anchor \/ i >= memo \/ Games!GameOf(s, i).kind # type
                            \/ Games!GameOf(s, i).claims # "unchallenged"
                    THEN i ELSE up[Games!GameOf(s, i).parent]]
           G == [i \in D |-> [h \in [D -> D] |-> IF Here(i) THEN i ELSE h[parent(i)]]]
           rank == GameRank(s)
<1>1. \A i : Games!Ancestor(s, type, memo, i) = up[i]
  BY DEF Games!Ancestor
<1>2. /\ Len(s.games) \in Nat /\ rank \in [D -> 0 .. Len(s.games)] /\ D # {}
      /\ \A i \in D : ~Here(i) => parent(i) \in D /\ rank[parent(i)] < rank[i]
  BY GamesDown DEF AncestorHere
<1> HIDE DEF D, rank, Here, parent
<1>3. \A i \in D : \A f, h \in [D -> D] : SameBelow(D, rank, rank[i], f, h) => G[i][f] = G[i][h]
  BY <1>2 DEF SameBelow
<1>4. G \in [D -> [[D -> D] -> D]]
  <2> SUFFICES ASSUME NEW i \in D, NEW h \in [D -> D] PROVE G[i][h] \in D
    OBVIOUS
  <2>1. QED
    BY <1>2
<1>5. PICK f \in [D -> D] : \A i \in D : f[i] = G[i][f]
  <2> HIDE DEF G
  <2>1. Rule(D, D, Len(s.games), rank, G)
    BY <1>2, <1>3, <1>4 DEF Rule
  <2>2. QED
    BY <2>1, Recursion
<1>6. f = [i \in Games!Games(s) \cup {Games!Anchor} |->
                    IF i = Games!Anchor \/ i >= memo \/ Games!GameOf(s, i).kind # type
                            \/ Games!GameOf(s, i).claims # "unchallenged"
                    THEN i ELSE f[Games!GameOf(s, i).parent]]
  <2>1. \A i \in D : f[i] = IF Here(i) THEN i ELSE f[parent(i)]
    BY <1>5
  <2>2. f = [i \in D |-> IF Here(i) THEN i ELSE f[parent(i)]]
    BY <1>5, <2>1
  <2>3. QED
    BY <2>2 DEF D, Here, AncestorHere, parent
<1>7. up = [i \in Games!Games(s) \cup {Games!Anchor} |->
                    IF i = Games!Anchor \/ i >= memo \/ Games!GameOf(s, i).kind # type
                            \/ Games!GameOf(s, i).claims # "unchallenged"
                    THEN i ELSE up[Games!GameOf(s, i).parent]]
  BY <1>6
<1> HIDE DEF up
<1>8. \A i \in D : up[i] = IF Here(i) THEN i ELSE up[parent(i)]
  BY <1>7 DEF D, Here, AncestorHere, parent
<1>9. QED
  BY <1>1, <1>8 DEF D, Here, parent

\* Where the list of ancestors ends.
AncestorsEnd(s, i) ==
    Games!GameOf(s, i).parent = Games!Anchor \/ Games!GameOf(s, i).status = Games!DefenderWins

\* Ancestors() is what its recursion says.
LEMMA AncestorsAre ==
    ASSUME NEW s, GamesOK(s)
    PROVE  \A i \in Games!Games(s) :
                Games!Ancestors(s, i) =
                    {i} \cup IF AncestorsEnd(s, i) THEN {}
                             ELSE Games!Ancestors(s, Games!GameOf(s, i).parent)
<1> DEFINE D == Games!Games(s)
           V == SUBSET D
           parent(i) == Games!GameOf(s, i).parent
           End(i) == AncestorsEnd(s, i)
           up == CHOOSE up : up = [i \in Games!Games(s) |->
                    {i} \cup IF Games!GameOf(s, i).parent = Games!Anchor
                                    \/ Games!GameOf(s, i).status = Games!DefenderWins
                             THEN {} ELSE up[Games!GameOf(s, i).parent]]
           G == [i \in D |-> [h \in [D -> V] |-> {i} \cup IF End(i) THEN {} ELSE h[parent(i)]]]
           rank == [i \in D |-> GameRank(s)[i]]
<1>1. \A i : Games!Ancestors(s, i) = up[i]
  BY DEF Games!Ancestors
<1>2. /\ Len(s.games) \in Nat /\ rank \in [D -> 0 .. Len(s.games)] /\ V # {}
      /\ \A i \in D : ~End(i) => parent(i) \in D /\ rank[parent(i)] < rank[i]
  BY GamesDown DEF AncestorsEnd
<1> HIDE DEF D, rank, End, parent
<1>3. \A i \in D : \A f, h \in [D -> V] : SameBelow(D, rank, rank[i], f, h) => G[i][f] = G[i][h]
  BY <1>2 DEF SameBelow
<1>4. G \in [D -> [[D -> V] -> V]]
  <2> SUFFICES ASSUME NEW i \in D, NEW h \in [D -> V] PROVE G[i][h] \in V
    OBVIOUS
  <2>1. QED
    BY <1>2
<1>5. PICK f \in [D -> V] : \A i \in D : f[i] = G[i][f]
  <2> HIDE DEF G, V
  <2>1. Rule(D, V, Len(s.games), rank, G)
    BY <1>2, <1>3, <1>4 DEF Rule
  <2>2. QED
    BY <2>1, Recursion
<1>6. f = [i \in Games!Games(s) |->
                    {i} \cup IF Games!GameOf(s, i).parent = Games!Anchor
                                    \/ Games!GameOf(s, i).status = Games!DefenderWins
                             THEN {} ELSE f[Games!GameOf(s, i).parent]]
  <2>1. \A i \in D : f[i] = {i} \cup IF End(i) THEN {} ELSE f[parent(i)]
    BY <1>5
  <2>2. f = [i \in D |-> {i} \cup IF End(i) THEN {} ELSE f[parent(i)]]
    BY <1>5, <2>1
  <2>3. QED
    BY <2>2 DEF D, End, AncestorsEnd, parent
<1>7. up = [i \in Games!Games(s) |->
                    {i} \cup IF Games!GameOf(s, i).parent = Games!Anchor
                                    \/ Games!GameOf(s, i).status = Games!DefenderWins
                             THEN {} ELSE up[Games!GameOf(s, i).parent]]
  BY <1>6
<1> HIDE DEF up
<1>8. \A i \in D : up[i] = {i} \cup IF End(i) THEN {} ELSE up[parent(i)]
  BY <1>7 DEF D, End, AncestorsEnd, parent
<1>9. QED
  BY <1>1, <1>8 DEF D, End, parent

-----------------------------------------------------------------------------
\* The walk ends at the anchor or at a game below where it began.
LEMMA AncestorFound ==
    ASSUME NEW s, GamesOK(s), NEW type, NEW memo
    PROVE  \A i \in Games!Games(s) \cup {Games!Anchor} :
                LET a == Games!Ancestor(s, type, memo, i)
                IN /\ AncestorHere(s, type, memo, a)
                   /\ a # Games!Anchor => i # Games!Anchor /\ a \in Games!Games(s) /\ a <= i
<1> DEFINE D == Games!Games(s) \cup {Games!Anchor}
           a(i) == Games!Ancestor(s, type, memo, i)
           parent(i) == Games!GameOf(s, i).parent
           Here(i) == AncestorHere(s, type, memo, i)
           rank == GameRank(s)
           Good(i) == /\ Here(a(i))
                      /\ a(i) # Games!Anchor => i # Games!Anchor /\ a(i) \in Games!Games(s) /\ a(i) <= i
           S == {i \in D : Good(i)}
<1>1. /\ Len(s.games) \in Nat /\ rank \in [D -> 0 .. Len(s.games)]
      /\ \A i \in D : ~Here(i) => /\ i \in Games!Games(s) /\ i \in Nat
                                  /\ parent(i) \in D /\ rank[parent(i)] < rank[i]
                                  /\ parent(i) # Games!Anchor => parent(i) \in Nat /\ parent(i) < i
      /\ \A i \in Games!Games(s) : i \in Nat
  BY GamesDown DEF AncestorHere
<1>2. \A i \in D : a(i) = IF Here(i) THEN i ELSE a(parent(i))
  BY AncestorIs
<1> HIDE DEF a, rank, Here, parent
<1>3. ASSUME NEW i \in D, \A j \in D : rank[j] < rank[i] => j \in S PROVE i \in S
  <2>1. CASE Here(i)
    <3>1. a(i) = i
      BY <1>2, <2>1
    <3>2. i # Games!Anchor => i \in Games!Games(s) /\ i <= i
      BY <1>1
    <3>3. QED
      BY <2>1, <3>1, <3>2
  <2>2. CASE ~Here(i)
    <3>1. a(i) = a(parent(i)) /\ Good(parent(i)) /\ i \in Games!Games(s) /\ i \in Nat
      BY <1>1, <1>2, <1>3, <2>2
    <3>2. i # Games!Anchor
      BY <2>2 DEF Here, AncestorHere
    <3>3. a(i) # Games!Anchor => a(i) \in Games!Games(s) /\ a(i) <= i
      <4> HAVE a(i) # Games!Anchor
      <4>1. a(i) \in Games!Games(s) /\ a(i) <= parent(i) /\ parent(i) # Games!Anchor
        BY <3>1
      <4>2. a(i) \in Nat /\ parent(i) \in Nat /\ parent(i) < i
        BY <1>1, <2>2, <4>1
      <4>3. QED
        BY <3>1, <4>1, <4>2
    <3>4. QED
      BY <3>1, <3>2, <3>3
  <2>3. QED
    BY <2>1, <2>2
<1>4. \A i \in D : i \in S
  <2> HIDE DEF S, D
  <2>1. Inductive(D, Len(s.games), rank, S)
    BY <1>1, <1>3 DEF Inductive
  <2>2. QED
    BY <2>1, Induction
<1>5. QED
  BY <1>4 DEF a, Here

\* Won, or nobody says it is wrong.
GameFine(s, i) ==
    \/ Games!GameOf(s, i).status = Games!DefenderWins
    \/ Games!GameOf(s, i).status = Games!InProgress /\ Games!GameOf(s, i).claims = "unchallenged"
    \/ Games!GameOf(s, i).kind = "fault" /\ Games!GameOf(s, i).claims = "unchallenged"

\* The walk of a game of the newer type passes none that is not fine.
LEMMA AncestorPasses ==
    ASSUME NEW s, GamesOK(s), NEW memo
    PROVE  \A i \in Games!Games(s) : \A b \in Games!Ancestors(s, i) :
                LET a == Games!Ancestor(s, "succinct", memo, i)
                IN GameFine(s, b) \/ (a # Games!Anchor /\ b \in Games!Ancestors(s, a))
<1> DEFINE D == Games!Games(s)
           a(i) == Games!Ancestor(s, "succinct", memo, i)
           parent(i) == Games!GameOf(s, i).parent
           Here(i) == AncestorHere(s, "succinct", memo, i)
           End(i) == AncestorsEnd(s, i)
           Back(i) == Games!Ancestors(s, i)
           rank == [i \in D |-> GameRank(s)[i]]
           Passed(b, i) == GameFine(s, b) \/ (a(i) # Games!Anchor /\ b \in Back(a(i)))
           S == {i \in D : \A b \in Back(i) : Passed(b, i)}
<1>1. /\ Len(s.games) \in Nat /\ rank \in [D -> 0 .. Len(s.games)]
      /\ \A i \in D : ~End(i) => parent(i) \in D /\ rank[parent(i)] < rank[i]
      /\ \A i \in D : i # Games!Anchor
  BY GamesDown DEF AncestorsEnd
<1>2. \A i \in D : a(i) = IF Here(i) THEN i ELSE a(parent(i))
  BY AncestorIs
<1>3. \A i \in D : Back(i) = {i} \cup IF End(i) THEN {} ELSE Back(parent(i))
  BY AncestorsAre
<1>4. \A i \in D : ~Here(i) => GameFine(s, i)
  BY DEF AncestorHere, GameFine, GamesOK, GameGood
<1> HIDE DEF a, rank, Here, parent, End, Back, D
<1>5. ASSUME NEW i \in D, \A j \in D : rank[j] < rank[i] => j \in S PROVE i \in S
  <2> SUFFICES ASSUME NEW b \in Back(i) PROVE Passed(b, i)
    OBVIOUS
  <2>1. CASE Here(i)
    <3>1. a(i) = i /\ i # Games!Anchor
      BY <1>1, <1>2, <2>1
    <3>2. QED
      BY <3>1
  <2>2. CASE ~Here(i)
    <3>1. a(i) = a(parent(i)) /\ GameFine(s, i)
      BY <1>2, <1>4, <2>2
    <3>2. b = i \/ (~End(i) /\ b \in Back(parent(i)))
      BY <1>3
    <3>3. CASE ~End(i) /\ b \in Back(parent(i))
      <4>1. parent(i) \in S
        BY <1>1, <1>5, <3>3
      <4>2. Passed(b, parent(i))
        BY <3>3, <4>1
      <4>3. QED
        BY <3>1, <4>2
    <3>4. QED
      BY <3>1, <3>2, <3>3
  <2>3. QED
    BY <2>1, <2>2
<1>6. \A i \in D : i \in S
  <2> HIDE DEF S
  <2>1. Inductive(D, Len(s.games), rank, S)
    BY <1>1, <1>5 DEF Inductive
  <2>2. QED
    BY <2>1, Induction
<1>7. QED
  BY <1>6 DEF D, a, Back

\* The answers to whether a game is usable.
GameAnswers(s) == [ok : BOOLEAN, memo : 0 .. Len(s.games)]
GameQuestions(s) == Games!Games(s) \X (0 .. Len(s.games))

\* What the check of a game asks is asked of one below it.
LEMMA GameAsked ==
    ASSUME NEW r, NEW s, GamesOK(s), NEW i \in Games!Games(s), NEW memo \in 0 .. Len(s.games)
    PROVE  LET g == Games!GameOf(s, i)
               a == Games!Ancestor(s, g.kind, memo, g.parent)
           IN /\ \A h \in [GameQuestions(s) -> GameAnswers(s)] :
                    Games!CheckGame(r, s, h, g, memo) \in GameAnswers(s)
              /\ \A f, h : (a \in Games!Games(s) /\ a < i => f[<<a, memo>>] = h[<<a, memo>>]) =>
                        Games!CheckGame(r, s, f, g, memo) = Games!CheckGame(r, s, h, g, memo)
<1> DEFINE g == Games!GameOf(s, i)
           a == Games!Ancestor(s, g.kind, memo, g.parent)
<1>1. a = Games!Anchor \/ (a \in Games!Games(s) /\ a \in Nat /\ a < i)
  <2>1. g.parent \in Games!Games(s) \cup {Games!Anchor} /\ i \in Nat
        /\ (g.parent # Games!Anchor => g.parent \in Nat /\ g.parent < i)
        /\ \A j \in Games!Games(s) : j \in Nat
    BY GamesDown
  <2>2. a # Games!Anchor => g.parent # Games!Anchor /\ a \in Games!Games(s) /\ a <= g.parent
    BY <2>1, AncestorFound
  <2> HIDE DEF a, g
  <2>3. ASSUME a # Games!Anchor PROVE a \in Games!Games(s) /\ a \in Nat /\ a < i
    <3>1. a \in Games!Games(s) /\ a \in Nat /\ a <= g.parent /\ g.parent \in Nat /\ g.parent < i /\ i \in Nat
      BY <2>1, <2>2, <2>3
    <3>2. \A x, y, z \in Nat : x <= y /\ y < z => x < z
      OBVIOUS
    <3>3. QED
      BY <3>1, <3>2
  <2>4. QED
    BY <2>3
<1>2. memo \in Nat /\ memo <= Len(s.games) /\ Len(s.games) \in Nat
  BY GamesDown
<1>3. ASSUME a < memo, a # Games!Anchor PROVE a \in 0 .. Len(s.games)
  <2> HIDE DEF a
  <2>1. QED
    BY <1>1, <1>2, <1>3
<1>4. ASSUME NEW f \in [GameQuestions(s) -> GameAnswers(s)]
      PROVE  Games!IsUnchallenged(s, f, g, memo) \in GameAnswers(s)
  <2>1. a # Games!Anchor => f[<<a, memo>>] \in GameAnswers(s)
    BY <1>1 DEF GameQuestions
  <2> HIDE DEF a
  <2>2. Games!IsUnchallenged(s, f, g, memo) =
            IF g.claims # "unchallenged" THEN Games!Says(FALSE, memo)
            ELSE IF g.kind = "fault" \/ a = Games!Anchor THEN Games!Says(TRUE, memo)
            ELSE IF a >= memo THEN Games!Says(FALSE, memo)
            ELSE IF Games!GameOf(s, a).kind # g.kind THEN f[<<a, memo>>]
            ELSE Games!Says(Games!GameOf(s, a).claims = "resolved"
                                /\ Games!GameOf(s, a).status = Games!DefenderWins, a)
    BY DEF Games!IsUnchallenged, a
  <2>3. \A ok \in BOOLEAN : \A m \in 0 .. Len(s.games) : Games!Says(ok, m) \in GameAnswers(s)
    BY DEF Games!Says, GameAnswers
  <2>4. ~(a >= memo) /\ a # Games!Anchor => a < memo
    BY <1>1, <1>2
  <2> HIDE DEF g
  <2>5. QED
    BY <1>3, <2>1, <2>2, <2>3, <2>4
<1>5. ASSUME NEW f \in [GameQuestions(s) -> GameAnswers(s)]
      PROVE  Games!CheckGame(r, s, f, g, memo) \in GameAnswers(s)
  <2> DEFINE u == Games!IsUnchallenged(s, f, g, memo)
  <2>1. u \in GameAnswers(s)
    BY <1>4
  <2>2. Games!CheckGame(r, s, f, g, memo) =
            IF ~Games!Considered(r, s, g) THEN Games!Says(FALSE, memo)
            ELSE IF r.minAge = 0 THEN Games!Says(g.status = Games!DefenderWins, memo)
            ELSE [u EXCEPT !.ok = @ \/ g.status = Games!DefenderWins]
    BY DEF Games!CheckGame
  <2> HIDE DEF u, g
  <2>3. [u EXCEPT !.ok = @ \/ g.status = Games!DefenderWins] \in GameAnswers(s)
    BY <2>1 DEF GameAnswers
  <2>4. \A ok \in BOOLEAN : Games!Says(ok, memo) \in GameAnswers(s)
    BY DEF Games!Says, GameAnswers
  <2>5. QED
    BY <2>2, <2>3, <2>4
<1>6. ASSUME NEW f, NEW h,
             a \in Games!Games(s) /\ a < i => f[<<a, memo>>] = h[<<a, memo>>]
      PROVE  Games!CheckGame(r, s, f, g, memo) = Games!CheckGame(r, s, h, g, memo)
  <2>1. a # Games!Anchor => f[<<a, memo>>] = h[<<a, memo>>]
    BY <1>1, <1>6
  <2>2. Games!IsUnchallenged(s, f, g, memo) = Games!IsUnchallenged(s, h, g, memo)
    BY <2>1 DEF Games!IsUnchallenged
  <2>3. QED
    BY <2>2 DEF Games!CheckGame
<1>7. QED
  BY <1>5, <1>6

-----------------------------------------------------------------------------
\* UsableGames() is what its recursion says, and answers every question.
LEMMA UsableIs ==
    ASSUME NEW r, NEW s, GamesOK(s)
    PROVE  /\ Games!UsableGames(r, s) \in [GameQuestions(s) -> GameAnswers(s)]
           /\ \A i \in Games!Games(s) : \A memo \in 0 .. Len(s.games) :
                Games!UsableGames(r, s)[<<i, memo>>] =
                    Games!CheckGame(r, s, Games!UsableGames(r, s), Games!GameOf(s, i), memo)
<1> DEFINE D == GameQuestions(s)
           V == GameAnswers(s)
           Check(h, w) == Games!CheckGame(r, s, h, Games!GameOf(s, w[1]), w[2])
           usable == CHOOSE usable : usable = [w \in Games!Games(s) \X (0 .. Len(s.games)) |->
                        Games!CheckGame(r, s, usable, Games!GameOf(s, w[1]), w[2])]
           G == [w \in D |-> [h \in [D -> V] |-> Check(h, w)]]
           rank == [w \in D |-> w[1]]
<1>1. Games!UsableGames(r, s) = usable
  BY DEF Games!UsableGames
<1>2. /\ Len(s.games) \in Nat /\ Games!Games(s) = 0 .. Len(s.games) - 1
      /\ \A i \in Games!Games(s) : i \in Nat
  BY GamesDown
<1>3. /\ \A w \in D : w[1] \in Games!Games(s) /\ w[2] \in 0 .. Len(s.games) /\ rank[w] = w[1]
      /\ \A i \in Games!Games(s) : \A memo \in 0 .. Len(s.games) :
            \E w \in D : w = <<i, memo>> /\ w[1] = i /\ w[2] = memo
  <2>1. D = Games!Games(s) \X (0 .. Len(s.games))
    BY DEF GameQuestions
  <2>2. \A w \in D : rank[w] = w[1]
    OBVIOUS
  <2> HIDE DEF D, rank
  <2>3. \A w \in D : w[1] \in Games!Games(s) /\ w[2] \in 0 .. Len(s.games)
    BY <2>1
  <2>4. ASSUME NEW i \in Games!Games(s), NEW memo \in 0 .. Len(s.games)
        PROVE  \E w \in D : w = <<i, memo>> /\ w[1] = i /\ w[2] = memo
    <3>1. <<i, memo>> \in D
      BY <2>1
    <3>2. QED
      BY <3>1
  <2>5. QED
    BY <2>2, <2>3, <2>4
<1>4. rank \in [D -> 0 .. Len(s.games)]
  BY <1>2, <1>3
<1>5. V # {}
  <2>1. [ok |-> TRUE, memo |-> 0] \in V
    BY <1>2 DEF GameAnswers
  <2>2. QED
    BY <2>1
<1> HIDE DEF D, V, rank
<1>6. ASSUME NEW w \in D, NEW f, NEW h, SameBelow(D, rank, rank[w], f, h)
      PROVE  /\ Check(f, w) = Check(h, w)
             /\ h \in [D -> V] => Check(h, w) \in V
  <2> DEFINE i == w[1]
             memo == w[2]
             g == Games!GameOf(s, i)
             a == Games!Ancestor(s, g.kind, memo, g.parent)
  <2>1. i \in Games!Games(s) /\ memo \in 0 .. Len(s.games) /\ rank[w] = i
    BY <1>3
  <2> HIDE DEF i, memo
  <2>2. /\ \A k \in [GameQuestions(s) -> GameAnswers(s)] :
                Games!CheckGame(r, s, k, g, memo) \in GameAnswers(s)
        /\ (a \in Games!Games(s) /\ a < i => f[<<a, memo>>] = h[<<a, memo>>]) =>
                Games!CheckGame(r, s, f, g, memo) = Games!CheckGame(r, s, h, g, memo)
    <3>1. GamesOK(s) /\ i \in Games!Games(s) /\ memo \in 0 .. Len(s.games)
      BY <2>1
    <3>2. QED
      BY ONLY <3>1, GameAsked
  <2>3. a \in Games!Games(s) /\ a < i => f[<<a, memo>>] = h[<<a, memo>>]
    <3> HIDE DEF a
    <3> HAVE a \in Games!Games(s) /\ a < i
    <3>1. PICK v \in D : v = <<a, memo>> /\ v[1] = a
      BY <1>3, <2>1
    <3>2. rank[v] < rank[w]
      BY <1>3, <2>1, <3>1 DEF i
    <3>3. QED
      BY <1>6, <3>1, <3>2 DEF SameBelow
  <2>4. QED
    <3>1. Check(f, w) = Check(h, w)
      BY <2>2, <2>3 DEF i, memo
    <3>2. h \in [D -> V] => Check(h, w) \in V
      BY <2>2 DEF D, V, i, memo
    <3>3. QED
      BY <3>1, <3>2
<1> HIDE DEF Check
<1>7. G \in [D -> [[D -> V] -> V]]
  <2> SUFFICES ASSUME NEW w \in D, NEW h \in [D -> V] PROVE Check(h, w) \in V
    OBVIOUS
  <2>1. SameBelow(D, rank, rank[w], h, h)
    BY DEF SameBelow
  <2>2. QED
    BY <1>6, <2>1
<1>8. \A w \in D : \A f, h \in [D -> V] : SameBelow(D, rank, rank[w], f, h) => G[w][f] = G[w][h]
  BY <1>6
<1>9. PICK f \in [D -> V] : \A w \in D : f[w] = G[w][f]
  <2> HIDE DEF G
  <2>1. Rule(D, V, Len(s.games), rank, G)
    BY <1>2, <1>4, <1>5, <1>7, <1>8 DEF Rule
  <2>2. QED
    BY <2>1, Recursion
<1>10. f = [w \in Games!Games(s) \X (0 .. Len(s.games)) |->
                Games!CheckGame(r, s, f, Games!GameOf(s, w[1]), w[2])]
  <2>1. f = [w \in D |-> Check(f, w)]
    BY <1>9
  <2>2. QED
    BY <2>1 DEF D, GameQuestions, Check
<1>11. usable = [w \in Games!Games(s) \X (0 .. Len(s.games)) |->
                Games!CheckGame(r, s, usable, Games!GameOf(s, w[1]), w[2])]
  BY <1>10
<1> HIDE DEF usable
<1>12. usable = [w \in D |-> Check(usable, w)]
  BY <1>11 DEF D, GameQuestions, Check
\* There is one such function.
<1>13. usable = f
  <2> DEFINE S == {w \in D : usable[w] = f[w]}
  <2>1. ASSUME NEW w \in D, \A v \in D : rank[v] < rank[w] => v \in S PROVE w \in S
    <3>1. SameBelow(D, rank, rank[w], usable, f)
      BY <2>1 DEF SameBelow
    <3>2. Check(usable, w) = Check(f, w)
      BY <1>6, <3>1
    <3>3. QED
      BY <1>9, <1>12, <3>2
  <2>2. \A w \in D : w \in S
    <3> HIDE DEF S
    <3>1. Inductive(D, Len(s.games), rank, S)
      BY <1>2, <1>4, <2>1 DEF Inductive
    <3>2. QED
      BY <3>1, Induction
  <2>3. \A w \in D : usable[w] = f[w]
    BY <2>2
  <2>4. QED
    BY <1>9, <1>12, <2>3
<1>14. ASSUME NEW i \in Games!Games(s), NEW memo \in 0 .. Len(s.games)
       PROVE  usable[<<i, memo>>] = Games!CheckGame(r, s, usable, Games!GameOf(s, i), memo)
  <2>1. PICK w \in D : w = <<i, memo>> /\ w[1] = i /\ w[2] = memo
    BY <1>3
  <2>2. QED
    BY <1>12, <2>1 DEF Check
<1>15. QED
  BY <1>1, <1>13, <1>14 DEF D, V

-----------------------------------------------------------------------------
\* A game the finder finds usable is one it may consider, and it has won or
\* nothing it rests on is lost or disputed.
LEMMA UsableStands ==
    ASSUME NEW r, NEW s, GamesOK(s), NEW i \in Games!Games(s), NEW memo \in 0 .. Len(s.games),
           Games!UsableGames(r, s)[<<i, memo>>].ok
    PROVE  /\ Games!Considered(r, s, Games!GameOf(s, i))
           /\ r.minAge = 0 => Games!GameOf(s, i).status = Games!DefenderWins
           /\ r.minAge # 0 => \A b \in Games!Ancestors(s, i) : GameFine(s, b)
<1> DEFINE usable == Games!UsableGames(r, s)
           g(j) == Games!GameOf(s, j)
           rank == [j \in Games!Games(s) |-> GameRank(s)[j]]
           Back(j) == Games!Ancestors(s, j)
           S == {j \in Games!Games(s) : \A m \in 0 .. Len(s.games) : usable[<<j, m>>].ok =>
                    /\ Games!Considered(r, s, g(j))
                    /\ r.minAge = 0 => g(j).status = Games!DefenderWins
                    /\ r.minAge # 0 => \A b \in Back(j) : GameFine(s, b)}
<1>1. /\ Len(s.games) \in Nat /\ rank \in [Games!Games(s) -> 0 .. Len(s.games)]
      /\ \A j \in Games!Games(s) : /\ j \in Nat /\ rank[j] = j + 1
                                   /\ g(j).parent \in Games!Games(s) \cup {Games!Anchor}
                                   /\ g(j).parent # Games!Anchor => g(j).parent \in Nat /\ g(j).parent < j
  BY GamesDown
<1>2. \A j \in Games!Games(s) : \A m \in 0 .. Len(s.games) :
            usable[<<j, m>>] = Games!CheckGame(r, s, usable, g(j), m)
  BY UsableIs
<1> HIDE DEF usable, rank
<1>3. ASSUME NEW j \in Games!Games(s), \A k \in Games!Games(s) : rank[k] < rank[j] => k \in S
      PROVE  j \in S
  <2> SUFFICES ASSUME NEW m \in 0 .. Len(s.games), usable[<<j, m>>].ok
               PROVE  /\ Games!Considered(r, s, g(j))
                      /\ r.minAge = 0 => g(j).status = Games!DefenderWins
                      /\ r.minAge # 0 => \A b \in Back(j) : GameFine(s, b)
    OBVIOUS
  <2> DEFINE u == Games!IsUnchallenged(s, usable, g(j), m)
             won == g(j).status = Games!DefenderWins
  <2>1. /\ Games!Considered(r, s, g(j))
        /\ r.minAge = 0 => won
        /\ r.minAge # 0 => [u EXCEPT !.ok = @ \/ won].ok
    <3>1. usable[<<j, m>>] = IF ~Games!Considered(r, s, g(j)) THEN Games!Says(FALSE, m)
                             ELSE IF r.minAge = 0 THEN Games!Says(won, m)
                             ELSE [u EXCEPT !.ok = @ \/ won]
      <4>1. usable[<<j, m>>] = Games!CheckGame(r, s, usable, g(j), m)
        BY <1>2
      <4>2. QED
        BY <4>1 DEF Games!CheckGame
    <3>2. \A ok \in BOOLEAN : Games!Says(ok, m).ok = ok
      BY DEF Games!Says
    <3>3. won \in BOOLEAN
      OBVIOUS
    <3> HIDE DEF u, won
    <3>4. QED
      BY <3>1, <3>2, <3>3
  <2>2. CASE r.minAge = 0
    BY <2>1, <2>2
  <2>3. CASE r.minAge # 0
    <3> DEFINE parent == g(j).parent
               a == Games!Ancestor(s, g(j).kind, m, parent)
    <3>1. /\ g(j).parent = Games!Anchor \/ g(j).parent \in Games!Games(s)
          /\ g(j).kind \in {"fault", "succinct"}
          /\ g(j).kind = "fault" => g(j).parent = Games!Anchor
          /\ g(j).kind = "succinct" /\ g(j).claims = "unchallenged" => g(j).status = Games!InProgress
      BY <1>1 DEF GamesOK, GameGood
    <3>2. /\ won \/ parent = Games!Anchor => Back(j) = {j}
          /\ ~won /\ parent # Games!Anchor => Back(j) = {j} \cup Back(parent)
      BY AncestorsAre DEF AncestorsEnd
    <3>3. CASE won
      BY <2>1, <2>3, <3>2, <3>3 DEF GameFine
    <3>4. CASE ~won
      <4>1. a # Games!Anchor => /\ parent # Games!Anchor /\ parent \in Games!Games(s)
                                /\ a \in Games!Games(s) /\ a \in Nat /\ rank[a] < rank[j]
        <5>1. a # Games!Anchor => parent # Games!Anchor /\ a \in Games!Games(s) /\ a <= parent
          <6>1. parent \in Games!Games(s) \cup {Games!Anchor}
            BY <1>1
          <6>2. QED
            BY <6>1, AncestorFound
        <5> HIDE DEF a
        <5> HAVE a # Games!Anchor
        <5>2. /\ parent # Games!Anchor /\ parent \in Games!Games(s) /\ parent \in Nat /\ parent < j /\ j \in Nat
              /\ a \in Games!Games(s) /\ a \in Nat /\ a <= parent /\ rank[a] = a + 1 /\ rank[j] = j + 1
          BY <1>1, <3>1, <5>1
        <5>3. \A x, y, z \in Nat : x <= y /\ y < z => x + 1 < z + 1
          OBVIOUS
        <5> HIDE DEF parent
        <5>4. QED
          BY <5>2, <5>3
      <4>2. u = IF g(j).claims # "unchallenged" THEN Games!Says(FALSE, m)
                ELSE IF g(j).kind = "fault" \/ a = Games!Anchor THEN Games!Says(TRUE, m)
                ELSE IF a >= m THEN Games!Says(FALSE, m)
                ELSE IF g(a).kind # g(j).kind THEN usable[<<a, m>>]
                ELSE Games!Says(g(a).claims = "resolved" /\ g(a).status = Games!DefenderWins, a)
        BY DEF Games!IsUnchallenged
      <4>3. \A ok \in BOOLEAN : \A k : Games!Says(ok, k).ok = ok
        BY DEF Games!Says
      <4>4. u.ok
        <5>1. u \in GameAnswers(s)
          <6>1. \A ok \in BOOLEAN : \A k \in 0 .. Len(s.games) : Games!Says(ok, k) \in GameAnswers(s)
            BY DEF Games!Says, GameAnswers
          <6>2. a # Games!Anchor => usable[<<a, m>>] \in GameAnswers(s)
            <7>1. usable \in [GameQuestions(s) -> GameAnswers(s)]
              BY UsableIs DEF usable
            <7>2. QED
              BY <4>1, <7>1 DEF GameQuestions
          <6>3. a # Games!Anchor /\ ~(a >= m) => a \in 0 .. Len(s.games)
            <7>1. \A other \in Games!Games(s) : other \in 0 .. Len(s.games)
              BY <1>1
            <7>2. QED
              BY ONLY <4>1, <7>1
          <6> HIDE DEF u, a, g
          <6>4. QED
            BY <4>2, <6>1, <6>2, <6>3
        <5> HIDE DEF u, won
        <5>2. [u EXCEPT !.ok = @ \/ won].ok = (u.ok \/ won)
          BY <5>1 DEF GameAnswers
        <5>3. QED
          BY <2>1, <2>3, <3>4, <5>2
      <4>5. /\ g(j).claims = "unchallenged"
            /\ \/ g(j).kind = "fault" \/ a = Games!Anchor
               \/ g(a).kind # g(j).kind /\ usable[<<a, m>>].ok
               \/ g(a).status = Games!DefenderWins
        <5>1. (g(a).claims = "resolved" /\ g(a).status = Games!DefenderWins) \in BOOLEAN
          OBVIOUS
        <5> HIDE DEF u, a, g
        <5>2. QED
          BY <4>2, <4>3, <4>4, <5>1
      <4>6. GameFine(s, j)
        BY <3>1, <4>5 DEF GameFine
      <4>7. CASE parent = Games!Anchor
        BY <2>1, <2>3, <3>2, <4>6, <4>7
      <4>8. CASE parent # Games!Anchor
        <5>1. g(j).kind = "succinct" /\ parent \in Games!Games(s)
          BY <3>1, <4>8
        <5>2. a # Games!Anchor => \A b \in Back(a) : GameFine(s, b)
          <6> HAVE a # Games!Anchor
          <6>1. a \in Games!Games(s) /\ rank[a] < rank[j] /\ g(j).kind # "fault"
            BY <4>1, <5>1
          <6>2. CASE usable[<<a, m>>].ok
            <7> HIDE DEF a, g, Back
            <7>1. a \in S
              BY <1>3, <6>1
            <7>2. QED
              BY <2>3, <6>2, <7>1
          <6>3. CASE g(a).status = Games!DefenderWins
            <7> HIDE DEF a
            <7>1. Back(a) = {a}
              BY <6>1, <6>3, AncestorsAre DEF AncestorsEnd
            <7>2. QED
              BY <6>3, <7>1 DEF GameFine
          <6>4. QED
            BY <4>5, <6>1, <6>2, <6>3
        <5>3. \A b \in Back(parent) : GameFine(s, b)
          <6>1. \A b \in Back(parent) : GameFine(s, b) \/ (a # Games!Anchor /\ b \in Back(a))
            BY <5>1, AncestorPasses
          <6> HIDE DEF a, parent, Back
          <6>2. QED
            BY <5>2, <6>1
        <5>4. QED
          BY <2>1, <2>3, <3>2, <3>4, <4>6, <4>8, <5>3
      <4>9. QED
        BY <4>7, <4>8
    <3>5. QED
      BY <3>3, <3>4
  <2>4. QED
    BY <2>2, <2>3
<1>4. \A j \in Games!Games(s) : j \in S
  <2> HIDE DEF S
  <2>1. Inductive(Games!Games(s), Len(s.games), rank, S)
    BY <1>1, <1>3 DEF Inductive
  <2>2. QED
    BY <2>1, Induction
<1>5. QED
  BY <1>4 DEF usable

-----------------------------------------------------------------------------
\* The finder finds a game of the chain, or none.
LEMMA GameFound ==
    ASSUME NEW r, NEW s, GamesOK(s)
    PROVE  Games!GetLatestContext(r, s) \in Games!Games(s) \cup {Games!NoIndex}
<1> DEFINE n == Len(s.games)
           D == (0 .. n) \X (0 .. n)
           V == Games!Games(s) \cup {Games!NoIndex}
           usable == Games!UsableGames(r, s)
           says(w) == usable[<<w[1] - 1, w[2]>>]
           find == CHOOSE find : find = [w \in (0 .. n) \X (0 .. n) |->
                        IF w[1] = 0 THEN Games!NoIndex
                        ELSE IF says(w).ok THEN w[1] - 1 ELSE find[<<w[1] - 1, says(w).memo>>]]
           G == [w \in D |-> [h \in [D -> V] |->
                        IF w[1] = 0 THEN Games!NoIndex
                        ELSE IF says(w).ok THEN w[1] - 1 ELSE h[<<w[1] - 1, says(w).memo>>]]]
           rank == [w \in D |-> w[1]]
<1>1. n \in Nat /\ Games!Games(s) = 0 .. n - 1
  BY GamesDown
<1>2. Games!GetLatestContext(r, s) = find[<<n, n>>]
  BY DEF Games!GetLatestContext, Games!FindGameIndex
<1>3. \A x, y \in 0 .. n : \E w \in D : w = <<x, y>> /\ w[1] = x /\ w[2] = y
  <2> SUFFICES ASSUME NEW x \in 0 .. n, NEW y \in 0 .. n PROVE \E w \in D : w = <<x, y>> /\ w[1] = x /\ w[2] = y
    OBVIOUS
  <2>1. <<x, y>> \in D
    OBVIOUS
  <2> HIDE DEF D
  <2>2. QED
    BY <2>1
<1>4. \A w \in D : rank[w] = w[1] /\ w[1] \in 0 .. n /\ w[2] \in 0 .. n
  OBVIOUS
<1>5. rank \in [D -> 0 .. n]
  OBVIOUS
<1> HIDE DEF D, rank, n
<1>6. ASSUME NEW w \in D, w[1] # 0
      PROVE  /\ w[1] - 1 \in Games!Games(s) /\ says(w).memo \in 0 .. n
             /\ \E v \in D : v = <<w[1] - 1, says(w).memo>> /\ rank[v] < rank[w]
  <2>1. w[1] \in Nat /\ w[1] - 1 \in Nat /\ w[1] - 1 \in Games!Games(s) /\ w[1] - 1 \in 0 .. n /\ w[2] \in 0 .. n
    BY <1>1, <1>4, <1>6
  <2>2. says(w) \in GameAnswers(s)
    <3>1. usable \in [GameQuestions(s) -> GameAnswers(s)]
      BY UsableIs
    <3>2. <<w[1] - 1, w[2]>> \in GameQuestions(s)
      BY <2>1 DEF GameQuestions, n
    <3> HIDE DEF usable
    <3>3. QED
      BY <3>1, <3>2
  <2>3. says(w).memo \in 0 .. n
    BY <2>2 DEF GameAnswers, n
  <2> HIDE DEF says
  <2>4. PICK v \in D : v = <<w[1] - 1, says(w).memo>> /\ v[1] = w[1] - 1
    BY <1>3, <2>1, <2>3
  <2>5. rank[v] < rank[w]
    BY <1>4, <2>1, <2>4
  <2>6. QED
    BY <2>1, <2>3, <2>4, <2>5
<1> HIDE DEF says
<1>7. \A w \in D : \A f, h \in [D -> V] : SameBelow(D, rank, rank[w], f, h) => G[w][f] = G[w][h]
  <2> SUFFICES ASSUME NEW w \in D, NEW f \in [D -> V], NEW h \in [D -> V], SameBelow(D, rank, rank[w], f, h)
               PROVE  G[w][f] = G[w][h]
    OBVIOUS
  <2>1. w[1] # 0 => f[<<w[1] - 1, says(w).memo>>] = h[<<w[1] - 1, says(w).memo>>]
    BY <1>6 DEF SameBelow
  <2> HIDE DEF V
  <2>2. QED
    BY <2>1
<1>8. G \in [D -> [[D -> V] -> V]]
  <2> SUFFICES ASSUME NEW w \in D, NEW h \in [D -> V] PROVE G[w][h] \in V
    OBVIOUS
  <2>1. w[1] # 0 => w[1] - 1 \in V /\ h[<<w[1] - 1, says(w).memo>>] \in V
    BY <1>6
  <2>2. Games!NoIndex \in V
    OBVIOUS
  <2> HIDE DEF V
  <2>3. QED
    BY <2>1, <2>2
<1>9. PICK f \in [D -> V] : \A w \in D : f[w] = G[w][f]
  <2>1. V # {}
    OBVIOUS
  <2> HIDE DEF G, V
  <2>2. Rule(D, V, n, rank, G)
    BY <1>1, <1>5, <1>7, <1>8, <2>1 DEF Rule
  <2>3. QED
    BY <2>2, Recursion
<1>10. f = [w \in (0 .. n) \X (0 .. n) |->
                IF w[1] = 0 THEN Games!NoIndex
                ELSE IF says(w).ok THEN w[1] - 1 ELSE f[<<w[1] - 1, says(w).memo>>]]
  <2>1. f = [w \in D |-> IF w[1] = 0 THEN Games!NoIndex
                ELSE IF says(w).ok THEN w[1] - 1 ELSE f[<<w[1] - 1, says(w).memo>>]]
    <3> HIDE DEF V
    <3>1. QED
      BY <1>9
  <2>2. QED
    BY <2>1 DEF D
<1>11. find = [w \in (0 .. n) \X (0 .. n) |->
                IF w[1] = 0 THEN Games!NoIndex
                ELSE IF says(w).ok THEN w[1] - 1 ELSE find[<<w[1] - 1, says(w).memo>>]]
  BY <1>10
<1> HIDE DEF find
<1>12. \A w \in D : find[w] = IF w[1] = 0 THEN Games!NoIndex
                ELSE IF says(w).ok THEN w[1] - 1 ELSE find[<<w[1] - 1, says(w).memo>>]
  BY <1>11 DEF D
<1> DEFINE S == {w \in D : find[w] \in V}
<1>13. ASSUME NEW w \in D, \A v \in D : rank[v] < rank[w] => v \in S PROVE w \in S
  <2>1. w[1] # 0 => w[1] - 1 \in V /\ find[<<w[1] - 1, says(w).memo>>] \in V
    BY <1>6, <1>13
  <2>2. Games!NoIndex \in V
    OBVIOUS
  <2> HIDE DEF V
  <2>3. QED
    BY <1>12, <2>1, <2>2
<1>14. \A w \in D : w \in S
  <2> HIDE DEF S
  <2>1. Inductive(D, n, rank, S)
    BY <1>1, <1>5, <1>13 DEF Inductive
  <2>2. QED
    BY <2>1, Induction
<1>15. QED
  <2>1. PICK w \in D : w = <<n, n>>
    BY <1>1, <1>3
  <2>2. QED
    BY <1>2, <1>14, <2>1

\* Accepted is a game of that root that stands now, made at most the window
\* before the one asked about.
LEMMA GamesAccepts ==
    ASSUME NEW r, r.window \in Nat, r.minAge \in Nat,
           NEW a, GamesOK(a), NEW s, GamesOK(s), GamesKept(a, s),
           NEW c, c = Games!GetLatestContext(r, a), c # Games!NoIndex, NEW p,
           Games!GetStorageValues(r, s, c, p) = "ok"
    PROVE  Games!Promised(r, a, s, c, p) /\ Games!Recent(r, a, s, c, p)
<1> DEFINE i == p.index
           g(j) == Games!GameOf(s, j)
           time(j) == Games!GameTime(r, g(j))
           window == IF i = c THEN "ok" ELSE Games!CheckWindow(r, time(c), time(i))
<1>1. c \in Games!Games(s)
  BY GameFound DEF GamesKept
<1>2. Games!GetStorageValues(r, s, c, p) =
        CASE i \notin Games!Games(s) -> "no such game"
          [] i \in Games!Games(s) /\ ~Games!IsGameUsable(r, s, i) -> "invalid game"
          [] OTHER -> IF window = "ok" /\ g(i).root # p.root THEN "rootClaim" ELSE window
  BY DEF Games!GetStorageValues
<1> HIDE DEF window
<1>3. i \in Games!Games(s) /\ Games!IsGameUsable(r, s, i) /\ window = "ok" /\ g(i).root = p.root
  BY <1>2
<1>4. \A j \in Games!Games(s) : j \in 0 .. Len(s.games) /\ time(j) \in Nat /\ g(j).created \in Nat
  <2>1. Games!Games(s) \subseteq 0 .. Len(s.games)
    <3>1. Len(s.games) \in Nat /\ Games!Games(s) = 0 .. Len(s.games) - 1
      BY GamesDown
    <3>2. QED
      BY <3>1
  <2>2. QED
    BY <2>1 DEF GamesOK, GameGood, Games!GameTime
<1>5. Games!UsableGames(r, s)[<<i, i>>].ok
  BY <1>3 DEF Games!IsGameUsable
<1>6. /\ Games!Considered(r, s, g(i))
      /\ r.minAge = 0 => g(i).status = Games!DefenderWins
      /\ r.minAge # 0 => \A b \in Games!Ancestors(s, i) : GameFine(s, b)
  <2> HIDE DEF i
  <2>1. GamesOK(s) /\ i \in Games!Games(s) /\ i \in 0 .. Len(s.games) /\ Games!UsableGames(r, s)[<<i, i>>].ok
    BY <1>3, <1>4, <1>5
  <2>2. QED
    BY ONLY <2>1, UsableStands
<1>7. Games!Standing(r, s, i)
  <2>1. g(i).proper /\ (r.minAge > 0 => g(i).created <= s.now - r.minAge)
    BY <1>6 DEF Games!Considered
  <2>2. r.minAge # 0 => g(i).created + r.minAge <= s.now
    <3>1. s.now \in Nat /\ g(i).created \in Nat
      BY <1>3, <1>4 DEF GamesOK, GamesTyped
    <3> HIDE DEF g
    <3>2. QED
      BY <2>1, <3>1
  <2>3. QED
    BY <1>6, <2>1, <2>2 DEF Games!Standing, GameFine
<1>8. Games!Promised(r, a, s, c, p)
  BY <1>3, <1>7 DEF Games!Promised
<1>9. time(i) + r.window >= time(c)
  <2>1. time(i) \in Nat /\ time(c) \in Nat
    BY <1>1, <1>3, <1>4
  <2>2. CASE i = c
    BY <2>1, <2>2
  <2>3. CASE i # c
    <3>1. Games!CheckWindow(r, time(c), time(i)) = "ok"
      BY <1>3, <2>3 DEF window
    <3> HIDE DEF time
    <3>2. QED
      BY <2>1, <3>1 DEF Games!CheckWindow
  <2>4. QED
    BY <2>2, <2>3
<1>10. Games!Recent(r, a, s, c, p)
  BY <1>9 DEF Games!Recent
<1>11. QED
  BY <1>8, <1>10

-----------------------------------------------------------------------------
\* Time goes on for the gateway that signs.
LEMMA TrustedTick ==
    ASSUME NEW s, s = [now |-> s.now], s.now \in Nat, NEW t, t = [s EXCEPT !.now = @ + 1]
    PROVE  t = [now |-> t.now] /\ t.now \in Nat
<1>1. t = [now |-> s.now + 1]
  OBVIOUS
<1>2. QED
  BY <1>1

\* Only the present is needed of the chain nobody checks.
UncheckedOK(s) == s = [now |-> s.now, times |-> s.times] /\ s.now \in Nat

\* Time keeps it.
LEMMA UncheckedTick ==
    ASSUME NEW s, UncheckedOK(s), NEW t, t = [s EXCEPT !.now = @ + 1]
    PROVE  UncheckedOK(t)
<1>1. t = [now |-> s.now + 1, times |-> s.times]
  BY DEF UncheckedOK
<1>2. QED
  BY <1>1 DEF UncheckedOK

\* And so does a block.
LEMMA UncheckedStep ==
    ASSUME NEW r, NEW s, UncheckedOK(s), NEW t \in Unchecked!Moves(r, s)
    PROVE  UncheckedOK(t)
<1>1. t = [s EXCEPT !.times = Append(@, s.now)]
  BY DEF Unchecked!Moves
<1>2. t = [now |-> s.now, times |-> Append(s.times, s.now)]
  BY <1>1 DEF UncheckedOK
<1>3. QED
  BY <1>2 DEF UncheckedOK

\* What two stretches of time keep, both together keep.
LEMMA InteractiveOn ==
    ASSUME NEW a, InteractiveOK(a), NEW s, InteractiveOK(s), NEW t, InteractiveOK(t),
           InteractiveKept(a, s), InteractiveKept(s, t)
    PROVE  InteractiveKept(a, t)
<1>1. a.latest \in Nat /\ s.latest \in Nat /\ t.latest \in Nat
  BY DEF InteractiveOK
<1>2. QED
  BY <1>1 DEF InteractiveKept

\* The chain of Linea has these fields.
LineaShape(s) == s = [now |-> s.now, finals |-> s.finals, ready |-> s.ready]

\* Time finalizes nothing.
LEMMA LineaTick ==
    ASSUME NEW s, LineaOK(s), LineaShape(s), NEW t, t = [s EXCEPT !.now = @ + 1]
    PROVE  LineaOK(t) /\ LineaShape(t) /\ LineaKept(s, t)
<1>1. t = [now |-> s.now + 1, finals |-> s.finals, ready |-> s.ready]
  BY DEF LineaShape
<1>2. t.finals = s.finals /\ LineaShape(t)
  BY <1>1 DEF LineaShape
<1>3. Len(s.finals) \in Nat
  BY InSeq DEF LineaOK
<1>4. QED
  BY <1>2, <1>3 DEF LineaOK, LineaKept

\* What two stretches of time keep, both together keep.
LEMMA LineaOn ==
    ASSUME NEW a, LineaOK(a), NEW s, LineaOK(s), NEW t, LineaOK(t), LineaKept(a, s), LineaKept(s, t)
    PROVE  LineaKept(a, t)
<1>1. /\ Len(a.finals) \in Nat /\ DOMAIN a.finals = 1 .. Len(a.finals)
      /\ Len(s.finals) \in Nat /\ DOMAIN s.finals = 1 .. Len(s.finals)
      /\ Len(t.finals) \in Nat
  BY InSeq DEF LineaOK
<1>2. Len(a.finals) <= Len(t.finals) /\ DOMAIN a.finals \subseteq DOMAIN s.finals
  BY <1>1 DEF LineaKept
<1>3. QED
  BY <1>2 DEF LineaKept

\* Time submits nothing.
LEMMA ShnarfsTick ==
    ASSUME NEW s, ShnarfsOK(s), NEW t, t = [s EXCEPT !.now = @ + 1]
    PROVE  ShnarfsOK(t)
<1>1. t = [now |-> s.now + 1, submitted |-> s.submitted, finals |-> s.finals]
  BY DEF ShnarfsOK
<1>2. t.now = s.now + 1 /\ t.submitted = s.submitted /\ t.finals = s.finals
      /\ t = [now |-> t.now, submitted |-> t.submitted, finals |-> t.finals]
  BY <1>1
<1>3. QED
  BY <1>2 DEF ShnarfsOK

\* Time commits and finalizes no batch.
LEMMA BatchesTick ==
    ASSUME NEW s, BatchesOK(s), NEW t, t = [s EXCEPT !.now = @ + 1]
    PROVE  BatchesOK(t)
<1>1. t = [now |-> s.now + 1, commits |-> s.commits, finals |-> s.finals]
  BY DEF BatchesOK
<1>2. t.now = s.now + 1 /\ t.commits = s.commits /\ t.finals = s.finals
      /\ t = [now |-> t.now, commits |-> t.commits, finals |-> t.finals]
  BY <1>1
<1>3. QED
  BY <1>2 DEF BatchesOK

\* Time proves nothing.
LEMMA TaikoTick ==
    ASSUME NEW r, NEW s, TaikoOK(r, s), NEW t, t = [s EXCEPT !.now = @ + 1]
    PROVE  TaikoOK(r, t) /\ TaikoKept(r, s, t)
<1>1. t = [now |-> s.now + 1, proved |-> s.proved, verified |-> s.verified,
           synced |-> s.synced, written |-> s.written]
  BY DEF TaikoOK
<1>2. /\ t.now = s.now + 1 /\ t.proved = s.proved /\ t.verified = s.verified /\ t.synced = s.synced
      /\ t = [now |-> t.now, proved |-> t.proved, verified |-> t.verified,
              synced |-> t.synced, written |-> t.written]
  BY <1>1
<1>3. s.now \in Nat \ {0} /\ s.now + 1 \in Nat \ {0}
  BY DEF TaikoOK
<1>4. QED
  BY <1>2, <1>3 DEF TaikoOK, TaikoKept

\* What two stretches of time keep, both together keep.
LEMMA TaikoOn ==
    ASSUME NEW r, NEW a, NEW s, NEW t, TaikoKept(r, a, s), TaikoKept(r, s, t)
    PROVE  TaikoKept(r, a, t)
  BY DEF TaikoKept

\* Time submits no header.
LEMMA CheckpointTick ==
    ASSUME NEW s, CheckpointOK(s), NEW t, t = [s EXCEPT !.now = @ + 1]
    PROVE  CheckpointOK(t) /\ CheckpointKept(s, t)
<1>1. t = [now |-> s.now + 1, tip |-> s.tip, posts |-> s.posts, headers |-> s.headers]
  BY DEF CheckpointOK
<1>2. /\ t.now = s.now + 1 /\ t.tip = s.tip /\ t.posts = s.posts /\ t.headers = s.headers
      /\ t = [now |-> t.now, tip |-> t.tip, posts |-> t.posts, headers |-> t.headers]
  BY <1>1
<1>3. Checkpoint!LastChildBlock(t) = Checkpoint!LastChildBlock(s)
  BY <1>2 DEF Checkpoint!LastChildBlock, Checkpoint!Header, Checkpoint!CurrentHeaderBlock
<1>4. /\ s.now \in Nat /\ Len(s.headers) \in Nat
      /\ \A k \in DOMAIN s.headers : s.headers[k].at \in Nat
  <2> DEFINE S == [start : Nat, end : Nat, at : Nat]
  <2>1. s.headers \in Seq(S) /\ s.now \in Nat
    BY DEF CheckpointOK
  <2>2. \A h \in S : h.at \in Nat
    OBVIOUS
  <2> HIDE DEF S
  <2>3. QED
    BY <2>1, <2>2, InSeq
<1>5. \A k \in DOMAIN t.headers : t.headers[k].at <= t.now
  BY <1>2, <1>4 DEF CheckpointOK
<1>6. CheckpointKept(s, t)
  BY ONLY <1>2, <1>3, <1>4 DEF CheckpointKept
<1>7. /\ t.now \in Nat /\ t.tip \in Nat /\ t.posts \subseteq Nat
      /\ t.headers \in Seq([start : Nat, end : Nat, at : Nat])
  BY <1>2 DEF CheckpointOK
<1>8. \A k \in DOMAIN t.headers : t.headers[k].end <= Checkpoint!LastChildBlock(t)
  BY <1>2, <1>3 DEF CheckpointOK
<1>9. QED
  BY ONLY <1>2, <1>5, <1>6, <1>7, <1>8 DEF CheckpointOK

\* What two stretches of time keep, both together keep.
LEMMA CheckpointOn ==
    ASSUME NEW a, CheckpointOK(a), NEW s, CheckpointOK(s), NEW t, CheckpointOK(t),
           CheckpointKept(a, s), CheckpointKept(s, t)
    PROVE  CheckpointKept(a, t)
<1>1. /\ Len(a.headers) \in Nat /\ DOMAIN a.headers = 1 .. Len(a.headers)
      /\ Len(s.headers) \in Nat /\ DOMAIN s.headers = 1 .. Len(s.headers)
      /\ Len(t.headers) \in Nat
  BY InSeq DEF CheckpointOK
<1>2. Len(a.headers) <= Len(t.headers) /\ DOMAIN a.headers \subseteq DOMAIN s.headers
  BY <1>1 DEF CheckpointKept
<1>3. QED
  BY <1>2 DEF CheckpointKept

\* Time updates no state.
LEMMA UpdatesTick ==
    ASSUME NEW s, UpdatesOK(s), NEW t, t = [s EXCEPT !.now = @ + 1]
    PROVE  UpdatesOK(t)
<1>1. t = [now |-> s.now + 1, updates |-> s.updates]
  BY DEF UpdatesOK
<1>2. t.now = s.now + 1 /\ t.updates = s.updates /\ t = [now |-> t.now, updates |-> t.updates]
  BY <1>1
<1>3. QED
  BY <1>2 DEF UpdatesOK

-----------------------------------------------------------------------------
(* Rollups.tla: what holds of the chain, and what of it stays, whatever    *)
(* rollup is read.                                                         *)

\* What always holds of a chain, by the rollup it is of.
ChainOK(r, s) ==
    /\ r.rollup = "outputs" => OutputsOK(s)
    /\ r.rollup = "games" => GamesOK(s)
    /\ r.rollup = "reverse" => s = [l2 |-> s.l2] /\ ReverseOK(s)
    /\ r.rollup = "nitro" => NitroOK(s)
    /\ r.rollup = "double" => DoubleOK(r, s)
    /\ r.rollup = "bold" => BoldOK(s)
    /\ r.rollup \in {"trusted", "self"} => s = [now |-> s.now] /\ s.now \in Nat
    /\ r.rollup = "unchecked" => UncheckedOK(s)
    /\ r.rollup = "interactive" => InteractiveOK(s)
    /\ r.rollup = "linea" => LineaOK(s) /\ LineaShape(s)
    /\ r.rollup = "shnarfs" => ShnarfsOK(s)
    /\ r.rollup = "batches" => BatchesOK(s)
    /\ r.rollup = "taiko" => TaikoOK(r, s)
    /\ r.rollup = "checkpoints" => CheckpointOK(s)
    /\ r.rollup = "updates" => UpdatesOK(s)

\* What s keeps of a, a chain that it came of.
ChainKept(r, a, s) ==
    /\ r.rollup = "outputs" => OutputsKept(r, a, s)
    /\ r.rollup = "games" => GamesKept(a, s)
    /\ r.rollup = "nitro" => NitroKept(a, s)
    /\ r.rollup = "double" => DoubleKept(a, s)
    /\ r.rollup = "interactive" => InteractiveKept(a, s)
    /\ r.rollup = "linea" => LineaKept(a, s)
    /\ r.rollup = "taiko" => TaikoKept(r, a, s)
    /\ r.rollup = "checkpoints" => CheckpointKept(a, s)

\* What the gateway remembers, where it signs what it serves.
MemoryOK(r, m) ==
    r.rollup = "trusted" =>
        m = [latest |-> m.latest, count |-> m.count, signed |-> m.signed] /\ SignedOK(m)

\* A chain starts well, and the gateway remembers nothing.
LEMMA ChainStart ==
    ASSUME NEW r, IsSetting(r)
    PROVE  ChainOK(r, Start(r)) /\ MemoryOK(r, NoMemory(r))
<1>0. r.window \in Nat /\ r.max \in Nat
  BY DEF IsSetting
<1>1. CASE r.rollup = "outputs"
  <2>1. Start(r) = Outputs!Start(r) /\ r.finalization \in Nat
    BY <1>1 DEF Start, IsSetting
  <2>2. OutputsOK(Outputs!Start(r))
    BY <2>1 DEF OutputsOK, Outputs!Start
  <2>3. QED
    BY <1>1, <2>1, <2>2 DEF ChainOK, MemoryOK
<1>2. CASE r.rollup = "games"
  <2>1. Start(r) = Games!Start(r) /\ r.clock \in Nat
    BY <1>2 DEF Start, IsSetting
  <2>2. GamesOK(Games!Start(r))
    BY <2>1 DEF GamesOK, GamesTyped, Games!Start, Games!Games, Games!Anchor
  <2>3. QED
    BY <1>2, <2>1, <2>2 DEF ChainOK, MemoryOK
<1>3. CASE r.rollup = "reverse"
  <2>1. Start(r) = Reverse!Start(r)
    BY <1>3 DEF Start
  <2>2. Reverse!Start(r).l2 = <<1>> /\ Reverse!Start(r) = [l2 |-> Reverse!Start(r).l2]
    BY DEF Reverse!Start
  <2>3. ReverseOK(Reverse!Start(r))
    BY <2>2 DEF ReverseOK
  <2>4. QED
    BY <1>3, <2>1, <2>2, <2>3 DEF ChainOK, MemoryOK
<1>4. ASSUME r.rollup \in {"nitro", "double"} PROVE NitroOK(Nitro!Start(r)) /\ Len(Nitro!Start(r).nodes) = 1
  <2> DEFINE node == [prev |-> 0, made |-> 1, staked |-> FALSE, state |-> "confirmed"]
             s == Nitro!Start(r)
  <2>1. r.start \in Nat /\ 1 <= r.start
    BY <1>4 DEF IsSetting
  <2>2. node \in NitroNode
    BY DEF NitroNode
  <2>3. s.now = r.start /\ s.confirmed = 0 /\ s.nodes = <<node>> /\ s = [now |-> s.now, confirmed |-> s.confirmed, nodes |-> s.nodes]
    BY DEF Nitro!Start
  <2> HIDE DEF s
  <2>4. Len(s.nodes) = 1 /\ s.nodes[1] = node
    BY <2>3
  <2>5. s.nodes \in Seq(NitroNode)
    <3> HIDE DEF node
    <3>1. QED
      BY <2>2, <2>3
  <2>6. Nitro!Nodes(s) = {0} /\ Nitro!NodeAt(s, 0) = node
    BY <2>4 DEF Nitro!Nodes, Nitro!NodeAt
  <2>7. NitroTyped(s)
    BY <2>1, <2>3, <2>5 DEF NitroTyped
  <2>8. QED
    <3>1. NitroOK(s) /\ Len(s.nodes) = 1
      BY <2>1, <2>3, <2>4, <2>6, <2>7 DEF NitroOK
    <3>2. QED
      BY <3>1 DEF s
<1>5. CASE r.rollup = "nitro"
  <2>1. Start(r) = Nitro!Start(r)
    BY <1>5 DEF Start
  <2>2. QED
    BY <1>4, <1>5, <2>1 DEF ChainOK, MemoryOK
<1>6. CASE r.rollup = "double"
  <2> DEFINE s == Double!Start(r)
             n == Nitro!Start(r)
  <2>1. Start(r) = s
    BY <1>6 DEF Start
  <2>2. NitroOK(n) /\ Len(n.nodes) = 1
    BY <1>4, <1>6
  <2>3. s = [one |-> Double!Nitro!Start(r), two |-> Double!Nitro!Start(r), seen |-> <<0>>]
    BY DEF Double!Start
  <2>4. Double!Nitro!Start(r) = n
    BY DEF Double!Nitro!Start, Nitro!Start
  <2>5. s.one = n /\ s.two = n /\ s.seen = <<0>> /\ s = [one |-> s.one, two |-> s.two, seen |-> s.seen]
    BY <2>3, <2>4
  <2> HIDE DEF s, n
  <2>6. Len(s.seen) = 1 /\ DOMAIN s.seen = {1} /\ s.seen[1] = 0 /\ s.seen \in Seq(Int)
    BY <2>5
  <2>7. 0 \in Nitro!Nodes(n) /\ Nitro!NodeAt(n, 0).state = "confirmed"
    BY DEF n, Nitro!Start, Nitro!Nodes, Nitro!NodeAt
  <2>8. DoubleOK(r, s)
    <3>1. Len(s.two.nodes) = 1 /\ Len(s.one.nodes) = 1 /\ Len(s.seen) = 1 /\ NitroOK(s.one) /\ NitroOK(s.two)
      BY <2>2, <2>5, <2>6
    <3>2. ASSUME NEW k \in DOMAIN s.seen
          PROVE  /\ s.seen[k] < Len(s.two.nodes)
                 /\ s.seen[k] \in Nitro!Nodes(s.two) /\ Nitro!NodeAt(s.two, s.seen[k]).state = "confirmed"
      <4>1. s.seen[k] = 0
        BY <2>6
      <4>2. QED
        BY <2>5, <2>7, <3>1, <4>1
    <3>3. DoubleTyped(s)
      BY <2>5, <2>6 DEF DoubleTyped
    <3>4. QED
      BY <3>1, <3>2, <3>3 DEF DoubleOK
  <2>9. QED
    BY <1>6, <2>1, <2>8 DEF ChainOK, MemoryOK
<1>7. CASE r.rollup = "bold"
  <2>1. Start(r) = BoLD!Start(r) /\ r.start \in Nat /\ 1 <= r.start
    BY <1>7 DEF Start, IsSetting
  <2> DEFINE s == BoLD!Start(r)
  <2>2. BoldOK(s)
    <3> DEFINE node == [parent |-> 0, made |-> 1, status |-> "confirmed", rivalled |-> FALSE, finished |-> TRUE]
               made == BoLD!Event("created", 1, 1)
               settled == BoLD!Event("confirmed", 1, 1)
    <3>1. /\ s.now = r.start /\ s.confirmed = 1 /\ s.nodes = <<node>> /\ s.log = <<made, settled>>
          /\ s = [now |-> s.now, confirmed |-> s.confirmed, nodes |-> s.nodes, log |-> s.log]
      BY DEF BoLD!Start
    <3>2. node \in BoldNode /\ made \in BoldEvent /\ settled \in BoldEvent
      BY DEF BoldNode, BoldEvent, BoLD!Event
    <3>3. node.parent = 0 /\ node.made = 1 /\ settled.name = "confirmed" /\ settled.hash = 1 /\ settled.block = 1
      BY DEF BoLD!Event
    <3> HIDE DEF s, node, made, settled
    <3>4. /\ DOMAIN s.nodes = {1} /\ s.nodes[1] = node /\ s.nodes \in Seq(BoldNode)
          /\ 2 \in DOMAIN s.log /\ s.log[2] = settled /\ s.log \in Seq(BoldEvent)
      BY <3>1, <3>2
    <3>5. BoldTyped(s)
      BY <2>1, <3>1, <3>4 DEF BoldTyped
    <3>6. 1 \in BoLD!ConfirmedBy(s, s.now)
      BY <2>1, <3>1, <3>3, <3>4 DEF BoLD!ConfirmedBy
    <3>7. QED
      BY <3>1, <3>3, <3>4, <3>5, <3>6 DEF BoldOK
  <2>3. QED
    BY <1>7, <2>1, <2>2 DEF ChainOK, MemoryOK
<1>8. CASE r.rollup \in {"trusted", "self"}
  <2>1. r.rollup = "trusted" => Start(r) = Trusted!Start(r) /\ NoMemory(r) = Trusted!NoMemory
    BY DEF Start, NoMemory
  <2>2. r.rollup = "self" => Start(r) = Self!Start(r)
    BY DEF Start
  <2>3. QED
    BY <1>0, <1>8, <2>1, <2>2 DEF ChainOK, MemoryOK, SignedOK, Trusted!Start, Trusted!NoMemory, Self!Start
<1>9. CASE r.rollup = "unchecked"
  <2>1. Start(r) = Unchecked!Start(r)
    BY <1>9 DEF Start
  <2>2. QED
    BY <1>9, <2>1 DEF ChainOK, MemoryOK, UncheckedOK, Unchecked!Start
<1>10. CASE r.rollup = "interactive"
  <2>1. Start(r) = Interactive!Start(r)
    BY <1>10 DEF Start
  <2>2. QED
    BY <1>10, <2>1 DEF ChainOK, MemoryOK, InteractiveOK, Interactive!Start
<1>11. CASE r.rollup = "linea"
  <2>1. Start(r) = Linea!Start(r)
    BY <1>11 DEF Start
  <2>2. QED
    BY <1>11, <2>1 DEF ChainOK, MemoryOK, LineaOK, LineaShape, Linea!Start
<1>12. CASE r.rollup = "shnarfs"
  <2>1. Start(r) = Shnarfs!Start(r) /\ r.minAge \in Nat
    BY <1>12 DEF Start, IsSetting
  <2>2. QED
    BY <1>12, <2>1 DEF ChainOK, MemoryOK, ShnarfsOK, Shnarfs!Start
<1>13. CASE r.rollup = "batches"
  <2>1. Start(r) = Batches!Start(r)
    BY <1>13 DEF Start
  <2>2. QED
    BY <1>13, <2>1 DEF ChainOK, MemoryOK, BatchesOK, Batches!Start
<1>14. CASE r.rollup = "taiko"
  <2>1. Start(r) = Taiko!Start(r)
    BY <1>14 DEF Start
  <2>2. QED
    BY <1>0, <1>14, <2>1 DEF ChainOK, MemoryOK, TaikoOK, Taiko!Start
<1>15. CASE r.rollup = "checkpoints"
  <2>1. Start(r) = Checkpoint!Start(r)
    BY <1>15 DEF Start
  <2>2. QED
    BY <1>15, <2>1 DEF ChainOK, MemoryOK, CheckpointOK, Checkpoint!Start
<1>16. CASE r.rollup = "updates"
  <2>1. Start(r) = Updates!Start(r)
    BY <1>16 DEF Start
  <2>2. QED
    BY <1>16, <2>1 DEF ChainOK, MemoryOK, UpdatesOK, Updates!Start
<1>17. QED
  BY <1>1, <1>2, <1>3, <1>5, <1>6, <1>7, <1>8, <1>9, <1>10, <1>11, <1>12, <1>13, <1>14, <1>15, <1>16 DEF IsSetting

-----------------------------------------------------------------------------
\* A move of the chain.
LEMMA ChainMoves ==
    ASSUME NEW r, IsSetting(r), NEW s, ChainOK(r, s), NEW t \in Moves(r, s)
    PROVE  ChainOK(r, t) /\ ChainKept(r, s, t)
<1>0. r.window \in Nat /\ r.max \in Nat
  BY DEF IsSetting
<1>1. CASE r.rollup = "outputs"
  <2>1. t \in Outputs!Moves(r, s)
    BY <1>1 DEF Moves
  <2>2. OutputsOK(s)
    BY <1>1 DEF ChainOK
  <2>3. r.finalization \in Nat
    BY <1>0, <1>1 DEF IsSetting
  <2>4. OutputsOK(t) /\ OutputsKept(r, s, t)
    BY ONLY <1>0, <2>1, <2>2, <2>3, OutputsStep
  <2>5. QED
    BY <1>1, <2>4 DEF ChainOK, ChainKept
<1>2. CASE r.rollup = "games"
  <2>1. t \in Games!Moves(r, s)
    BY <1>2 DEF Moves
  <2>2. GamesOK(s)
    BY <1>2 DEF ChainOK
  <2>3. r.max \in 0 .. Games!Anchor /\ \A k \in r.creations : k.type \in {"fault", "succinct"}
    BY <1>0, <1>2 DEF IsSetting, Games!Anchor
  <2>4. GamesOK(t) /\ GamesKept(s, t)
    BY ONLY <1>0, <2>1, <2>2, <2>3, GamesStep
  <2>5. QED
    BY <1>2, <2>4 DEF ChainOK, ChainKept
<1>3. CASE r.rollup = "reverse"
  <2>1. t \in Reverse!Moves(r, s)
    BY <1>3 DEF Moves
  <2>2. s = [l2 |-> s.l2] /\ ReverseOK(s)
    BY <1>3 DEF ChainOK
  <2>3. PICK number : t = [s EXCEPT !.l2 = Append(@, number)]
    BY <2>1 DEF Reverse!Moves
  <2>4. t = [l2 |-> Append(s.l2, number)]
    BY <2>2, <2>3
  <2>5. t = [l2 |-> t.l2] /\ ReverseOK(t)
    BY <2>1, <2>2, <2>4, ReverseStep
  <2>6. QED
    BY <1>3, <2>5 DEF ChainOK, ChainKept
<1>4. CASE r.rollup = "nitro"
  <2>1. t \in Nitro!Moves(r, s)
    BY <1>4 DEF Moves
  <2>2. NitroOK(s)
    BY <1>4 DEF ChainOK
  <2>3. r.confirmation \in Nat
    BY <1>0, <1>4 DEF IsSetting
  <2>4. NitroOK(t) /\ NitroKept(s, t)
    BY ONLY <1>0, <2>1, <2>2, <2>3, NitroStep
  <2>5. QED
    BY <1>4, <2>4 DEF ChainOK, ChainKept
<1>5. CASE r.rollup = "double"
  <2>1. t \in Double!Moves(r, s)
    BY <1>5 DEF Moves
  <2>2. DoubleOK(r, s)
    BY <1>5 DEF ChainOK
  <2>3. r.confirmation \in Nat
    BY <1>0, <1>5 DEF IsSetting
  <2>4. DoubleOK(r, t) /\ DoubleKept(s, t)
    BY ONLY <1>0, <2>1, <2>2, <2>3, DoubleStep
  <2>5. QED
    BY <1>5, <2>4 DEF ChainOK, ChainKept
<1>6. CASE r.rollup = "bold"
  <2>1. t \in BoLD!Moves(r, s)
    BY <1>6 DEF Moves
  <2>2. BoldOK(s)
    BY <1>6 DEF ChainOK
  <2>3. r.finishes \subseteq BOOLEAN
    BY <1>0, <1>6 DEF IsSetting
  <2>4. BoldOK(t)
    BY ONLY <1>0, <2>1, <2>2, <2>3, BoldStep
  <2>5. QED
    BY <1>6, <2>4 DEF ChainOK, ChainKept
<1>7. CASE r.rollup = "trusted"
  <2>1. t \in Trusted!Moves(r, s)
    BY <1>7 DEF Moves
  <2>2. QED
    BY <2>1 DEF Trusted!Moves
<1>8. CASE r.rollup = "unchecked"
  <2>1. t \in Unchecked!Moves(r, s)
    BY <1>8 DEF Moves
  <2>2. UncheckedOK(s)
    BY <1>8 DEF ChainOK
  <2>4. UncheckedOK(t)
    BY ONLY <1>0, <2>1, <2>2, UncheckedStep
  <2>5. QED
    BY <1>8, <2>4 DEF ChainOK, ChainKept
<1>9. CASE r.rollup = "interactive"
  <2>1. t \in Interactive!Moves(r, s)
    BY <1>9 DEF Moves
  <2>2. InteractiveOK(s)
    BY <1>9 DEF ChainOK
  <2>4. InteractiveOK(t) /\ InteractiveKept(s, t)
    BY ONLY <1>0, <2>1, <2>2, InteractiveStep
  <2>5. QED
    BY <1>9, <2>4 DEF ChainOK, ChainKept
<1>10. CASE r.rollup = "self"
  <2>1. t \in Self!Moves(r, s)
    BY <1>10 DEF Moves
  <2>2. QED
    BY <2>1 DEF Self!Moves
<1>11. CASE r.rollup = "linea"
  <2>1. t \in Linea!Moves(r, s)
    BY <1>11 DEF Moves
  <2>2. LineaOK(s) /\ LineaShape(s)
    BY <1>11 DEF ChainOK
  <2>4. LineaOK(t) /\ LineaShape(t) /\ LineaKept(s, t)
    BY ONLY <1>0, <2>1, <2>2, LineaStep DEF LineaShape
  <2>5. QED
    BY <1>11, <2>4 DEF ChainOK, ChainKept
<1>12. CASE r.rollup = "shnarfs"
  <2>1. t \in Shnarfs!Moves(r, s)
    BY <1>12 DEF Moves
  <2>2. ShnarfsOK(s)
    BY <1>12 DEF ChainOK
  <2>4. ShnarfsOK(t)
    BY ONLY <1>0, <2>1, <2>2, ShnarfsStep
  <2>5. QED
    BY <1>12, <2>4 DEF ChainOK, ChainKept
<1>13. CASE r.rollup = "batches"
  <2>1. t \in Batches!Moves(r, s)
    BY <1>13 DEF Moves
  <2>2. BatchesOK(s)
    BY <1>13 DEF ChainOK
  <2>3. r.blobs \in Nat
    BY <1>0, <1>13 DEF IsSetting
  <2>4. BatchesOK(t)
    BY ONLY <1>0, <2>1, <2>2, <2>3, BatchesStep
  <2>5. QED
    BY <1>13, <2>4 DEF ChainOK, ChainKept
<1>14. CASE r.rollup = "taiko"
  <2>1. t \in Taiko!Moves(r, s)
    BY <1>14 DEF Moves
  <2>2. TaikoOK(r, s)
    BY <1>14 DEF ChainOK
  <2>4. TaikoOK(r, t) /\ TaikoKept(r, s, t)
    BY ONLY <1>0, <2>1, <2>2, TaikoStep
  <2>5. QED
    BY <1>14, <2>4 DEF ChainOK, ChainKept
<1>15. CASE r.rollup = "checkpoints"
  <2>1. t \in Checkpoint!Moves(r, s)
    BY <1>15 DEF Moves
  <2>2. CheckpointOK(s)
    BY <1>15 DEF ChainOK
  <2>3. r.deployed \in Nat
    BY <1>0, <1>15 DEF IsSetting
  <2>4. CheckpointOK(t) /\ CheckpointKept(s, t)
    BY ONLY <1>0, <2>1, <2>2, <2>3, CheckpointStep
  <2>5. QED
    BY <1>15, <2>4 DEF ChainOK, ChainKept
<1>16. CASE r.rollup = "updates"
  <2>1. t \in Updates!Moves(r, s)
    BY <1>16 DEF Moves
  <2>2. UpdatesOK(s)
    BY <1>16 DEF ChainOK
  <2>4. UpdatesOK(t)
    BY ONLY <1>0, <2>1, <2>2, UpdatesStep
  <2>5. QED
    BY <1>16, <2>4 DEF ChainOK, ChainKept
<1>17. QED
  BY <1>1, <1>2, <1>3, <1>4, <1>5, <1>6, <1>7, <1>8, <1>9, <1>10, <1>11, <1>12, <1>13, <1>14, <1>15, <1>16 DEF IsSetting

\* Time passes.
LEMMA ChainTicks ==
    ASSUME NEW r, IsSetting(r), NEW s, ChainOK(r, s), "now" \in DOMAIN s, NEW t, t = [s EXCEPT !.now = @ + 1]
    PROVE  ChainOK(r, t) /\ ChainKept(r, s, t)
<1>1. CASE r.rollup = "outputs"
  <2>1. OutputsOK(s) /\ r.finalization \in Nat
    BY <1>1 DEF ChainOK, IsSetting
  <2>2. OutputsOK(t) /\ OutputsKept(r, s, t)
    BY ONLY <2>1, t = [s EXCEPT !.now = @ + 1], OutputsTick
  <2>3. QED
    BY <1>1, <2>2 DEF ChainOK, ChainKept
<1>2. CASE r.rollup = "games"
  <2>1. GamesOK(s)
    BY <1>2 DEF ChainOK
  <2>2. GamesOK(t) /\ GamesKept(s, t)
    BY ONLY <2>1, t = [s EXCEPT !.now = @ + 1], GamesTick
  <2>3. QED
    BY <1>2, <2>2 DEF ChainOK, ChainKept
<1>3. CASE r.rollup = "reverse"
  <2>1. s = [l2 |-> s.l2]
    BY <1>3 DEF ChainOK
  <2>2. QED
    BY ONLY "now" \in DOMAIN s, <2>1
<1>4. CASE r.rollup = "nitro"
  <2>1. NitroOK(s)
    BY <1>4 DEF ChainOK
  <2>2. NitroOK(t) /\ NitroKept(s, t)
    BY ONLY <2>1, t = [s EXCEPT !.now = @ + 1], NitroTick
  <2>3. QED
    BY <1>4, <2>2 DEF ChainOK, ChainKept
<1>5. CASE r.rollup = "double"
  <2>1. s = [one |-> s.one, two |-> s.two, seen |-> s.seen]
    BY <1>5 DEF ChainOK, DoubleOK, DoubleTyped
  <2>2. QED
    BY ONLY "now" \in DOMAIN s, <2>1
<1>6. CASE r.rollup = "bold"
  <2>1. BoldOK(s)
    BY <1>6 DEF ChainOK
  <2>2. BoldOK(t)
    BY ONLY <2>1, t = [s EXCEPT !.now = @ + 1], BoldTick
  <2>3. QED
    BY <1>6, <2>2 DEF ChainOK, ChainKept
<1>7. CASE r.rollup = "trusted"
  <2>1. s = [now |-> s.now] /\ s.now \in Nat
    BY <1>7 DEF ChainOK
  <2>2. t = [now |-> t.now] /\ t.now \in Nat
    BY ONLY <2>1, t = [s EXCEPT !.now = @ + 1], TrustedTick
  <2>3. QED
    BY <1>7, <2>2 DEF ChainOK, ChainKept
<1>8. CASE r.rollup = "unchecked"
  <2>1. UncheckedOK(s)
    BY <1>8 DEF ChainOK
  <2>2. UncheckedOK(t)
    BY ONLY <2>1, t = [s EXCEPT !.now = @ + 1], UncheckedTick
  <2>3. QED
    BY <1>8, <2>2 DEF ChainOK, ChainKept
<1>9. CASE r.rollup = "interactive"
  <2>1. s = [latest |-> s.latest, commits |-> s.commits]
    BY <1>9 DEF ChainOK, InteractiveOK
  <2>2. QED
    BY ONLY "now" \in DOMAIN s, <2>1
<1>10. CASE r.rollup = "self"
  <2>1. s = [now |-> s.now] /\ s.now \in Nat
    BY <1>10 DEF ChainOK
  <2>2. t = [now |-> t.now] /\ t.now \in Nat
    BY ONLY <2>1, t = [s EXCEPT !.now = @ + 1], TrustedTick
  <2>3. QED
    BY <1>10, <2>2 DEF ChainOK, ChainKept
<1>11. CASE r.rollup = "linea"
  <2>1. LineaOK(s) /\ LineaShape(s)
    BY <1>11 DEF ChainOK
  <2>2. LineaOK(t) /\ LineaShape(t) /\ LineaKept(s, t)
    BY ONLY <2>1, t = [s EXCEPT !.now = @ + 1], LineaTick
  <2>3. QED
    BY <1>11, <2>2 DEF ChainOK, ChainKept
<1>12. CASE r.rollup = "shnarfs"
  <2>1. ShnarfsOK(s)
    BY <1>12 DEF ChainOK
  <2>2. ShnarfsOK(t)
    BY ONLY <2>1, t = [s EXCEPT !.now = @ + 1], ShnarfsTick
  <2>3. QED
    BY <1>12, <2>2 DEF ChainOK, ChainKept
<1>13. CASE r.rollup = "batches"
  <2>1. BatchesOK(s)
    BY <1>13 DEF ChainOK
  <2>2. BatchesOK(t)
    BY ONLY <2>1, t = [s EXCEPT !.now = @ + 1], BatchesTick
  <2>3. QED
    BY <1>13, <2>2 DEF ChainOK, ChainKept
<1>14. CASE r.rollup = "taiko"
  <2>1. TaikoOK(r, s)
    BY <1>14 DEF ChainOK
  <2>2. TaikoOK(r, t) /\ TaikoKept(r, s, t)
    BY ONLY <2>1, t = [s EXCEPT !.now = @ + 1], TaikoTick
  <2>3. QED
    BY <1>14, <2>2 DEF ChainOK, ChainKept
<1>15. CASE r.rollup = "checkpoints"
  <2>1. CheckpointOK(s)
    BY <1>15 DEF ChainOK
  <2>2. CheckpointOK(t) /\ CheckpointKept(s, t)
    BY ONLY <2>1, t = [s EXCEPT !.now = @ + 1], CheckpointTick
  <2>3. QED
    BY <1>15, <2>2 DEF ChainOK, ChainKept
<1>16. CASE r.rollup = "updates"
  <2>1. UpdatesOK(s)
    BY <1>16 DEF ChainOK
  <2>2. UpdatesOK(t)
    BY ONLY <2>1, t = [s EXCEPT !.now = @ + 1], UpdatesTick
  <2>3. QED
    BY <1>16, <2>2 DEF ChainOK, ChainKept
<1>17. QED
  BY <1>1, <1>2, <1>3, <1>4, <1>5, <1>6, <1>7, <1>8, <1>9, <1>10, <1>11, <1>12, <1>13, <1>14, <1>15, <1>16 DEF IsSetting

\* What is kept twice is kept.
LEMMA ChainOn ==
    ASSUME NEW r, IsSetting(r), NEW a, ChainOK(r, a), NEW s, ChainOK(r, s), NEW t, ChainOK(r, t),
           ChainKept(r, a, s), ChainKept(r, s, t)
    PROVE  ChainKept(r, a, t)
<1>1. CASE r.rollup = "outputs"
  <2>1. OutputsKept(r, a, s) /\ OutputsKept(r, s, t) /\ OutputsOK(a) /\ OutputsOK(s) /\ OutputsOK(t) /\ r.finalization \in Nat
    BY <1>1 DEF ChainOK, ChainKept, IsSetting
  <2>2. OutputsKept(r, a, t)
    BY ONLY <2>1, OutputsOn
  <2>3. QED
    BY <1>1, <2>2 DEF ChainKept
<1>2. CASE r.rollup = "games"
  <2>1. GamesKept(a, s) /\ GamesKept(s, t)
    BY <1>2 DEF ChainOK, ChainKept
  <2>2. GamesKept(a, t)
    BY <2>1 DEF GamesKept
  <2>3. QED
    BY <1>2, <2>2 DEF ChainKept
<1>3. CASE r.rollup = "nitro"
  <2>1. NitroKept(a, s) /\ NitroKept(s, t) /\ NitroOK(a) /\ NitroOK(s) /\ NitroOK(t)
    BY <1>3 DEF ChainOK, ChainKept
  <2>2. NitroKept(a, t)
    BY ONLY <2>1, NitroOn
  <2>3. QED
    BY <1>3, <2>2 DEF ChainKept
<1>4. CASE r.rollup = "double"
  <2>1. DoubleKept(a, s) /\ DoubleKept(s, t) /\ DoubleOK(r, a) /\ DoubleOK(r, s) /\ DoubleOK(r, t)
    BY <1>4 DEF ChainOK, ChainKept
  <2>2. DoubleKept(a, t)
    BY ONLY <2>1, DoubleOn
  <2>3. QED
    BY <1>4, <2>2 DEF ChainKept
<1>5. CASE r.rollup = "interactive"
  <2>1. InteractiveKept(a, s) /\ InteractiveKept(s, t) /\ InteractiveOK(a) /\ InteractiveOK(s) /\ InteractiveOK(t)
    BY <1>5 DEF ChainOK, ChainKept
  <2>2. InteractiveKept(a, t)
    BY ONLY <2>1, InteractiveOn
  <2>3. QED
    BY <1>5, <2>2 DEF ChainKept
<1>6. CASE r.rollup = "linea"
  <2>1. LineaKept(a, s) /\ LineaKept(s, t) /\ LineaOK(a) /\ LineaOK(s) /\ LineaOK(t)
    BY <1>6 DEF ChainOK, ChainKept
  <2>2. LineaKept(a, t)
    BY ONLY <2>1, LineaOn
  <2>3. QED
    BY <1>6, <2>2 DEF ChainKept
<1>7. CASE r.rollup = "taiko"
  <2>1. TaikoKept(r, a, s) /\ TaikoKept(r, s, t)
    BY <1>7 DEF ChainOK, ChainKept
  <2>2. TaikoKept(r, a, t)
    BY ONLY <2>1, TaikoOn
  <2>3. QED
    BY <1>7, <2>2 DEF ChainKept
<1>8. CASE r.rollup = "checkpoints"
  <2>1. CheckpointKept(a, s) /\ CheckpointKept(s, t) /\ CheckpointOK(a) /\ CheckpointOK(s) /\ CheckpointOK(t)
    BY <1>8 DEF ChainOK, ChainKept
  <2>2. CheckpointKept(a, t)
    BY ONLY <2>1, CheckpointOn
  <2>3. QED
    BY <1>8, <2>2 DEF ChainKept
<1>9. CASE r.rollup \notin {"outputs", "games", "nitro", "double", "interactive", "linea", "taiko", "checkpoints"}
  BY <1>9 DEF ChainKept
<1>10. QED
  BY <1>1, <1>2, <1>3, <1>4, <1>5, <1>6, <1>7, <1>8, <1>9

\* What is, is kept.
LEMMA ChainStays ==
    ASSUME NEW r, NEW s, ChainOK(r, s)
    PROVE  ChainKept(r, s, s)
<1>1. r.rollup = "outputs" => OutputsKept(r, s, s)
  BY DEF ChainOK, OutputsOK, OutputsKept
<1>2. r.rollup = "games" => GamesKept(s, s)
  BY DEF GamesKept
<1>3. r.rollup = "nitro" => NitroKept(s, s)
  BY DEF ChainOK, NitroOK, NitroTyped, NitroKept
<1>4. r.rollup = "double" => DoubleKept(s, s)
  BY DEF ChainOK, DoubleOK, NitroOK, NitroTyped, NitroKept, DoubleKept
<1>5. r.rollup = "interactive" => InteractiveKept(s, s)
  BY DEF ChainOK, InteractiveOK, InteractiveKept
<1>6. r.rollup = "linea" => LineaKept(s, s)
  BY InSeq DEF ChainOK, LineaOK, LineaKept
<1>7. r.rollup = "taiko" => TaikoKept(r, s, s)
  BY DEF TaikoKept
<1>8. r.rollup = "checkpoints" => CheckpointKept(s, s)
  BY InSeq DEF ChainOK, CheckpointOK, CheckpointKept
<1>9. QED
  BY <1>1, <1>2, <1>3, <1>4, <1>5, <1>6, <1>7, <1>8 DEF ChainKept

-----------------------------------------------------------------------------
\* What the rollup remembers.
LEMMA MemoryKept ==
    ASSUME NEW r, NEW view, NEW s, ChainOK(r, s), NEW m, MemoryOK(r, m)
    PROVE  MemoryOK(r, Forgotten(r, m)) /\ \A n \in Remembered(r, view, s, m) : MemoryOK(r, n)
<1>1. CASE r.rollup = "trusted"
  <2>1. /\ m = [latest |-> m.latest, count |-> m.count, signed |-> m.signed] /\ SignedOK(m)
        /\ TrustedOK(s)
    BY <1>1 DEF MemoryOK, ChainOK, TrustedOK
  <2>2. Forgotten(r, m) = Trusted!Expired(m) /\ Remembered(r, view, s, m) = {Trusted!Latest(r, s, m)}
    BY <1>1 DEF Forgotten, Remembered
  <2>3. SignedOK(Trusted!Latest(r, s, m)) /\ SignedOK(Trusted!Expired(m))
    BY ONLY <2>1, TrustedSigns
  <2>4. \E x : x = Trusted!Expired(m) /\ x = [latest |-> x.latest, count |-> x.count, signed |-> x.signed]
    <3>1. Trusted!Expired(m) = [latest |-> Trusted!NoCommit, count |-> m.count, signed |-> m.signed]
      BY <2>1 DEF Trusted!Expired
    <3>2. QED
      BY <3>1
  <2>5. \E x : x = Trusted!Latest(r, s, m) /\ x = [latest |-> x.latest, count |-> x.count, signed |-> x.signed]
    BY <2>1 DEF Trusted!Latest
  <2>6. QED
    BY <2>2, <2>3, <2>4, <2>5 DEF MemoryOK
<1>2. CASE r.rollup # "trusted"
  BY <1>2 DEF MemoryOK
<1>3. QED
  BY <1>1, <1>2

\* What a verifier accepts of a context of an earlier chain.
LEMMA ChainAccepts ==
    ASSUME NEW r, IsSetting(r), NEW m, MemoryOK(r, m), NEW a, ChainOK(r, a), NEW s, ChainOK(r, s),
           ChainKept(r, a, s), NEW c, c = GetLatestContext(r, a), c # NoIndex,
           NEW p \in Witnesses(r, s), GetStorageValues(r, s, m, c, p) = "ok"
    PROVE  Promised(r, m, a, s, c, p) /\ Recent(r, a, s, c, p)
<1>0. r.window \in Nat /\ r.max \in Nat
  BY DEF IsSetting
<1>1. CASE r.rollup = "outputs"
  <2>1. c = Outputs!GetLatestContext(r, a)
    BY <1>1 DEF GetLatestContext
  <2>2. p \in Outputs!Witnesses(r, s)
    BY <1>1 DEF Witnesses
  <2>3. Outputs!GetStorageValues(r, s, c, p) = "ok"
    BY <1>1 DEF GetStorageValues
  <2>4. OutputsOK(a) /\ OutputsOK(s) /\ OutputsKept(r, a, s)
    BY <1>1 DEF ChainOK, ChainKept
  <2>5. r.minAge \in Nat /\ r.finalization \in Nat \ {0}
    BY <1>1 DEF IsSetting
  <2>6. c # Outputs!NoIndex
    BY DEF NoIndex, Outputs!NoIndex
  <2>8. Outputs!Promised(r, a, s, c, p) /\ Outputs!Recent(r, a, s, c, p)
    BY ONLY <1>0, <2>1, <2>2, <2>3, <2>4, <2>5, <2>6, OutputsAccepts
  <2>9. QED
    BY <1>1, <2>8 DEF Promised, Recent
<1>2. CASE r.rollup = "games"
  <2>1. c = Games!GetLatestContext(r, a)
    BY <1>2 DEF GetLatestContext
  <2>2. p \in Games!Witnesses(r, s)
    BY <1>2 DEF Witnesses
  <2>3. Games!GetStorageValues(r, s, c, p) = "ok"
    BY <1>2 DEF GetStorageValues
  <2>4. GamesOK(a) /\ GamesOK(s) /\ GamesKept(a, s)
    BY <1>2 DEF ChainOK, ChainKept
  <2>5. r.minAge \in Nat
    BY <1>2 DEF IsSetting
  <2>6. c # Games!NoIndex
    BY DEF NoIndex, Games!NoIndex
  <2>8. Games!Promised(r, a, s, c, p) /\ Games!Recent(r, a, s, c, p)
    BY ONLY <1>0, <2>1, <2>2, <2>3, <2>4, <2>5, <2>6, GamesAccepts
  <2>9. QED
    BY <1>2, <2>8 DEF Promised, Recent
<1>3. CASE r.rollup = "reverse"
  <2>1. c = Reverse!GetLatestContext(r, a)
    BY <1>3 DEF GetLatestContext
  <2>2. p \in Reverse!Witnesses(r, s)
    BY <1>3 DEF Witnesses
  <2>3. Reverse!GetStorageValues(r, s, c, p) = "ok"
    BY <1>3 DEF GetStorageValues
  <2>4. ReverseOK(a) /\ ReverseOK(s)
    BY <1>3 DEF ChainOK
  <2>8. Reverse!Promised(r, a, s, c, p) /\ Reverse!Recent(r, a, s, c, p)
    BY ONLY <1>0, <2>1, <2>2, <2>3, <2>4, ReverseAccepts
  <2>9. QED
    BY <1>3, <2>8 DEF Promised, Recent
<1>4. CASE r.rollup = "nitro"
  <2>1. c = Nitro!GetLatestContext(r, a)
    BY <1>4 DEF GetLatestContext
  <2>2. p \in Nitro!Witnesses(r, s)
    BY <1>4 DEF Witnesses
  <2>3. Nitro!GetStorageValues(r, s, c, p) = "ok"
    BY <1>4 DEF GetStorageValues
  <2>4. NitroOK(a) /\ NitroOK(s) /\ NitroKept(a, s)
    BY <1>4 DEF ChainOK, ChainKept
  <2>5. r.minAge \in Nat
    BY <1>4 DEF IsSetting
  <2>6. c # Nitro!NoIndex
    BY DEF NoIndex, Nitro!NoIndex
  <2>8. Nitro!Promised(r, a, s, c, p) /\ Nitro!Recent(r, a, s, c, p)
    BY ONLY <1>0, <2>1, <2>2, <2>3, <2>4, <2>5, <2>6, NitroAccepts
  <2>9. QED
    BY <1>4, <2>8 DEF Promised, Recent
<1>5. CASE r.rollup = "double"
  <2>1. c = Double!GetLatestContext(r, a)
    BY <1>5 DEF GetLatestContext
  <2>2. p \in Double!Witnesses(r, s)
    BY <1>5 DEF Witnesses
  <2>3. Double!GetStorageValues(r, s, c, p) = "ok"
    BY <1>5 DEF GetStorageValues
  <2>4. DoubleOK(r, a) /\ DoubleOK(r, s) /\ DoubleKept(a, s)
    BY <1>5 DEF ChainOK, ChainKept
  <2>5. r.minAge \in Nat
    BY <1>5 DEF IsSetting
  <2>6. c # Nitro!NoIndex
    BY DEF NoIndex, Nitro!NoIndex
  <2>8. Double!Promised(r, a, s, c, p) /\ Double!Recent(r, a, s, c, p)
    BY ONLY <1>0, <2>1, <2>2, <2>3, <2>4, <2>5, <2>6, DoubleAccepts
  <2>9. QED
    BY <1>5, <2>8 DEF Promised, Recent
<1>6. CASE r.rollup = "bold"
  <2>1. c = BoLD!GetLatestContext(r, a)
    BY <1>6 DEF GetLatestContext
  <2>2. p \in BoLD!Witnesses(r, s)
    BY <1>6 DEF Witnesses
  <2>3. BoLD!GetStorageValues(r, s, c, p) = "ok"
    BY <1>6 DEF GetStorageValues
  <2>4. BoldOK(a) /\ BoldOK(s)
    BY <1>6 DEF ChainOK
  <2>5. r.minAge \in Nat /\ r.longest \in Nat
    BY <1>6 DEF IsSetting
  <2>8. BoLD!Promised(r, a, s, c, p) /\ BoLD!Recent(r, a, s, c, p)
    BY ONLY <1>0, <2>1, <2>2, <2>3, <2>4, <2>5, BoldAccepts
  <2>9. QED
    BY <1>6, <2>8 DEF Promised, Recent
<1>7. CASE r.rollup = "trusted"
  <2>1. c = Trusted!GetLatestContext(r, a)
    BY <1>7 DEF GetLatestContext
  <2>2. p \in Trusted!Witnesses(r, s)
    BY <1>7 DEF Witnesses
  <2>3. Trusted!GetStorageValues(r, s, m, c, p) = "ok"
    BY <1>7 DEF GetStorageValues
  <2>4. TrustedOK(a) /\ TrustedOK(s)
    BY <1>7 DEF ChainOK, TrustedOK
  <2>7. SignedOK(m)
    BY <1>7 DEF MemoryOK
  <2>8. Trusted!Promised(r, m, a, s, c, p) /\ Trusted!Recent(r, a, s, c, p)
    BY ONLY <1>0, <2>1, <2>2, <2>3, <2>4, <2>7, TrustedAccepts
  <2>9. QED
    BY <1>7, <2>8 DEF Promised, Recent
<1>8. CASE r.rollup = "unchecked"
  <2>1. c = Unchecked!GetLatestContext(r, a)
    BY <1>8 DEF GetLatestContext
  <2>2. p \in Unchecked!Witnesses(r, s)
    BY <1>8 DEF Witnesses
  <2>3. Unchecked!GetStorageValues(r, s, c, p) = "ok"
    BY <1>8 DEF GetStorageValues
  <2>4. UncheckedOK(a) /\ UncheckedOK(s)
    BY <1>8 DEF ChainOK
  <2>8. Unchecked!Promised(r, a, s, c, p) /\ Unchecked!Recent(r, a, s, c, p)
    BY ONLY <1>0, <2>1, <2>2, <2>3, <2>4, UncheckedAccepts DEF UncheckedOK
  <2>9. QED
    BY <1>8, <2>8 DEF Promised, Recent
<1>9. CASE r.rollup = "interactive"
  <2>1. c = Interactive!GetLatestContext(r, a)
    BY <1>9 DEF GetLatestContext
  <2>2. p \in Interactive!Witnesses(r, s)
    BY <1>9 DEF Witnesses
  <2>3. Interactive!GetStorageValues(r, s, c, p) = "ok"
    BY <1>9 DEF GetStorageValues
  <2>4. InteractiveOK(a) /\ InteractiveOK(s) /\ InteractiveKept(a, s)
    BY <1>9 DEF ChainOK, ChainKept
  <2>8. Interactive!Promised(r, a, s, c, p) /\ Interactive!Recent(r, a, s, c, p)
    BY ONLY <1>0, <2>1, <2>2, <2>3, <2>4, InteractiveAccepts
  <2>9. QED
    BY <1>9, <2>8 DEF Promised, Recent
<1>10. CASE r.rollup = "self"
  <2>1. c = Self!GetLatestContext(r, a)
    BY <1>10 DEF GetLatestContext
  <2>2. p \in Self!Witnesses(r, s)
    BY <1>10 DEF Witnesses
  <2>3. Self!GetStorageValues(r, s, c, p) = "ok"
    BY <1>10 DEF GetStorageValues
  <2>4. a.now \in Nat /\ s.now \in Nat
    BY <1>10 DEF ChainOK
  <2>8. Self!Promised(r, a, s, c, p) /\ Self!Recent(r, a, s, c, p)
    BY ONLY <1>0, <2>1, <2>2, <2>3, <2>4, SelfAccepts
  <2>9. QED
    BY <1>10, <2>8 DEF Promised, Recent
<1>11. CASE r.rollup = "linea"
  <2>1. c = Linea!GetLatestContext(r, a)
    BY <1>11 DEF GetLatestContext
  <2>2. p \in Linea!Witnesses(r, s)
    BY <1>11 DEF Witnesses
  <2>3. Linea!GetStorageValues(r, s, c, p) = "ok"
    BY <1>11 DEF GetStorageValues
  <2>4. LineaOK(a) /\ LineaOK(s) /\ LineaKept(a, s)
    BY <1>11 DEF ChainOK, ChainKept
  <2>8. Linea!Promised(r, a, s, c, p) /\ Linea!Recent(r, a, s, c, p)
    BY ONLY <1>0, <2>1, <2>2, <2>3, <2>4, LineaAccepts
  <2>9. QED
    BY <1>11, <2>8 DEF Promised, Recent
<1>12. CASE r.rollup = "shnarfs"
  <2>1. c = Shnarfs!GetLatestContext(r, a)
    BY <1>12 DEF GetLatestContext
  <2>2. p \in Shnarfs!Witnesses(r, s)
    BY <1>12 DEF Witnesses
  <2>3. Shnarfs!GetStorageValues(r, s, c, p) = "ok"
    BY <1>12 DEF GetStorageValues
  <2>4. ShnarfsOK(a) /\ ShnarfsOK(s)
    BY <1>12 DEF ChainOK
  <2>8. Shnarfs!Promised(r, a, s, c, p) /\ Shnarfs!Recent(r, a, s, c, p)
    BY ONLY <1>0, <2>1, <2>2, <2>3, <2>4, ShnarfsAccepts
  <2>9. QED
    BY <1>12, <2>8 DEF Promised, Recent
<1>13. CASE r.rollup = "batches"
  <2>1. c = Batches!GetLatestContext(r, a)
    BY <1>13 DEF GetLatestContext
  <2>2. p \in Batches!Witnesses(r, s)
    BY <1>13 DEF Witnesses
  <2>3. Batches!GetStorageValues(r, s, c, p) = "ok"
    BY <1>13 DEF GetStorageValues
  <2>4. BatchesOK(a) /\ BatchesOK(s)
    BY <1>13 DEF ChainOK
  <2>8. Batches!Promised(r, a, s, c, p) /\ Batches!Recent(r, a, s, c, p)
    BY ONLY <1>0, <2>1, <2>2, <2>3, <2>4, BatchesAccepts
  <2>9. QED
    BY <1>13, <2>8 DEF Promised, Recent
<1>14. CASE r.rollup = "taiko"
  <2>1. c = Taiko!GetLatestContext(r, a)
    BY <1>14 DEF GetLatestContext
  <2>2. p \in Taiko!Witnesses(r, s)
    BY <1>14 DEF Witnesses
  <2>3. Taiko!GetStorageValues(r, s, c, p) = "ok"
    BY <1>14 DEF GetStorageValues
  <2>4. TaikoOK(r, a) /\ TaikoOK(r, s) /\ TaikoKept(r, a, s)
    BY <1>14 DEF ChainOK, ChainKept
  <2>8. Taiko!Promised(r, a, s, c, p) /\ Taiko!Recent(r, a, s, c, p)
    BY ONLY <1>0, <2>1, <2>2, <2>3, <2>4, TaikoAccepts
  <2>9. QED
    BY <1>14, <2>8 DEF Promised, Recent
<1>15. CASE r.rollup = "checkpoints"
  <2>1. c = Checkpoint!GetLatestContext(r, a)
    BY <1>15 DEF GetLatestContext
  <2>2. p \in Checkpoint!Witnesses(r, s)
    BY <1>15 DEF Witnesses
  <2>3. Checkpoint!GetStorageValues(r, s, c, p) = "ok"
    BY <1>15 DEF GetStorageValues
  <2>4. CheckpointOK(a) /\ CheckpointOK(s) /\ CheckpointKept(a, s)
    BY <1>15 DEF ChainOK, ChainKept
  <2>8. Checkpoint!Promised(r, a, s, c, p) /\ Checkpoint!Recent(r, a, s, c, p)
    BY ONLY <1>0, <2>1, <2>2, <2>3, <2>4, CheckpointAccepts
  <2>9. QED
    BY <1>15, <2>8 DEF Promised, Recent
<1>16. CASE r.rollup = "updates"
  <2>1. c = Updates!GetLatestContext(r, a)
    BY <1>16 DEF GetLatestContext
  <2>2. p \in Updates!Witnesses(r, s)
    BY <1>16 DEF Witnesses
  <2>3. Updates!GetStorageValues(r, s, c, p) = "ok"
    BY <1>16 DEF GetStorageValues
  <2>4. UpdatesOK(a) /\ UpdatesOK(s)
    BY <1>16 DEF ChainOK
  <2>5. r.depth \in Nat
    BY <1>16 DEF IsSetting
  <2>8. Updates!Promised(r, a, s, c, p) /\ Updates!Recent(r, a, s, c, p)
    BY ONLY <1>0, <2>1, <2>2, <2>3, <2>4, <2>5, UpdatesAccepts
  <2>9. QED
    BY <1>16, <2>8 DEF Promised, Recent
<1>17. QED
  BY <1>1, <1>2, <1>3, <1>4, <1>5, <1>6, <1>7, <1>8, <1>9, <1>10, <1>11, <1>12, <1>13, <1>14, <1>15, <1>16 DEF IsSetting
=============================================================================
