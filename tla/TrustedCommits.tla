--------------------------- MODULE TrustedCommits ---------------------------
(***************************************************************************)
(* A rollup whose state root is signed by the gateway:                     *)
(* src/TrustedRollup.ts and contracts/trusted/LazyTrustedVerifier.sol.     *)
(* The state s has the time, and the second chain has another root at each *)
(* time.  The rollup remembers in mem the commit it keeps for a minute,    *)
(* how many it signed, and what it signed.                                 *)
(***************************************************************************)
EXTENDS AbstractRollup

Start(r) == [now |-> r.max]
Moves(r, s) == {}
NoMemory == [latest |-> NoCommit, count |-> 0, signed |-> {}]

(* latest.get(): kept as long as it is cached, or made anew. *)
Latest(r, s, mem) ==
    IF mem.latest # NoCommit \/ mem.count = r.max THEN mem
    ELSE [latest |-> [index |-> mem.count, signedAt |-> s.now, root |-> s.now],
          count |-> mem.count + 1,
          signed |-> mem.signed \cup {[signedAt |-> s.now, root |-> s.now]}]
Expired(mem) == [mem EXCEPT !.latest = NoCommit]

FetchLatestCommitIndex(r, s, mem) == mem.latest.index
FetchParentCommitIndex(r, s, commit) == NoIndex
FetchCommit(r, s, mem, index) == mem.latest
IsCommitStillValid(r, s, commit) == TRUE
EncodeWitness(commit) == [signedAt |-> commit.signedAt, root |-> commit.root]

(* LazyTrustedVerifier *)
GetLatestContext(r, s) == s.now
GetStorageValues(r, s, mem, context, p) ==
    LET dt == IF p.signedAt > context THEN p.signedAt - context
              ELSE context - p.signedAt
    IN CASE p \notin mem.signed -> "signer"
         [] p \in mem.signed /\ dt > r.window -> "expired"
         [] OTHER -> "ok"

(* For the properties. *)
Witnesses(r, s) == [signedAt : 0..s.now, root : 0..s.now]
Promised(r, mem, asked, s, context, p) == p.root = p.signedAt /\ p \in mem.signed
Recent(r, asked, s, context, p) ==
    p.signedAt + r.window >= context /\ p.signedAt <= context + r.window
Spoiled(r, asked, s, context, commit) ==
    commit.signedAt + r.window < context \/ commit.signedAt > context + r.window
=============================================================================
