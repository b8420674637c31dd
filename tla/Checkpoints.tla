---------------------------- MODULE Checkpoints -----------------------------
(***************************************************************************)
(* Polygon PoS: src/polygon/PolygonPoSRollup.ts and                        *)
(* contracts/polygon/PolygonPoSVerifier.sol.  The state s has the time,    *)
(* the last block of the second chain, its blocks with a post (the event   *)
(* that has the hash of the block before), and the checkpoints, oldest     *)
(* first, each with its first and last block and its time.  A root is      *)
(* named by its block.                                                     *)
(***************************************************************************)
EXTENDS AbstractRollup

Start(r) == [now |-> 1, tip |-> 0, posts |-> {}, headers |-> << >>]
Header(s, k) == s.headers[k]
CurrentHeaderBlock(s) == Len(s.headers)
LastChildBlock(s) == IF s.headers = << >> THEN 0
                     ELSE Header(s, CurrentHeaderBlock(s)).end
Moves(r, s) ==
    {[s EXCEPT !.tip = @ + 1, !.posts = @ \cup post] :
        post \in IF s.tip < r.max
                 THEN {{}} \cup {{n} : n \in {s.tip + 1} \cap (r.deployed..r.max)}
                 ELSE {}}
    \cup {[s EXCEPT !.headers = Append(@, [start |-> LastChildBlock(s) + 1,
                                           end |-> end, at |-> s.now])] :
            end \in LastChildBlock(s) + 1..s.tip}

PostsIn(s, from, to) == {n \in s.posts : from <= n /\ n <= to}
LastOf(posts) == CHOOSE n \in posts : \A m \in posts : m <= n

(* PolygonPoSRollup: back over the blocks before number, r.step at a time, *)
(* as long as the poster can have been there; then the checkpoint that has *)
(* the post, which the API of the chain knows.                             *)
FindPosterEventBefore(r, s, number) ==
    LET scan[i \in -r.step..number] ==
          LET logs == PostsIn(s, IF i < r.step THEN 0 ELSE i - r.step, i - 1)
          IN CASE i <= r.deployed -> NoIndex
               [] i > r.deployed /\ logs # {} -> LastOf(logs)
               [] OTHER -> scan[i - r.step]
    IN scan[number]

FindPosterHeaderBefore(r, s, number) ==
    LET post == FindPosterEventBefore(r, s, number)
        at == {k \in DOMAIN s.headers : Header(s, k).start <= post
                                         /\ post <= Header(s, k).end}
    IN IF at = {} THEN NoIndex ELSE CHOOSE k \in at : TRUE

FetchLatestCommitIndex(r, view, s) ==
    FindPosterHeaderBefore(r, s, LastChildBlock(view) + 1)
FetchParentCommitIndex(r, s, commit) ==
    FindPosterHeaderBefore(r, s, commit.l2BlockNumberStart)
FetchCommit(r, s, index) ==
    IF index \notin DOMAIN s.headers THEN NoCommit
    ELSE LET posts == PostsIn(s, Header(s, index).start, Header(s, index).end)
         IN IF posts = {} THEN NoCommit
            ELSE [index |-> index, post |-> LastOf(posts),
                  l2BlockNumberStart |-> Header(s, index).start]
IsCommitStillValid(r, s, commit) == TRUE
EncodeWitness(commit) ==
    [header |-> commit.index, post |-> commit.post, block |-> commit.post - 1]

(* PolygonPoSVerifier: the receipt of the post is in the checkpoint, and   *)
(* what the post says is the hash of the block that was sent.              *)
GetLatestContext(r, s) == CurrentHeaderBlock(s)
CreatedAt(s, k) == IF k \in DOMAIN s.headers THEN Header(s, k).at ELSE 0
GetStorageValues(r, s, context, p) ==
    LET window == IF p.header = context THEN "ok"
                  ELSE CheckWindow(r, CreatedAt(s, context), CreatedAt(s, p.header))
    IN CASE p.header \notin DOMAIN s.headers -> "checkpoint"
         [] p.header \in DOMAIN s.headers /\ window # "ok" -> window
         [] OTHER ->
              CASE p.post \notin PostsIn(s, Header(s, p.header).start,
                                            Header(s, p.header).end) -> "receipt"
                [] p.block # p.post - 1 -> "blockHash"
                [] OTHER -> "ok"

(* For the properties. *)
Witnesses(r, s) == [header : 0..Len(s.headers), post : 0..r.max, block : 0..r.max]
Usable(r, s) ==
    {k \in DOMAIN s.headers : PostsIn(s, Header(s, k).start, Header(s, k).end) # {}}
Promised(r, asked, s, context, p) ==
    /\ p.block + 1 \in s.posts
    /\ p.block + 1 <= LastChildBlock(s)
    /\ CreatedAt(s, p.header) <= asked.now
Recent(r, asked, s, context, p) ==
    CreatedAt(s, p.header) + r.window >= CreatedAt(s, context)
Spoiled(r, asked, s, context, commit) == FALSE
=============================================================================
