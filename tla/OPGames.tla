------------------------------ MODULE OPGames -------------------------------
(***************************************************************************)
(* Rollups of the OP stack with fault proofs: src/op/OPFaultRollup.ts and  *)
(* AbstractOPRollup.ts, contracts/op/OPFaultGameFinder.sol and             *)
(* OPFaultVerifier.sol.  The state s has the time, the respected type and  *)
(* the games of the factory; the game of index i is s.games[i + 1].        *)
(***************************************************************************)
EXTENDS AbstractRollup

InProgress == 0
ChallengerWins == 1
DefenderWins == 2

(* The factory, the games and the registry.  A game of type "fault" that   *)
(* nobody challenged, neither its claims nor its block, is unchallenged;   *)
(* one of type "succinct" builds on a parent or on the anchor.             *)
Anchor == 99
Start(r) == [now |-> r.clock, respected |-> r.respected, games |-> << >>]

Root(block, right) == [block |-> block, right |-> right]

Games(s) == 0..Len(s.games) - 1
GameOf(s, index) == s.games[index + 1]
Changed(s, index, game) == [s EXCEPT !.games[index + 1] = game]

Created(r, s) ==
    {[kind |-> k.type, proposer |-> k.proposer, parent |-> parent,
      root |-> Root(Len(s.games) + 1, k.right), created |-> s.now,
      claims |-> "unchallenged", status |-> InProgress, resolved |-> 0,
      proper |-> TRUE, wasRespected |-> k.type = s.respected] :
        k \in r.creations,
        parent \in {Anchor} \cup IF r.forks THEN Games(s) ELSE {}}

Outcomes(r, s, g) ==
    LET parent == IF g.parent = Anchor THEN DefenderWins ELSE GameOf(s, g.parent).status
    IN {w \in {ChallengerWins, DefenderWins} :
            /\ g.status = InProgress /\ g.created + r.clock <= s.now
            /\ parent # InProgress
            /\ parent = ChallengerWins => w = ChallengerWins
            /\ parent = DefenderWins /\ g.claims = "unchallenged" => w = DefenderWins}

Challenged(g) == [g EXCEPT !.claims = "challenged"]
Resolved(s, g, status) ==
    [g EXCEPT !.status = status, !.resolved = s.now,
              !.claims = IF g.kind = "succinct" THEN "resolved" ELSE @]
Blacklisted(g) == [g EXCEPT !.proper = FALSE]

Moves(r, s) ==
    {[s EXCEPT !.games = Append(@, g)] :
        g \in {g \in Created(r, s) : Len(s.games) < r.max
                /\ (g.kind = "fault" => g.parent = Anchor)}}
    \cup {Changed(s, i, Challenged(GameOf(s, i))) :
            i \in {i \in Games(s) : GameOf(s, i).status = InProgress}}
    \cup (UNION {{Changed(s, i, Resolved(s, GameOf(s, i), w)) :
                    w \in Outcomes(r, s, GameOf(s, i))} : i \in Games(s)})
    \cup {Changed(s, i, Blacklisted(GameOf(s, i))) :
            i \in IF r.blacklists THEN Games(s) ELSE {}}
    \cup {[s EXCEPT !.respected = t] : t \in r.respectable}

(* OPFaultGameFinder.  The search carries memo, its succinctGameIndex, and *)
(* every check returns it.                                                 *)
Says(ok, memo) == [ok |-> ok, memo |-> memo]

Considered(r, s, g) ==
    /\ IF r.gameTypes = {} THEN g.kind = s.respected \/ g.wasRespected
       ELSE g.kind \in r.gameTypes
    /\ r.proposers = {} \/ g.proposer \in r.proposers
    /\ g.proper
    /\ r.minAge > 0 => g.created <= s.now - r.minAge

(* The first game on the way from index to the anchor that is not an       *)
(* unchallenged game of the same type, or is not below the memo.           *)
Ancestor(s, type, memo, index) ==
    LET up[i \in Games(s) \cup {Anchor}] ==
          IF i = Anchor \/ i >= memo \/ GameOf(s, i).kind # type
                \/ GameOf(s, i).claims # "unchallenged"
          THEN i ELSE up[GameOf(s, i).parent]
    IN up[index]

\* Whether nobody challenged g or what it builds on; usable says it of the
\* games of another type.
IsUnchallenged(s, usable, g, memo) ==
    LET a == Ancestor(s, g.kind, memo, g.parent)
    IN IF g.claims # "unchallenged" THEN Says(FALSE, memo)
       ELSE IF g.kind = "fault" \/ a = Anchor THEN Says(TRUE, memo)
       ELSE IF a >= memo THEN Says(FALSE, memo)
       ELSE IF GameOf(s, a).kind # g.kind THEN usable[<<a, memo>>]
       ELSE Says(GameOf(s, a).claims = "resolved"
                    /\ GameOf(s, a).status = DefenderWins, a)

CheckGame(r, s, usable, g, memo) ==
    IF ~Considered(r, s, g) THEN Says(FALSE, memo)
    ELSE IF r.minAge = 0 THEN Says(g.status = DefenderWins, memo)
    ELSE [IsUnchallenged(s, usable, g, memo) EXCEPT
            !.ok = @ \/ g.status = DefenderWins]

UsableGames(r, s) ==
    LET usable[w \in Games(s) \X (0..Len(s.games))] ==
            CheckGame(r, s, usable, GameOf(s, w[1]), w[2])
    IN usable

FindGameIndex(r, s, gameBound) ==
    LET bound == IF gameBound = 0 THEN Len(s.games) ELSE gameBound
        usable == UsableGames(r, s)
        find[w \in (0..bound) \X (0..bound)] ==
            IF w[1] = 0 THEN NoIndex
            ELSE LET says == usable[<<w[1] - 1, w[2]>>]
                 IN IF says.ok THEN w[1] - 1 ELSE find[<<w[1] - 1, says.memo>>]
    IN find[<<bound, bound>>]

IsGameUsable(r, s, index) == UsableGames(r, s)[<<index, index>>].ok

(* OPFaultRollup.  An index of which no commit can be made is followed by  *)
(* the one the finder gives below it; below 0 there is none to ask for, it *)
(* means the newest, and a second time around ends with the timeout.       *)
Unfinalized(r) == r.minAge # 0

FetchCommit(r, s, index) ==
    LET game == GameOf(s, index)
        right == Root(game.root.block, TRUE)
    IN IF index \in Games(s) /\ IsGameUsable(r, s, index)
            /\ (Unfinalized(r) => game.root = right)
       THEN [index |-> index, game |-> game, root |-> right]
       ELSE NoCommit

Newest == -2
EnsureRootClaim(r, s, index) ==
    LET down[i \in Games(s) \cup {NoIndex}] ==
          IF i = NoIndex \/ FetchCommit(r, s, i) # NoCommit THEN i
          ELSE IF i = 0 THEN Newest
          ELSE down[FindGameIndex(r, s, i)]
        again == down[FindGameIndex(r, s, 0)]
    IN IF index = NoIndex \/ ~Unfinalized(r) THEN index
       ELSE IF down[index] # Newest THEN down[index]
       ELSE IF again = Newest THEN NoIndex ELSE again

FetchLatestCommitIndex(r, view, s) ==
    EnsureRootClaim(r, s, FindGameIndex(r, view, 0))
FetchParentCommitIndex(r, s, commit) ==
    EnsureRootClaim(r, s, FindGameIndex(r, s, commit.index))
IsCommitStillValid(r, s, commit) == IsGameUsable(r, s, commit.index)
EncodeWitness(commit) == [index |-> commit.index, root |-> commit.root]

(* OPFaultVerifier *)
GetLatestContext(r, s) == FindGameIndex(r, s, 0)

GameTime(r, g) == IF r.minAge = 0 THEN g.resolved ELSE g.created

GetStorageValues(r, s, context, p) ==
    LET window == IF p.index = context THEN "ok"
                  ELSE CheckWindow(r, GameTime(r, GameOf(s, context)),
                                   GameTime(r, GameOf(s, p.index)))
    IN CASE p.index \notin Games(s) -> "no such game"
         [] p.index \in Games(s) /\ ~IsGameUsable(r, s, p.index) -> "invalid game"
         [] OTHER -> IF window = "ok" /\ GameOf(s, p.index).root # p.root
                     THEN "rootClaim" ELSE window

(* For the properties. *)
Witnesses(r, s) ==
    [index : 0..r.max, root : {Root(b, right) : b \in 1..r.max, right \in BOOLEAN}]

Ancestors(s, index) ==
    LET up[i \in Games(s)] ==
          {i} \cup IF GameOf(s, i).parent = Anchor \/ GameOf(s, i).status = DefenderWins
                   THEN {} ELSE up[GameOf(s, i).parent]
    IN up[index]

(* Nothing from the game back to one that has won, or the anchor, is lost  *)
(* or disputed; if age counts, the game is old enough.                     *)
Standing(r, s, i) ==
    LET g == GameOf(s, i)
    IN /\ g.proper
       /\ IF r.minAge = 0 THEN g.status = DefenderWins
          ELSE /\ g.created + r.minAge <= s.now
               /\ \A a \in Ancestors(s, i) :
                    \/ GameOf(s, a).status = DefenderWins
                    \/ GameOf(s, a).status = InProgress
                        /\ GameOf(s, a).claims = "unchallenged"
                    \/ GameOf(s, a).kind = "fault"
                        /\ GameOf(s, a).claims = "unchallenged"

Usable(r, s) ==
    {i \in Games(s) : IsGameUsable(r, s, i)
                        /\ (Unfinalized(r) => GameOf(s, i).root.right)}

Promised(r, asked, s, context, p) ==
    p.index \in Games(s) /\ GameOf(s, p.index).root = p.root
        /\ Standing(r, s, p.index)
Recent(r, asked, s, context, p) ==
    GameTime(r, GameOf(s, p.index)) + r.window >= GameTime(r, GameOf(s, context))

Spoiled(r, asked, s, context, commit) ==
    \/ ~commit.game.root.right
    \/ ~IsCommitStillValid(r, s, commit)
    \/ ~IsGameUsable(r, s, context)
    \/ /\ ~Unfinalized(r)
       /\ GameOf(s, context).resolved < GameOf(s, commit.index).resolved
=============================================================================
