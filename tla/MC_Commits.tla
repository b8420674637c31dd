----------------------------- MODULE MC_Commits -----------------------------
EXTENDS Commits, TLC

Setting(rollup, moves, more) ==
    more @@ [rollup |-> rollup, moves |-> moves, asks |-> 1, commitDepth |-> 1,
             allowHistorical |-> FALSE, window |-> 1]

Plain == [window |-> 1]
AnyGame == [proposers |-> {}, forks |-> FALSE, respectable |-> {}, gameTypes |-> {},
                blacklists |-> FALSE, respected |-> "fault"]
Creation(type, proposer, right) == [type |-> type, proposer |-> proposer, right |-> right]

OutputSetting(minAge, more) ==
    Setting("outputs", 5, more @@ [finalization |-> 2, minAge |-> minAge, max |-> 3])
GameSetting(minAge, creations, more) ==
    Setting("games", 6, more @@ [clock |-> 2, minAge |-> minAge, max |-> 2,
        creations |-> creations] @@ AnyGame)
NitroSetting(minAge) ==
    Setting("nitro", 5, [start |-> 3, confirmation |-> 2, minAge |-> minAge, max |-> 4])
DoubleSetting(minAge, minAge23) ==
    Setting("double", 5, [start |-> 3, confirmation |-> 0, minAge |-> minAge,
        minAge23 |-> minAge23, max |-> 3])
BoldSetting(minAge, more) ==
    Setting("bold", 5, more @@ [start |-> 3, confirmation |-> 2,
        minAge |-> minAge, max |-> 4, finishes |-> {TRUE}, step |-> 2, fails |-> FALSE,
        longest |-> 3])
BatchSetting(kind, more) ==
    Setting("batches", 5, more @@ [kind |-> kind, blobs |-> 1, max |-> 3])

Fault(proposer) == Creation("fault", proposer, TRUE)
Succinct(proposer) == Creation("succinct", proposer, TRUE)
Forks == [forks |-> TRUE, respected |-> "succinct"]
ReplacedType == [clock |-> 0, respectable |-> {"fault", "succinct"}]

Optimism ==
    {OutputSetting(0, [allowHistorical |-> TRUE]), OutputSetting(1, [window |-> 2]),
     GameSetting(0, {Fault(1)}, [blacklists |-> TRUE]),
     GameSetting(0, {Fault(1), Succinct(2)}, ReplacedType),
     GameSetting(1, {Fault(1), Creation("fault", 1, FALSE)}, [moves |-> 5]),
     GameSetting(1, {Fault(1), Succinct(2)},
        [proposers |-> {2}, gameTypes |-> {"fault", "succinct"}, forks |-> TRUE]),
     GameSetting(1, {Succinct(1)}, [max |-> 3] @@ Forks),
     Setting("reverse", 6, [depth |-> 3, step |-> 1, max |-> 7]),
     Setting("reverse", 6, [depth |-> 4, step |-> 2, max |-> 7])}

Arbitrum ==
    {NitroSetting(0), NitroSetting(1), NitroSetting(2),
     DoubleSetting(0, 0), DoubleSetting(1, 1), DoubleSetting(0, 1),
     BoldSetting(0, Plain), BoldSetting(1, [asks |-> 2]),
     BoldSetting(1, [finishes |-> BOOLEAN]),
     BoldSetting(1, [fails |-> TRUE, asks |-> 2, step |-> 1])}

Signed ==
    {Setting("trusted", 3, [asks |-> 2, max |-> 2]),
     Setting("unchecked", 6, [max |-> 6, depth |-> 1, step |-> 1, allowHistorical |-> TRUE]),
     Setting("interactive", 4, [max |-> 4, window |-> 2, commitDepth |-> 2]),
     Setting("interactive", 4, [max |-> 4, commitDepth |-> 0, allowHistorical |-> TRUE]),
     Setting("self", 5, [max |-> 6, step |-> 2, depth |-> 3])}

Finalizing ==
    {Setting("linea", 5, [max |-> 3, firstCommitV3 |-> 0, commitDepth |-> 2]),
     Setting("linea", 5, [max |-> 3, firstCommitV3 |-> 2]),
     Setting("shnarfs", 4, [max |-> 2, minAge |-> 1, step |-> 2]),
     BatchSetting("scroll", [blobs |-> 2]), BatchSetting("morph", [commitDepth |-> 2]),
     BatchSetting("euclid", Plain), BatchSetting("zksync", [blobs |-> 2]),
     BatchSetting("zkevm", Plain),
     Setting("taiko", 5, [max |-> 3, sync |-> 1, span |-> 1]),
     Setting("taiko", 6, [max |-> 4, sync |-> 2, span |-> 1]),
     Setting("checkpoints", 5, [max |-> 3, deployed |-> 1, step |-> 2]),
     Setting("updates", 5, [max |-> 4, depth |-> 2, step |-> 2])}

MCSettings == Optimism \cup Arbitrum \cup Signed \cup Finalizing

\* Four games that build on each other in two ways.
MCGames == {GameSetting(1, {Succinct(1)}, [max |-> 4] @@ Forks)}
=============================================================================
