------------------------------ MODULE MC_Gateway ------------------------------
EXTENDS Gateway, TLC

Symmetry == Permutations(Caller)

Setting(depth, historical, max) ==
    [commitDepth |-> depth, allowHistorical |-> historical, callMax |-> max]
MCSettings == {Setting(1, FALSE, 3), Setting(0, TRUE, 1), Setting(0, TRUE, 0)}
MCDeep     == {Setting(1, FALSE, 1000)}
MCLive     == {Setting(1, FALSE, 1), Setting(0, TRUE, 0)}
=============================================================================
