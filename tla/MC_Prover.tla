------------------------------ MODULE MC_Prover ------------------------------
EXTENDS Prover

CONSTANTS full, empty, eoa, s1, s2

Ask(op, t, slots) == [op |-> op, target |-> t, slots |-> slots, required |-> FALSE]

MCAsks ==
    {Ask("getProofs", full, <<s1, s2>>), Ask("getProofs", full, <<s2, s1>>),
     Ask("getProofs", full, <<s1, s1>>),
     Ask("getStorage", full, <<s1>>), Ask("getStorage", eoa, <<s1>>),
     Ask("isContract", full, <<>>), Ask("proveNeed", full, <<>>),
     Ask("proveNeed", full, <<s2>>), Ask("proveNeed", empty, <<s1>>)}

Prover_(kind, fast, short, batch, max) ==
    [kind |-> kind, fast |-> fast, short |-> short, batch |-> batch, max |-> max]

MCSettings ==
    {Prover_("eth", FALSE, TRUE, 2, 20),
     Prover_("eth", TRUE, FALSE, 1, 2),
     Prover_("linea", FALSE, TRUE, 2, 2),
     Prover_("zksync", FALSE, FALSE, 1, 20),
     Prover_("zkevm", FALSE, FALSE, 1, 0),
     Prover_("starknet", TRUE, TRUE, 2, 20),
     Prover_("starknet", FALSE, FALSE, 1, 20)}
=============================================================================
