-------------------------- MODULE RequestProtocol --------------------------
(***************************************************************************)
(* One request, end to end: the gateway evaluates it and gathers the       *)
(* proofs (ProverVM, src/vm.ts), and the contract replays it against them  *)
(* (VerifierVM, contracts/GatewayVM.sol).                                  *)
(***************************************************************************)
EXTENDS VMData, FiniteSets

CONSTANTS
    Programs,       \* the requests tried: a count of outputs, then the ops
    CostOnly,       \* those of them that fail for their cost or not at all
    Altered,        \* those of them another gateway may answer differently
    RequestsV1,     \* the requests of the first protocol tried
    MaxStackSize, MaxUniqueProofs, MaxAllocBytes, MaxSuppliedBytes, MaxEvalDepth,
    NumMax, IntBits, MaxBits, OrderIds, RequireTargetBeforeSlot, Unproven,
    MAX_STACK, MaxConsts, CommandSize

ASSUME RequestAssumption ==
    /\ Programs \subseteq Bytes /\ CostOnly \subseteq Bytes /\ Altered \subseteq Bytes
    /\ MaxStackSize \in Nat /\ MaxUniqueProofs \in Nat /\ MaxAllocBytes \in Nat
    /\ MaxSuppliedBytes \in Nat /\ MaxEvalDepth \in Nat /\ NumMax \in Nat
    /\ IntBits \in Nat \ {0} /\ MaxBits \in Nat /\ OrderIds \in Nat \ {0}
    /\ RequireTargetBeforeSlot \in BOOLEAN
    /\ Unproven \subseteq Bytes
    /\ MAX_STACK \in Nat
    /\ MaxConsts \in Nat \ {0} /\ CommandSize \in Nat \ {0, 1}

VARIABLES
    frames, vm, outputs, needs, required, proofBudget, allocBudget, futures, status,
    ops, proofs, order, index, calls, mach, outs, ret, result,
    asked           \* the request of the first protocol that was asked, if any

P == INSTANCE ProverVM
V == INSTANCE VerifierVM
R == INSTANCE RequestV1

proverVars   == <<frames, vm, outputs, needs, required, proofBudget, allocBudget,
                  futures, status>>
verifierVars == <<ops, proofs, order, index, calls, mach, outs, ret, result>>
vars         == <<proverVars, verifierVars, asked>>

\* proveRequest() runs the program it is given, getStorageSlots() the one that
\* v2() makes of the commands it is given.
Begin(request) == P!Begin(request) /\ V!Idle(request)

Init ==
    \/ \E request \in Programs : Begin(request) /\ asked = {}
    \/ \E r \in RequestsV1 : Begin(R!V2(r)) /\ asked = {r}

\* evalDecoded() and prove()
Evaluate == P!Next /\ UNCHANGED <<verifierVars, asked>>

\* encodeWitness(): what prove() made is on its way.
Respond ==
    /\ status = "ok" /\ result = "idle"
    /\ proofs' = P!Proofs
    /\ order' = P!Order
    /\ result' = "given"
    /\ UNCHANGED <<proverVars, ops, index, calls, mach, outs, ret, asked>>

\* A gateway that answers with something else: some id of the order is another
\* one, the last read has no proof, or one too many is there.
RespondOther ==
    /\ result = "given" /\ ops \in Altered
    /\ LET ids == 0 .. Len(proofs)
       IN  order' \in { [order EXCEPT ![i] = id] : i \in DOMAIN order, id \in ids } \cup
                      { Append(order, id) : id \in ids } \cup
                      (IF order = <<>> THEN {} ELSE { Front(order) })
    /\ result' = "altered"
    /\ UNCHANGED <<proverVars, ops, proofs, index, calls, mach, outs, ret, asked>>

\* The callback, getStorageValues() of the rollup's verifier
Deliver ==
    /\ result \in {"given", "altered"}
    /\ V!EvalRequest(proofs, order)
    /\ UNCHANGED <<proverVars, asked>>

Verify == V!Next /\ UNCHANGED <<proverVars, asked>>

\* Nothing else is left to do.
Finished == status \in {"error", "callback"} \/ result \in {"ok", "revert"}
Stays == Finished /\ UNCHANGED vars

Next == Evaluate \/ Respond \/ RespondOther \/ Deliver \/ Verify \/ Stays

Spec == Init /\ [][Next]_vars

----------------------------------------------------------------------------
TypeOK == P!TypeOK /\ V!TypeOK /\ asked \subseteq RequestsV1

\* Some bytes of READ_HASHED_BYTES, which nothing proves and which are read at
\* the latest block, are not the ones whose hash the request gives.
WrongBytes ==
    \E i \in DOMAIN needs : needs[i].kind = "hashed" /\ Hash(needs[i].v) # needs[i].hash

\* The gateway's answer is accepted: what prove() puts into the witness, and
\* the order it puts it in, is what evalCommand() reads and verifies, at every
\* read; only bytes that nothing proves may still be refused.
Accepted == result = "revert" /\ order = P!Order => WrongBytes

\* Both machines, in TypeScript and in Solidity, compute the same outputs and
\* the same exit code from the same request; and so, from a gateway that sends
\* other proofs, the contract accepts no other answer.
SameAnswer ==
    result = "ok" /\ status = "ok" /\ ~WrongBytes =>
        /\ outs = [i \in DOMAIN outputs |-> outputs[i].v]
        /\ ret = vm.exitCode

\* The contract stops reading exactly where the order of prove() ends: nothing
\* the gateway recorded as a need was left unread.
OrderExhausted == result = "ok" /\ order = P!Order => index = Len(order)

\* The bit kept for each stack slot (stackBits) tells truly whether it holds a
\* number or a pointer, for the machine at work and for those it will return
\* to, whatever stale bits pops, swaps and the reuse of vm2 left behind.
RawBits ==
    /\ V!RawBitsTrue(mach)
    /\ \A i \in DOMAIN calls : calls[i].kind = "loop" => V!RawBitsTrue(calls[i].saved)

\* The proof budget has paid for exactly the proofs known to be needed.
BudgetExact == P!BudgetExact

\* A request is refused only if it costs more proofs than it may, in whatever
\* order its storage reads are answered and whichever of its checks fails
\* first.
RefusedForCost ==
    status \in {"error", "callback"} /\ ops \in CostOnly =>
        P!Spent(DOMAIN futures) + P!NextCost > MaxUniqueProofs

\* Every request is answered or refused, by another gateway too: no evaluation
\* waits for a promise that nobody settles, and no read of the contract for a
\* proof that nobody sends.  (No step of either machine can be undone, so that
\* to be able to go on is to come to an end.)
NeverStuck == ops \in Altered => ENABLED Next

\* What v2() makes of a request of the first protocol asks for what the calls of
\* its builder meant: the machine computes the same values, under keys that other
\* values of the request give too, and proveV1() has the account's proof and one
\* of each slot, in the order a verifier of that protocol meets them.
MeansTheSame ==
    \A r \in asked : status \notin {"run", "evaluated"} =>
        LET meant == R!Meant(r)
            slots == FlattenSeq([i \in DOMAIN meant |-> meant[i].slots])
        IN  /\ status = "ok"
            /\ [i \in DOMAIN outputs |-> outputs[i].v] = [i \in DOMAIN meant |-> meant[i].v]
            /\ P!RequireV1Needs
            /\ P!ProofsV1 =
                [accountProof |-> P!AccountProof(r.target),
                 storageProofs |-> [i \in DOMAIN slots |-> P!StorageProof(r.target, slots[i])]]
=============================================================================
