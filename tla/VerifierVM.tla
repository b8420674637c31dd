----------------------------- MODULE VerifierVM -----------------------------
(***************************************************************************)
(* The contract's half of the request machine (contracts/GatewayVM.sol):   *)
(* it runs the same request against the proofs of a witness, one proof for *)
(* each read, in the order the witness gives.  Unlike the prover's machine *)
(* it keeps its program counter in the machine and a bit per stack slot    *)
(* that tells a number from a pointer to bytes.                            *)
(*                                                                         *)
(* The Merkle proofs are external and ideal: a proof is the account or the *)
(* slot it proves, and proves nothing else.                                *)
(***************************************************************************)
EXTENDS VMData

CONSTANTS
    MAX_STACK           \* 256

VARIABLES
    ops,                \* the request
    proofs,             \* ProofSequence.proofs
    order,              \* ProofSequence.order
    index,              \* ProofSequence.index, the reads made so far
    calls,              \* the activations of evalCommand(), the innermost last
    mach,               \* the Machine the innermost activation runs
    outs,               \* the outputs
    ret,                \* the exit code an activation is returning with
    result              \* idle; given or altered, a witness is on its way; run,
                        \* ok or revert

vars == <<ops, proofs, order, index, calls, mach, outs, ret, result>>

NoReturn == -1
NotAContract == -1      \* NOT_A_CONTRACT, the storage root of no account

\* createMachine().  A stack entry is its content; "raw" is what it really is.
Machine(buf) ==
    [buf |-> buf, pos |-> 0, stack |-> <<>>, bits |-> {}, target |-> 0,
     storageRoot |-> NotAContract, slot |-> 0]

Idle(request) ==
    /\ ops = request /\ proofs = <<>> /\ order = <<>> /\ index = 0 /\ calls = <<>>
    /\ mach = Machine(<<>>) /\ outs = <<>> /\ ret = NoReturn /\ result = "idle"

Call(kind, flags, left, saved) ==
    [kind |-> kind, flags |-> flags, left |-> left, saved |-> saved]

\* evalRequest()
EvalRequest(witnessProofs, witnessOrder) ==
    /\ result \in {"given", "altered"}
    /\ proofs' = witnessProofs
    /\ order' = witnessOrder
    /\ mach' = Machine(Tail(ops))
    /\ outs' = [i \in 1 .. Head(ops) |-> <<>>]
    /\ calls' = << Call("main", 0, 0, Machine(<<>>)) >>
    /\ result' = "run"
    /\ UNCHANGED <<ops, index, ret>>

----------------------------------------------------------------------------
\* while (vm.pos < vm.buf.length)
Fetching == result = "run" /\ ret = NoReturn /\ mach.pos < Len(mach.buf)
Opcode   == mach.buf[mach.pos + 1]
Operands == SubSeq(mach.buf, mach.pos + 2, Len(mach.buf))
At(o)    == Fetching /\ Opcode = o

Revert ==
    /\ result' = "revert"
    /\ UNCHANGED <<ops, proofs, order, index, calls, mach, outs, ret>>

Becomes(machine) ==
    /\ mach' = machine
    /\ UNCHANGED <<ops, proofs, order, index, calls, outs, ret, result>>

Moved(n) == [mach EXCEPT !.pos = @ + n]

Stack == mach.stack
Size == Len(Stack)
Arg(n) == Stack[Size - n].v             \* the n-th from the top, from 0
Num(n) == FirstWord(Arg(n))             \* popAsUint256()
Popped(n) == SubSeq(Stack, 1, Size - n)
IsStackRaw(m, i) == i \in m.bits

\* push(): the bit of the new top is toggled if it is not what it should be.
RawEntry(x)   == [raw |-> TRUE, v |-> Word(x)]
BytesEntry(v) == [raw |-> FALSE, v |-> v]

ToggledBits(m, i, raw) ==
    IF IsStackRaw(m, i) = raw THEN m.bits
    ELSE IF i \in m.bits THEN m.bits \ {i} ELSE m.bits \cup {i}

PushAs(m, entry, raw) ==
    [m EXCEPT !.stack = Append(@, entry), !.bits = ToggledBits(m, Len(m.stack) + 1, raw)]
Push(m, entry) == PushAs(m, entry, entry.raw)

PushAll(m, entries) ==
    LET upTo[i \in 0 .. Len(entries)] ==
            IF i = 0 THEN m ELSE Push(upTo[i - 1], entries[i])
    IN  upTo[Len(entries)]

\* The op takes n operands and pushes the entries.
Pushing(cells, n, entries) ==
    IF Size - n + Len(entries) > MAX_STACK THEN Revert
    ELSE Becomes(PushAll([Moved(cells) EXCEPT !.stack = Popped(n)], entries))

----------------------------------------------------------------------------
\* Proofs: readProof() takes the next ones, in order; beyond the end of the
\* order or of the proofs it panics.
CanRead(n) ==
    /\ index + n <= Len(order)
    /\ \A i \in 1 .. n : order[index + i] < Len(proofs)
NextProof(i) == proofs[order[index + i] + 1]

\* verifyAccountState() and verifyStorageValue()
ProvesAccount(proof, target) == proof.kind = "account" /\ proof.target = target
\* Mutant: any slot of the right account will do.
ProvesAnySlot(proof, slot) == proof.kind = "storage" /\ proof.target = mach.storageRoot

ProvesSlot(proof, slot) ==
    /\ proof.kind = "storage" /\ proof.slot = slot % W
    /\ proof.target = mach.storageRoot

\* getStorage() of each of the slots: they are words (the sum is checked) and
\* the next proofs prove them; with no contract the proofs are skipped.
CanProve(slots) ==
    /\ CanRead(Len(slots))
    /\ \A i \in DOMAIN slots :
        /\ slots[i] < W
        /\ mach.storageRoot = NotAContract \/ ProvesSlot(NextProof(i), slots[i])

\* What they prove.
Values(slots) ==
    [i \in DOMAIN slots |->
        IF mach.storageRoot = NotAContract THEN 0
        ELSE StorageAt(NextProof(i).target, NextProof(i).slot)]

\* A read of the first slots and of those their content leads to.
Read(cells, n, count, slots, v) ==
    IF Size - n >= MAX_STACK \/ ~CanRead(count) THEN Revert
    ELSE IF ~CanProve(slots) THEN Revert
    ELSE /\ index' = index + count
         /\ mach' = Push([Moved(cells) EXCEPT !.stack = Popped(n)], BytesEntry(v))
         /\ UNCHANGED <<ops, proofs, order, calls, outs, ret, result>>

\* proveSlots()
ReadSlots ==
    \/ At(OP.READ_SLOT)
       /\ LET slots == SlotRange(mach.slot, 1) IN Read(1, 0, 1, slots, Words(Values(slots)))
    \/ At(OP.READ_SLOTS)
       /\ IF Size < 1 THEN Revert
          ELSE LET slots == SlotRange(mach.slot, Num(0))
               IN  Read(1, 1, Num(0), slots, Words(Values(slots)))

\* The word in the current slot, as far as the next proof proves it.
First == Values(<<mach.slot>>)[1]

\* proveBytes(): large strings are as long as the first slot says, small ones
\* are cut out of it.
ReadBytes ==
    /\ At(OP.READ_BYTES)
    /\ IF ~CanRead(1) THEN Revert
       ELSE IF ~CanProve(<<mach.slot>>) THEN Revert
       ELSE LET small == First % 2 = 0
                size  == IF small THEN (First % Base) \div 2 ELSE First \div 2
                more  == IF small THEN 0 ELSE CeilDiv(size, WordCells)
                slots == <<mach.slot>> \o SlotRange(ArrayStart(mach.slot), more)
            IN  Read(1, 0, 1 + more, slots,
                     IF small THEN Prefix(Word(First) \o Zeros(size), size)
                     ELSE Prefix(Words(Tail(Values(slots))), size))

\* proveArray()
ReadArray ==
    /\ At(OP.READ_ARRAY)
    /\ IF Size < 1 \/ ~CanRead(1) THEN Revert
       ELSE IF ~CanProve(<<mach.slot>>) \/ Num(0) = 0 THEN Revert
       ELSE LET step  == Num(0)
                count == IF step < WordCells THEN CeilDiv(First, WordCells \div step)
                         ELSE First * CeilDiv(step, WordCells)
                slots == <<mach.slot>> \o SlotRange(ArrayStart(mach.slot), count)
            IN  Read(1, 1, 1 + count, slots, Words(Values(slots)))

ReadHashedBytes ==
    /\ At(OP.READ_HASHED_BYTES)
    /\ IF ~CanRead(1) \/ Size < 1 THEN Revert
       ELSE IF Hash(NextProof(1).v) # Num(0) THEN Revert
       ELSE /\ index' = index + 1
            /\ mach' = Push([Moved(1) EXCEPT !.stack = Popped(1)], BytesEntry(NextProof(1).v))
            /\ UNCHANGED <<ops, proofs, order, calls, outs, ret, result>>

SetTarget ==
    /\ At(OP.SET_TARGET)
    /\ IF Size < 1 \/ ~CanRead(1) THEN Revert
       ELSE LET target == Num(0) % AddrMax
            IN  IF ~ProvesAccount(NextProof(1), target) THEN Revert
                ELSE /\ index' = index + 1
                     /\ mach' = [Moved(1) EXCEPT
                            !.stack = Popped(1), !.target = target, !.slot = 0,
                            !.storageRoot = IF target \in Contracts THEN target
                                            ELSE NotAContract]
                     /\ UNCHANGED <<ops, proofs, order, calls, outs, ret, result>>

----------------------------------------------------------------------------
\* Literals, registers, outputs and the stack.
PushLiteral ==
    /\ Fetching /\ Opcode <= WordCells
    /\ IF Len(Operands) < Opcode THEN Revert
       ELSE Pushing(1 + Opcode, 0, << RawEntry(Number(Prefix(Operands, Opcode))) >>)

PushBytes ==
    /\ At(OP.PUSH_BYTES)
    /\ LET n    == Head(Operands)
           size == Number(SubSeq(Operands, 2, n + 1))
       IN  IF Operands = <<>> THEN Revert
           ELSE IF n > WordCells \/ Len(Operands) < n + 1 THEN Revert
           ELSE IF Len(Operands) < n + 1 + size THEN Revert
           ELSE Pushing(2 + n + size, 0, << BytesEntry(SubSeq(Operands, n + 2, n + 1 + size)) >>)

SetSlot ==
    /\ Fetching /\ Opcode \in {OP.SET_SLOT, OP.ADD_SLOT, OP.FOLLOW}
    /\ IF Size < 1 THEN Revert
       ELSE LET slot == CASE Opcode = OP.SET_SLOT -> Num(0)
                          [] Opcode = OP.ADD_SLOT -> mach.slot + Num(0)
                          [] Opcode = OP.FOLLOW   -> Hash(Arg(0) \o Word(mach.slot))
            IN  IF slot >= W THEN Revert                    \* checked addition
                ELSE Becomes([Moved(1) EXCEPT !.slot = slot, !.stack = Popped(1)])

GetRegister ==
    \/ At(OP.GET_SLOT)    /\ Pushing(1, 0, << RawEntry(mach.slot) >>)
    \/ At(OP.GET_TARGET)  /\ Pushing(1, 0, << BytesEntry(AddressBytes(mach.target)) >>)
    \/ At(OP.STACK_SIZE)  /\ Pushing(1, 0, << RawEntry(Size) >>)
    \/ At(OP.IS_CONTRACT)
       /\ Pushing(1, 0, << RawEntry(IF mach.storageRoot # NotAContract THEN 1 ELSE 0) >>)

SetOutput ==
    /\ At(OP.SET_OUTPUT)
    /\ IF Size < 2 \/ Num(0) >= Len(outs) THEN Revert
       ELSE /\ outs' = [outs EXCEPT ![Num(0) + 1] = Arg(1)]
            /\ mach' = [Moved(1) EXCEPT !.stack = Popped(2)]
            /\ UNCHANGED <<ops, proofs, order, index, calls, ret, result>>

PushOutput ==
    /\ At(OP.PUSH_OUTPUT)
    /\ IF Size < 1 \/ Num(0) >= Len(outs) THEN Revert
       ELSE Pushing(1, 1, << BytesEntry(outs[Num(0) + 1]) >>)

\* The raw bit travels with the entry, whatever was in the slot before.
Copied(i) ==
    Becomes(PushAs([Moved(1) EXCEPT !.stack = Popped(1)], Stack[i], IsStackRaw(mach, i)))

CopyStack ==
    \/ /\ At(OP.PUSH_STACK)
       /\ IF Size < 1 \/ Num(0) >= Size - 1 THEN Revert ELSE Copied(Num(0) + 1)
    \/ /\ At(OP.DUP)
       /\ IF Size < 1 \/ Num(0) >= Size - 1 THEN Revert ELSE Copied(Size - 1 - Num(0))

\* Mutant: the bits stay where they are.
SwappedBitsNot(i, j) == mach.bits

\* SWAP exchanges the entries, and their bits if they differ.
SwappedBits(i, j) ==
    IF IsStackRaw(mach, i) = IsStackRaw(mach, j) THEN mach.bits
    ELSE (mach.bits \ {i, j}) \cup ({i, j} \ mach.bits)

Swap ==
    /\ At(OP.SWAP)
    /\ IF Size < 1 \/ Num(0) >= Size - 1 THEN Revert
       ELSE LET i == Size - 1 - Num(0)
                j == Size - 1
            IN  Becomes([Moved(1) EXCEPT
                    !.stack = [Popped(1) EXCEPT ![i] = Stack[j], ![j] = Stack[i]],
                    !.bits = SwappedBits(i, j)])

Pop == At(OP.POP) /\ Becomes([Moved(1) EXCEPT !.stack = IF @ = <<>> THEN @ ELSE Front(@)])

----------------------------------------------------------------------------
\* Computation.  Arithmetic is unchecked, except where the comment says so.
PowerMod(a, b) ==
    LET square[i \in Nat] == IF i = 0 THEN a ELSE (square[i - 1] * square[i - 1]) % W
        upTo[i \in 0 .. CellBits * WordCells] ==
            IF i = 0 THEN 1
            ELSE (upTo[i - 1] * IF Has(b, 2 ^ (i - 1)) THEN square[i - 1] ELSE 1) % W
    IN  upTo[CellBits * WordCells]

Bool(b) == IF b THEN 1 ELSE 0

Binary == {OP.PLUS, OP.TIMES, OP.DIVIDE, OP.MOD, OP.POW, OP.AND, OP.OR, OP.XOR,
           OP.SHIFT_LEFT, OP.SHIFT_RIGHT, OP.EQ, OP.LT, OP.GT}

\* "last" is on top of the stack; Solidity evaluates the right operand of "<<"
\* and ">>" first, so the shift is on top too.
BinaryResult(o, a, last) ==
    CASE o = OP.PLUS   -> (a + last) % W
      [] o = OP.TIMES  -> (a * last) % W
      [] o = OP.DIVIDE -> a \div last
      [] o = OP.MOD    -> a % last
      [] o = OP.POW    -> PowerMod(a, last)
      [] o = OP.AND    -> Bitwise2(<<0, 0, 1>>, a, last)
      [] o = OP.OR     -> Bitwise2(<<0, 1, 1>>, a, last)
      [] o = OP.XOR    -> Bitwise2(<<0, 1, 0>>, a, last)
      [] o = OP.SHIFT_LEFT  -> IF last >= CellBits * WordCells THEN 0 ELSE (a * 2 ^ last) % W
      [] o = OP.SHIFT_RIGHT -> IF last >= CellBits * WordCells THEN 0 ELSE a \div 2 ^ last
      [] o = OP.EQ -> Bool(a = last)
      [] o = OP.LT -> Bool(a < last)
      [] o = OP.GT -> Bool(a > last)

Arithmetic ==
    /\ Fetching /\ Opcode \in Binary
    /\ IF Size < 2 \/ (Opcode \in {OP.DIVIDE, OP.MOD} /\ Num(0) = 0) THEN Revert
       ELSE Pushing(1, 2, << RawEntry(BinaryResult(Opcode, Num(1), Num(0))) >>)

\* Slice, chunk and concatenation; a slice beyond the end reads zeros.
Sliced(v, pos, size) ==
    LET end == pos + size
    IN  IF end <= Len(v) THEN SubSeq(v, pos + 1, end)
        ELSE IF pos >= Len(v) THEN Zeros(size)
        ELSE SubSeq(v, pos + 1, Len(v)) \o Zeros(end - Len(v))

Chunks(v, chunk) ==
    LET end == Len(v) - (Len(v) % chunk)
    IN  [j \in 1 .. end \div chunk |->
            BytesEntry(SubSeq(v, end - j * chunk + 1, end - (j - 1) * chunk))]

Strings ==
    \/ /\ At(OP.SLICE)
       /\ IF Size < 3 THEN Revert
          ELSE IF Num(1) + Num(0) >= W THEN Revert          \* checked
          ELSE Pushing(1, 3, << BytesEntry(Sliced(Arg(2), Num(1), Num(0))) >>)
    \/ /\ At(OP.CHUNK)
       /\ IF Size < 2 THEN Revert
          ELSE Pushing(1, 2, IF Num(0) = 0 THEN <<>> ELSE Chunks(Arg(1), Num(0)))
    \/ /\ At(OP.CONCAT)
       /\ IF Size < 2 THEN Revert ELSE Pushing(1, 2, << BytesEntry(Arg(1) \o Arg(0)) >>)

Unary ==
    /\ Fetching /\ Opcode \in {OP.KECCAK, OP.LENGTH, OP.NOT, OP.IS_ZERO}
    /\ IF Size < 1 THEN Revert
       ELSE Pushing(1, 1, << RawEntry(
                CASE Opcode = OP.KECCAK  -> Hash(Arg(0))
                  [] Opcode = OP.LENGTH  -> Len(Arg(0))
                  [] Opcode = OP.NOT     -> W - 1 - Num(0)
                  [] Opcode = OP.IS_ZERO -> Bool(IsZeros(Arg(0)))) >>)

----------------------------------------------------------------------------
\* Control.  evalCommand() returns by ASSERT or by running off its buffer.
Returns(code) ==
    /\ ret' = code
    /\ UNCHANGED <<ops, proofs, order, index, calls, mach, outs, result>>

RunsOff == result = "run" /\ ret = NoReturn /\ mach.pos >= Len(mach.buf) /\ Returns(0)

AssertNonzero ==
    /\ At(OP.ASSERT)
    /\ IF Operands = <<>> \/ Size < 1 THEN Revert
       ELSE IF IsZeros(Arg(0))
            THEN /\ ret' = Head(Operands)
                 /\ mach' = [Moved(2) EXCEPT !.stack = Popped(1)]
                 /\ UNCHANGED <<ops, proofs, order, index, calls, outs, result>>
            ELSE Becomes([Moved(2) EXCEPT !.stack = Popped(1)])

\* EVAL replaces the buffer of the machine and saves it in the activation.
Eval ==
    /\ At(OP.EVAL)
    /\ IF Size < 2 THEN Revert
       ELSE IF IsZeros(Arg(0)) THEN Becomes([Moved(1) EXCEPT !.stack = Popped(2)])
       ELSE /\ calls' = Append(calls, Call("eval", 0, 0, [Moved(1) EXCEPT !.stack = <<>>]))
            /\ mach' = [mach EXCEPT !.buf = Arg(1), !.pos = 0, !.stack = Popped(2)]
            /\ UNCHANGED <<ops, proofs, order, index, outs, ret, result>>

\* One turn of EVAL_LOOP on the machine vm2: target, root and slot are reset,
\* the position and the stack too, the buffer and the bits stay.
Turn(vm2, outer) ==
    PushAs([vm2 EXCEPT !.pos = 0, !.stack = <<>>, !.target = outer.target,
                       !.storageRoot = outer.storageRoot, !.slot = outer.slot],
           Last(outer.stack), IsStackRaw(outer, Len(outer.stack)))

Rest(outer) == [outer EXCEPT !.stack = Front(@)]

EvalLoop ==
    /\ At(OP.EVAL_LOOP)
    /\ IF Operands = <<>> \/ Size < 2 THEN Revert
       ELSE LET outer == [Moved(2) EXCEPT !.stack = Popped(2)]
                count == Smaller(Num(0), Len(outer.stack))
            IN  IF count = 0 THEN Becomes(outer)
                ELSE /\ calls' = Append(calls,
                            Call("loop", Head(Operands), count - 1, Rest(outer)))
                     /\ mach' = Turn(Machine(Arg(1)), outer)
                     /\ UNCHANGED <<ops, proofs, order, index, outs, ret, result>>

Returned(kind) == result = "run" /\ ret # NoReturn /\ Last(calls).kind = kind

ReturnMain ==
    /\ Returned("main")
    /\ calls' = <<>>
    /\ result' = "ok"
    /\ UNCHANGED <<ops, proofs, order, index, mach, outs, ret>>

\* "if (exitCode != 0) return exitCode", and only then the program is restored.
RestoredBy(code, saved) ==
    IF code # 0 THEN mach ELSE [mach EXCEPT !.buf = saved.buf, !.pos = saved.pos]

ReturnEval ==
    /\ Returned("eval")
    /\ calls' = Front(calls)
    /\ mach' = RestoredBy(ret, Last(calls).saved)
    /\ ret' = IF ret # 0 THEN ret ELSE NoReturn
    /\ UNCHANGED <<ops, proofs, order, index, outs, result>>

\* The outer machine takes over the stack of the inner one, entry by entry.
Acquired(outer, vm2) ==
    LET upTo[i \in 0 .. Len(vm2.stack)] ==
            IF i = 0 THEN [outer EXCEPT !.target = vm2.target, !.slot = vm2.slot,
                                        !.storageRoot = vm2.storageRoot]
            ELSE PushAs(upTo[i - 1], vm2.stack[i], IsStackRaw(vm2, i))
    IN  upTo[Len(vm2.stack)]

ReturnTurn ==
    /\ Returned("loop")
    /\ LET loop  == Last(calls)
           outer == loop.saved
           stop  == Has(loop.flags, IF ret # 0 THEN STOP_ON_FAILURE ELSE STOP_ON_SUCCESS)
           kept  == IF Has(loop.flags, KEEP_ARGS) THEN outer
                    ELSE [outer EXCEPT !.stack = SubSeq(@, 1, Len(@) - loop.left)]
       IN  IF stop /\ Has(loop.flags, ACQUIRE_STATE)
              /\ Len(kept.stack) + Size > MAX_STACK
           THEN Revert
           ELSE /\ ret' = NoReturn
                /\ IF ~stop /\ loop.left > 0
                   THEN /\ mach' = Turn(mach, outer)
                        /\ calls' = Append(Front(calls),
                                Call("loop", loop.flags, loop.left - 1, Rest(outer)))
                   ELSE /\ calls' = Front(calls)
                        /\ mach' = IF ~stop THEN outer
                                     ELSE IF Has(loop.flags, ACQUIRE_STATE)
                                     THEN Acquired(kept, mach) ELSE kept
                /\ UNCHANGED <<ops, proofs, order, index, outs, result>>

Debug ==
    /\ At(OP.DEBUG)
    /\ IF Operands = <<>> THEN Revert
       ELSE IF Len(Operands) <= Head(Operands) THEN Revert
       ELSE Becomes(Moved(2 + Head(Operands)))

UnknownOp ==
    /\ Fetching
    /\ Opcode > WordCells
    /\ \A name \in DOMAIN OP : OP[name] # Opcode
    /\ Revert

Next ==
    \/ PushLiteral \/ PushBytes \/ SetTarget \/ SetSlot \/ GetRegister
    \/ SetOutput \/ PushOutput \/ CopyStack \/ Swap \/ Pop
    \/ Arithmetic \/ Strings \/ Unary
    \/ ReadSlots \/ ReadBytes \/ ReadArray \/ ReadHashedBytes
    \/ RunsOff \/ AssertNonzero \/ Eval \/ EvalLoop
    \/ ReturnMain \/ ReturnEval \/ ReturnTurn \/ Debug \/ UnknownOp

----------------------------------------------------------------------------
\* The bit of every live stack slot tells truly whether it holds a number or a
\* pointer, whatever stale bits pops, swaps and loops left behind.
RawBitsTrue(m) == \A i \in DOMAIN m.stack : m.stack[i].raw <=> IsStackRaw(m, i)

\* Types.
IsMachine(m) ==
    /\ m.buf \in Bytes /\ m.pos \in Nat /\ m.slot \in 0 .. W - 1
    /\ m.target \in 0 .. AddrMax - 1 /\ m.storageRoot \in Contracts \cup {NotAContract}
    /\ Len(m.stack) <= MAX_STACK /\ m.bits \subseteq 1 .. MAX_STACK
    /\ \A i \in DOMAIN m.stack :
        /\ m.stack[i].v \in Bytes
        /\ m.stack[i].raw => Len(m.stack[i].v) = WordCells

TypeOK ==
    /\ index \in 0 .. Len(order)
    /\ \A i \in DOMAIN order : order[i] \in Nat
    /\ IsMachine(mach)
    /\ \A i \in DOMAIN calls : calls[i].left \in Nat /\ IsMachine(calls[i].saved)
    /\ \A i \in DOMAIN outs : outs[i] \in Bytes
    /\ ret \in Cell \cup {NoReturn}
    /\ result \in {"idle", "given", "altered", "run", "ok", "revert"}
=============================================================================
