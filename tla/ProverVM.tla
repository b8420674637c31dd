------------------------------ MODULE ProverVM ------------------------------
(***************************************************************************)
(* The gateway's half of the request machine (src/vm.ts): GatewayVM and    *)
(* AbstractProver.eval() run a request against the committed block, and    *)
(* GatewayTrace records, in the order the verifier will ask for them, the  *)
(* proofs it needs and what they cost.  Values are lazy promises: the      *)
(* length of a string in storage, and so the slots that prove it, is known *)
(* only once somebody awaits it, and several may be awaited at once.       *)
(* prove() then turns the recorded needs into distinct proofs and an order.*)
(***************************************************************************)
EXTENDS VMData, FiniteSets

CONSTANTS
    MaxStackSize,       \* maxStackSize, 64
    MaxUniqueProofs,    \* maxUniqueProofs, 128
    MaxAllocBytes,      \* maxAllocBytes
    MaxSuppliedBytes,   \* maxSuppliedBytes
    MaxEvalDepth,       \* maxEvalDepth, 5
    NumMax,             \* the largest operand used as a number, 0x1fffffff
    IntBits,            \* the width of the "<<" operator, 32
    MaxBits,            \* the bits of the largest BigInt, 2^30 in V8
    OrderIds,           \* the proof ids a byte of the order can hold, 256
    RequireTargetBeforeSlot,    \* an account proof precedes the storage proofs
    Unproven            \* what readBytesAt() of a contract may answer instead
                        \* of the bytes at the committed block

VARIABLES
    frames,         \* the calls of eval(), the innermost last
    vm,             \* the GatewayVM they run: target, slot, stack, exitCode
    outputs,        \* GatewayVM.outputs, shared by the loops' machines
    needs,          \* GatewayTrace.needs
    required,       \* the targets marked .required
    proofBudget,    \* GatewayTrace.proofBudget
    allocBudget,    \* GatewayTrace.allocBudget
    futures,        \* the lazy reads made, and how far each is
    status          \* run, evaluated, ok; or how the request failed

vars == <<frames, vm, outputs, needs, required, proofBudget, allocBudget,
          futures, status>>

\* A value on the stack, and the future (0 for none) it waits for.
Plain(v)   == [v |-> v, f |-> 0]
Later(v, f) == [v |-> v, f |-> f]

\* A need; "at" is the target the machine had, for the properties only.
TargetNeed(t)       == [kind |-> "target", n |-> t, v |-> <<>>, at |-> t, hash |-> 0]
SlotNeed(t, s)      == [kind |-> "slot", n |-> s, v |-> <<>>, at |-> t, hash |-> 0]
SlotNeeds(t, slots) == [i \in DOMAIN slots |-> SlotNeed(t, slots[i])]
PendingNeed(t, f)   == [kind |-> "pending", n |-> f, v |-> <<>>, at |-> t, hash |-> 0]
HashedNeed(t, f, v, hash) ==
    [kind |-> "hashed", n |-> f, v |-> v, at |-> t, hash |-> hash]

Machine(stack) == [target |-> 0, slot |-> 0, stack |-> stack, exitCode |-> 0]

Frame(kind, code, flags, left, outer) ==
    [kind |-> kind, code |-> code, pos |-> 0, flags |-> flags, left |-> left,
     outer |-> outer]

\* evalReader(): the first byte of the request is the number of outputs.
Begin(request) ==
    /\ frames = << Frame("main", Tail(request), 0, 0, Machine(<<>>)) >>
    /\ vm = Machine(<<>>)
    /\ outputs = [i \in 1 .. Head(request) |-> Plain(<<>>)]
    /\ needs = <<>>
    /\ required = {}
    /\ proofBudget = MaxUniqueProofs
    /\ allocBudget = MaxAllocBytes
    /\ futures = <<>>
    /\ status = "run"

----------------------------------------------------------------------------
\* Reading the program.
Top      == Last(frames)
Fetching == status = "run" /\ frames # <<>> /\ Top.pos < Len(Top.code)
Opcode   == Top.code[Top.pos + 1]
Operands == SubSeq(Top.code, Top.pos + 2, Len(Top.code))

Moved(n)  == [frames EXCEPT ![Len(frames)].pos = @ + n]
Returning(fs) == [fs EXCEPT ![Len(fs)].pos = Len(fs[Len(fs)].code)]

Fault(why) ==
    /\ status' = why
    /\ UNCHANGED <<frames, vm, outputs, needs, required, proofBudget, allocBudget,
                   futures>>

\* The stack.
Stack == vm.stack
Values == [i \in DOMAIN Stack |-> Stack[i].v]
Popped(n) == SubSeq(Stack, 1, Len(Stack) - n)
Arg(n) == Stack[Len(Stack) - n].v       \* the n-th from the top, from 0
CanPush(stack, n) == Len(stack) + n <= MaxStackSize

\* numberFromHex() throws above NumMax; "|0" and "<<" wrap.
IsNumber(v) == FirstWord(v) <= NumMax
Int32(n) == ((n + 2 ^ (IntBits - 1)) % 2 ^ IntBits) - 2 ^ (IntBits - 1)
ByteSize(words) == Int32(words * WordCells)
\* Mutant: proofs are taken for bytes.
RemainingProofs == proofBudget

RemainingProvableBytes == ByteSize(proofBudget)

\* addressFromHex()
AddressOf(v) ==
    IF Len(v) >= WordCells
    THEN Number(SubSeq(v, WordCells - AddrCells + 1, WordCells))
    ELSE Number(Suffix(Zeros(AddrCells) \o v, AddrCells))

----------------------------------------------------------------------------
\* GatewayTrace: each addSlots() and requireTarget() pays for proofs first.
Seen == {needs[i].n : i \in {j \in DOMAIN needs : needs[j].kind = "target"}}

\* Mutant: a target that was marked before is paid for again.
NewTargetAgain(t) == IF t \in Seen THEN {t} ELSE {}

NewTarget(t) == IF t \in Seen \ required THEN {t} ELSE {}

\* What addSlots(target, count slots) marks as required, and what it costs.
SlotTargets(t) == IF t # 0 /\ RequireTargetBeforeSlot THEN NewTarget(t) ELSE {}
SlotCost(t, count) ==
    IF t = 0 THEN 0 ELSE Cardinality(SlotTargets(t)) + count

\* Operands an op takes off the stack and awaits before it does anything.
Binary == {OP.PLUS, OP.TIMES, OP.DIVIDE, OP.MOD, OP.POW, OP.AND, OP.OR, OP.XOR,
           OP.SHIFT_LEFT, OP.SHIFT_RIGHT, OP.EQ, OP.LT, OP.GT}
Arity ==
    [o \in Cell |->
        CASE o \in {OP.SET_TARGET, OP.FOLLOW, OP.SET_SLOT, OP.ADD_SLOT, OP.SET_OUTPUT,
                    OP.PUSH_OUTPUT, OP.PUSH_STACK, OP.DUP, OP.SWAP, OP.READ_SLOTS,
                    OP.READ_ARRAY, OP.ASSERT, OP.KECCAK, OP.LENGTH, OP.IS_ZERO,
                    OP.NOT} -> 1
          [] o \in Binary \cup {OP.CONCAT, OP.CHUNK, OP.EVAL_LOOP, OP.EVAL} -> 2
          [] o = OP.SLICE -> 3
          [] OTHER -> 0]

FuturesOf(items) == {items[i].f : i \in DOMAIN items} \ {0}
Unsettled(fs) == {f \in fs : futures[f].state # "done"}

AwaitedBy(o) ==
    IF Len(Stack) < Arity[o] THEN {}
    ELSE CASE o = OP.EVAL ->            \* the condition first, then the code
                IF Unsettled(FuturesOf(Suffix(Stack, 1))) # {} \/ IsZeros(Arg(0))
                THEN FuturesOf(Suffix(Stack, 1)) ELSE FuturesOf(Suffix(Stack, 2))
           [] o = OP.DEBUG -> FuturesOf(Stack) \cup FuturesOf(outputs)
           [] OTHER -> FuturesOf(Suffix(Stack, Arity[o]))

\* What is being awaited now: by the next op, by the end of evalReader() for
\* every size, or by prove() for the unproven bytes.
Awaited ==
    CASE Fetching -> AwaitedBy(Opcode)
      [] status = "run" /\ frames = <<>> ->
            {f \in DOMAIN futures : futures[f].kind # "hashed"}
      [] status = "evaluated" -> DOMAIN futures
      [] OTHER -> {}

\* The op at hand may execute: it is o, its operands are there and settled.
At(o) == Fetching /\ Opcode = o /\ Len(Stack) >= Arity[o] /\ Unsettled(Awaited) = {}

\* popNumber(), popSlice(), pop(): "stack underflow"
Underflow ==
    /\ Fetching /\ Len(Stack) < Arity[Opcode]
    /\ Fault("error")

\* Most ops only change the machine, by a push that may overflow the stack.
Becomes(n, machine) ==
    /\ frames' = Moved(n)
    /\ vm' = machine
    /\ UNCHANGED <<outputs, needs, required, proofBudget, allocBudget, futures, status>>

Pushing(n, rest, items) ==
    IF CanPush(rest, Len(items))
    THEN Becomes(n, [vm EXCEPT !.stack = rest \o items])
    ELSE Fault("error")

----------------------------------------------------------------------------
\* Literals: PUSH_0 .. PUSH_32 and PUSH_BYTES.
PushLiteral ==
    /\ Fetching /\ Opcode <= WordCells
    /\ IF Len(Operands) < Opcode THEN Fault("error")
       ELSE Pushing(1 + Opcode, Stack, << Plain(Word(Number(Prefix(Operands, Opcode)))) >>)

PushBytes ==
    /\ At(OP.PUSH_BYTES)
    /\ LET n    == Operands[1]                          \* readUint()
           size == Number(SubSeq(Operands, 2, n + 1))
       IN  IF Operands = <<>> \/ n > WordCells \/ Len(Operands) < n + 1 THEN Fault("error")
           ELSE IF Len(Operands) < n + 1 + size THEN Fault("error")
           ELSE Pushing(2 + n + size, Stack,
                        << Plain(SubSeq(Operands, n + 2, n + 1 + size)) >>)

\* Registers.
SetTarget ==
    /\ At(OP.SET_TARGET)
    /\ LET t == AddressOf(Arg(0))
       IN  /\ frames' = Moved(1)
           /\ vm' = [vm EXCEPT !.target = t, !.slot = 0, !.stack = Popped(1)]
           /\ needs' = Append(needs, TargetNeed(t))
           /\ UNCHANGED <<outputs, required, proofBudget, allocBudget, futures, status>>

SetSlot ==
    \/ /\ At(OP.SET_SLOT)
       /\ Becomes(1, [vm EXCEPT !.slot = FirstWord(Arg(0)), !.stack = Popped(1)])
    \/ /\ At(OP.ADD_SLOT)
       /\ Becomes(1, [vm EXCEPT !.slot = @ + FirstWord(Arg(0)), !.stack = Popped(1)])
    \/ /\ At(OP.FOLLOW)
       /\ Becomes(1, [vm EXCEPT !.slot = Hash(Arg(0) \o Word(@)), !.stack = Popped(1)])

GetRegister ==
    \/ At(OP.GET_SLOT)   /\ Pushing(1, Stack, << Plain(Word(vm.slot)) >>)
    \/ At(OP.GET_TARGET) /\ Pushing(1, Stack, << Plain(AddressBytes(vm.target)) >>)
    \/ At(OP.STACK_SIZE) /\ Pushing(1, Stack, << Plain(Word(Len(Stack))) >>)

IsContract ==
    /\ At(OP.IS_CONTRACT)
    /\ LET fresh == NewTarget(vm.target)
       IN  IF proofBudget < Cardinality(fresh) THEN Fault("callback")
           ELSE IF ~CanPush(Stack, 1) THEN Fault("error")
           ELSE /\ required' = required \cup fresh
                /\ proofBudget' = proofBudget - Cardinality(fresh)
                /\ frames' = Moved(1)
                /\ vm' = [vm EXCEPT !.stack =
                            Append(@, Plain(Word(IF vm.target \in Contracts THEN 1 ELSE 0)))]
                /\ UNCHANGED <<outputs, needs, allocBudget, futures, status>>

\* Outputs.
SetOutput ==
    /\ At(OP.SET_OUTPUT)
    /\ IF IsNumber(Arg(0)) /\ FirstWord(Arg(0)) < Len(outputs) /\ Len(Stack) > 1
       THEN /\ outputs' = [outputs EXCEPT ![FirstWord(Arg(0)) + 1] = Stack[Len(Stack) - 1]]
            /\ frames' = Moved(1)
            /\ vm' = [vm EXCEPT !.stack = Popped(2)]
            /\ UNCHANGED <<needs, required, proofBudget, allocBudget, futures, status>>
       ELSE Fault("error")

PushOutput ==
    /\ At(OP.PUSH_OUTPUT)
    /\ IF IsNumber(Arg(0)) /\ FirstWord(Arg(0)) < Len(outputs)
       THEN Pushing(1, Popped(1), << outputs[FirstWord(Arg(0)) + 1] >>)
       ELSE Fault("error")

\* The stack itself; indices are checked after the operand is off the stack.
CopyStack ==
    LET n    == FirstWord(Arg(0))
        size == Len(Stack) - 1
    IN  \/ /\ At(OP.PUSH_STACK)
           /\ IF IsNumber(Arg(0)) /\ n < size THEN Pushing(1, Popped(1), << Stack[n + 1] >>)
              ELSE Fault("error")
        \/ /\ At(OP.DUP)
           /\ IF IsNumber(Arg(0)) /\ n < size THEN Pushing(1, Popped(1), << Stack[size - n] >>)
              ELSE Fault("error")
        \/ /\ At(OP.SWAP)
           /\ IF IsNumber(Arg(0)) /\ n < size
              THEN Becomes(1, [vm EXCEPT !.stack =
                        [Popped(1) EXCEPT ![size - n] = Stack[size], ![size] = Stack[size - n]]])
              ELSE Fault("error")

Pop ==
    /\ At(OP.POP)
    /\ Becomes(1, [vm EXCEPT !.stack = IF @ = <<>> THEN @ ELSE Front(@)])

----------------------------------------------------------------------------
\* Computation on strings and numbers.  Throws(o) is where the code throws,
\* Allocated(o) what it charges to maxAllocBytes, Result(o) what it pushes.
Pow256(base, exp) ==
    LET pow[e \in 0 .. exp] ==
            IF e = 0 THEN 1
            ELSE LET half == pow[e \div 2]
                 IN  (((half * half) % W) * (IF e % 2 = 1 THEN base ELSE 1)) % W
    IN  pow[exp]

Bool(b) == IF b THEN 1 ELSE 0

\* binaryOp(): the operand on top of the stack is the second one.
BinaryResult(o, a, b) ==
    CASE o = OP.PLUS   -> a + b
      [] o = OP.TIMES  -> a * b
      [] o = OP.DIVIDE -> a \div b
      [] o = OP.MOD    -> a % b
      [] o = OP.POW    -> Pow256(a, b)
      [] o = OP.AND    -> Bitwise2(<<0, 0, 1>>, a, b)
      [] o = OP.OR     -> Bitwise2(<<0, 1, 1>>, a, b)
      [] o = OP.XOR    -> Bitwise2(<<0, 1, 0>>, a, b)
      [] o = OP.SHIFT_LEFT  -> IF b >= CellBits * WordCells THEN 0 ELSE a * 2 ^ b
      [] o = OP.SHIFT_RIGHT -> IF b >= CellBits * WordCells THEN 0 ELSE a \div 2 ^ b
      [] o = OP.EQ -> Bool(a = b)
      [] o = OP.LT -> Bool(a < b)
      [] o = OP.GT -> Bool(a > b)

Pure == Binary \cup {OP.NOT, OP.IS_ZERO, OP.KECCAK, OP.LENGTH, OP.CONCAT,
                     OP.SLICE, OP.CHUNK}

Whole(len, chunk) == IF chunk = 0 THEN 0 ELSE len - (len % chunk)

\* How many bits a word has.
Bits(n) == CHOOSE b \in 0 .. CellBits * WordCells : n < 2 ^ b /\ \A c \in 0 .. b - 1 : n >= 2 ^ c

Throws(o) ==
    \/ o \in {OP.DIVIDE, OP.MOD} /\ FirstWord(Arg(0)) = 0
    \/ o = OP.SHIFT_LEFT /\ FirstWord(Arg(1)) # 0
                         /\ Bits(FirstWord(Arg(1))) + FirstWord(Arg(0)) > MaxBits
    \/ o \in {OP.SLICE, OP.CHUNK} /\ ~IsNumber(Arg(0))
    \/ o = OP.SLICE /\ ~IsNumber(Arg(1))

Allocated(o) ==
    CASE o = OP.CONCAT -> Len(Arg(0)) + Len(Arg(1))
      [] o = OP.SLICE  -> FirstWord(Arg(0))
      [] o = OP.CHUNK  -> Whole(Len(Arg(1)), FirstWord(Arg(0)))
      [] OTHER -> 0

Result(o) ==
    CASE o = OP.NOT     -> << Word((-1 - FirstWord(Arg(0))) % W) >>
      [] o = OP.IS_ZERO -> << Word(Bool(IsZeros(Arg(0)))) >>
      [] o = OP.KECCAK  -> << Word(Hash(Arg(0))) >>
      [] o = OP.LENGTH  -> << Word(Len(Arg(0))) >>
      [] o = OP.CONCAT  -> << Arg(1) \o Arg(0) >>
      [] o = OP.SLICE   ->
            LET size == FirstWord(Arg(0))
                pos  == FirstWord(Arg(1))
                v    == Arg(2)
                kept == SubSeq(v, pos + 1, Smaller(Len(v), pos + size))
            IN  << kept \o Zeros(size - Len(kept)) >>
      [] o = OP.CHUNK   ->
            LET chunk == FirstWord(Arg(0))
                end   == Whole(Len(Arg(1)), chunk)
            IN  IF chunk = 0 THEN <<>>
                ELSE [j \in 1 .. end \div chunk |->
                        SubSeq(Arg(1), end - j * chunk + 1, end - (j - 1) * chunk)]
      [] OTHER -> << Word(BinaryResult(o, FirstWord(Arg(1)), FirstWord(Arg(0)))) >>

Compute ==
    /\ Fetching /\ Opcode \in Pure /\ At(Opcode)
    /\ IF Throws(Opcode) \/ Allocated(Opcode) > allocBudget THEN Fault("error")
       ELSE LET out  == Result(Opcode)
                rest == Popped(Arity[Opcode])
            IN  IF ~CanPush(rest, Len(out)) THEN Fault("error")
                ELSE /\ vm' = [vm EXCEPT !.stack =
                                rest \o [i \in DOMAIN out |-> Plain(out[i])]]
                     /\ allocBudget' = allocBudget - Allocated(Opcode)
                     /\ frames' = Moved(1)
                     /\ UNCHANGED <<outputs, needs, required, proofBudget, futures, status>>

----------------------------------------------------------------------------
\* Reads from storage.  The lazy value is known to the model at once, but no
\* step looks at it before the future it waits for is done.
Future(kind, step) ==
    [kind |-> kind, target |-> vm.target, slot |-> vm.slot, step |-> step,
     state |-> "idle", limit |-> 0, slots |-> <<>>, throws |-> FALSE]

\* solidityArraySlotCount()
ArraySlotCount(length, step) ==
    IF step < WordCells THEN CeilDiv(length, WordCells \div step)
    ELSE length * CeilDiv(step, WordCells)

\* getStorageBytes(): the size in the first slot, and whether it is invalid.
BytesSize(first) == IF first % 2 = 0 THEN (first % Base) \div 2 ELSE first \div 2
BytesInvalid(first, size) ==
    IF first % 2 = 0 THEN size > WordCells ELSE size < WordCells

\* Mutant: one slot more than the bytes need.
BytesSlotsAndMore(slot, first) ==
    IF first % 2 = 0 THEN <<>>
    ELSE SlotRange(ArrayStart(slot), BytesSize(first) \div WordCells + 1)

BytesSlots(slot, first) ==
    IF first % 2 = 0 THEN <<>>
    ELSE SlotRange(ArrayStart(slot), CeilDiv(BytesSize(first), WordCells))

Numbers(target, slots) == [i \in DOMAIN slots |-> StorageAt(target, slots[i])]

StorageBytes(target, slot) ==
    LET first == StorageAt(target, slot)
        size  == BytesSize(first)
    IN  IF BytesInvalid(first, size) \/ size > MaxUniqueProofs * WordCells THEN <<>>
        ELSE IF first % 2 = 0 THEN Prefix(Word(first), size)
        ELSE Prefix(Words(Numbers(target, BytesSlots(slot, first))), size)

ArrayBytes(target, slot, step) ==
    LET first == StorageAt(target, slot)
        count == ArraySlotCount(first, step)
    IN  IF count > MaxUniqueProofs THEN <<>>
        ELSE Words(<<first>> \o Numbers(target, SlotRange(ArrayStart(slot), count)))

\* READ_SLOT and READ_SLOTS: addSlots() of count slots from the current one.
ReadSlots(count, rest) ==
    LET slots == SlotRange(vm.slot, count)
        cost  == SlotCost(vm.target, count)
    IN  IF proofBudget < cost THEN Fault("callback")
        ELSE IF ~CanPush(rest, 1) THEN Fault("error")
        ELSE /\ needs' = needs \o SlotNeeds(vm.target, slots)
             /\ required' = required \cup SlotTargets(vm.target)
             /\ proofBudget' = proofBudget - cost
             /\ vm' = [vm EXCEPT !.stack =
                        Append(rest, Plain(Words(Numbers(vm.target, slots))))]
             /\ frames' = Moved(1)
             /\ UNCHANGED <<outputs, allocBudget, futures, status>>

ReadSlot ==
    \/ At(OP.READ_SLOT) /\ ReadSlots(1, Stack)
    \/ /\ At(OP.READ_SLOTS)
       /\ IF ~IsNumber(Arg(0)) \/ ByteSize(FirstWord(Arg(0))) > RemainingProvableBytes
          THEN Fault("error")
          ELSE ReadSlots(FirstWord(Arg(0)), Popped(1))

\* READ_BYTES and READ_ARRAY: the slot now, the rest when the size is known.
ReadLazily(future, rest, v) ==
    LET f    == Len(futures) + 1
        cost == SlotCost(vm.target, 1)
    IN  IF proofBudget < cost THEN Fault("callback")
        ELSE IF ~CanPush(rest, 1) THEN Fault("error")
        ELSE /\ needs' = needs \o << SlotNeed(vm.target, vm.slot), PendingNeed(vm.target, f) >>
             /\ futures' = Append(futures, future)
             /\ required' = required \cup SlotTargets(vm.target)
             /\ proofBudget' = proofBudget - cost
             /\ vm' = [vm EXCEPT !.stack = Append(rest, Later(v, f))]
             /\ frames' = Moved(1)
             /\ UNCHANGED <<outputs, allocBudget, status>>

ReadBytes ==
    \/ /\ At(OP.READ_BYTES)
       /\ ReadLazily(Future("bytes", 0), Stack, StorageBytes(vm.target, vm.slot))
    \/ /\ At(OP.READ_ARRAY)
       /\ LET step == FirstWord(Arg(0))
          IN  IF ~IsNumber(Arg(0)) \/ step = 0 THEN Fault("error")
              ELSE ReadLazily(Future("array", step), Popped(1),
                              ArrayBytes(vm.target, vm.slot, step))

\* READ_HASHED_BYTES: the bytes come from readBytesAt(), which is asked at the
\* latest block, or else from getStorageBytes(), and cost no proof.  A slot of
\* more than a word is no argument of readBytesAt(), and has no further slots.
ReadHashedBytes ==
    /\ At(OP.READ_HASHED_BYTES)
    /\ IF Stack = <<>> THEN Fault("error")
       ELSE \E v \in (IF vm.slot < W THEN Unproven ELSE {}) \cup {StorageBytes(vm.target, vm.slot)} :
            LET f     == Len(futures) + 1
                first == StorageAt(vm.target, vm.slot)
                size  == BytesSize(first)
            IN  /\ futures' = Append(futures, [Future("hashed", 0) EXCEPT !.throws =
                        v \notin Unproven
                        /\ (BytesInvalid(first, size)
                            \/ (first % 2 = 1 /\ (size > MaxSuppliedBytes \/ vm.slot >= W)))])
                /\ needs' = Append(needs, HashedNeed(vm.target, f, v, FirstWord(Arg(0))))
                /\ vm' = [vm EXCEPT !.stack = Append(Popped(1), Later(v, f))]
                /\ frames' = Moved(1)
                /\ UNCHANGED <<outputs, required, proofBudget, allocBudget, status>>

\* Awaiting: every future wanted now and still idle is started at once, and
\* getStorageBytes() takes its limit from the budget of that moment.
Start ==
    LET idle == {f \in Awaited : futures[f].state = "idle"}
    IN  /\ idle # {}
        /\ futures' = [f \in DOMAIN futures |->
                IF f \in idle
                THEN [futures[f] EXCEPT !.state = "started", !.limit = RemainingProvableBytes]
                ELSE futures[f]]
        /\ UNCHANGED <<frames, vm, outputs, needs, required, proofBudget, allocBudget,
                       status>>

\* The slots a future turns out to read, and whether its size is refused.
FutureSlots(future) ==
    LET first == StorageAt(future.target, future.slot)
    IN  CASE future.kind = "bytes" -> BytesSlots(future.slot, first)
          [] future.kind = "array" ->
                SlotRange(ArrayStart(future.slot), ArraySlotCount(first, future.step))
          [] OTHER -> <<>>

FutureRefused(future) ==
    LET first == StorageAt(future.target, future.slot)
    IN  CASE future.kind = "bytes" ->
                \/ BytesInvalid(first, BytesSize(first))
                \/ first % 2 = 1 /\ (BytesSize(first) > future.limit \/ future.slot >= W)
          [] future.kind = "array" ->
                \/ first > NumMax
                \/ ByteSize(ArraySlotCount(first, future.step)) > RemainingProvableBytes
                \/ first # 0 /\ future.slot >= W
          [] OTHER -> future.throws

\* Mutant: a size that is refused rejects nobody's promise.
ResolveIfGood(f) ==
    /\ status \in {"run", "evaluated"}
    /\ futures[f].state = "started"
    /\ ~FutureRefused(futures[f])
    /\ LET slots == FutureSlots(futures[f])
       IN  IF proofBudget < Len(slots) THEN Fault("callback")
           ELSE /\ futures' = [futures EXCEPT ![f].state = "done", ![f].slots = slots]
                /\ proofBudget' = proofBudget - Len(slots)
                /\ UNCHANGED <<frames, vm, outputs, needs, required, allocBudget, status>>

\* Mutant: the slots of a future are not paid for.
ResolveForFree(f) ==
    /\ status \in {"run", "evaluated"}
    /\ futures[f].state = "started"
    /\ IF FutureRefused(futures[f]) THEN Fault("error")
       ELSE /\ futures' = [futures EXCEPT ![f].state = "done",
                                          ![f].slots = FutureSlots(futures[f])]
            /\ UNCHANGED <<frames, vm, outputs, needs, required, proofBudget, allocBudget,
                           status>>

\* The storage a started future waits for arrives, in any order.
Resolve(f) ==
    /\ status \in {"run", "evaluated"}
    /\ futures[f].state = "started"
    /\ IF FutureRefused(futures[f]) THEN Fault("error")
       ELSE LET slots == FutureSlots(futures[f])
            IN  IF proofBudget < Len(slots) THEN Fault("callback")
                ELSE /\ futures' = [futures EXCEPT ![f].state = "done", ![f].slots = slots]
                     /\ proofBudget' = proofBudget - Len(slots)
                     /\ UNCHANGED <<frames, vm, outputs, needs, required, allocBudget, status>>

----------------------------------------------------------------------------
\* Control: ASSERT, EVAL, EVAL_LOOP and what happens when a program ends.
AssertNonzero ==
    /\ At(OP.ASSERT)
    /\ IF Operands = <<>> THEN Fault("error")
       ELSE LET fails == IsZeros(Arg(0))
            IN  /\ vm' = [vm EXCEPT !.stack = Popped(1),
                                    !.exitCode = IF fails THEN Head(Operands) ELSE @]
                /\ frames' = IF fails THEN Returning(frames) ELSE Moved(2)
                /\ UNCHANGED <<outputs, needs, required, proofBudget, allocBudget,
                               futures, status>>

TooDeep == Len(frames) > MaxEvalDepth

\* EVAL: the condition is on top of the code.
Eval ==
    /\ At(OP.EVAL)
    /\ IF IsZeros(Arg(0)) THEN Becomes(1, [vm EXCEPT !.stack = Popped(2)])
       ELSE IF TooDeep THEN Fault("error")
       ELSE /\ frames' = Append(Moved(1), Frame("eval", Arg(1), 0, 0, Machine(<<>>)))
            /\ vm' = [vm EXCEPT !.stack = Popped(2)]
            /\ UNCHANGED <<outputs, needs, required, proofBudget, allocBudget, futures,
                           status>>

\* One turn of an EVAL_LOOP: the body runs from its start on a machine of its
\* own that gets the target, the slot and the next argument of the outer one.
LoopMachine(outer) ==
    [target |-> outer.target, slot |-> outer.slot,
     stack |-> << Last(outer.stack) >>, exitCode |-> 0]

LoopFrame(code, flags, left, outer) ==
    Frame("loop", code, flags, left, [outer EXCEPT !.stack = Front(@)])

EvalLoop ==
    /\ At(OP.EVAL_LOOP)
    /\ LET flags == Head(Operands)
           outer == [vm EXCEPT !.stack = Popped(2)]
           count == Smaller(FirstWord(Arg(0)), Len(outer.stack))
       IN  IF Operands = <<>> \/ ~IsNumber(Arg(0)) THEN Fault("error")
           ELSE IF count = 0 THEN Becomes(2, outer)
           ELSE IF TooDeep THEN Fault("error")
           ELSE /\ frames' = Append(Moved(2), LoopFrame(Arg(1), flags, count - 1, outer))
                /\ vm' = LoopMachine(outer)
                /\ UNCHANGED <<outputs, needs, required, proofBudget, allocBudget,
                               futures, status>>

Ended == status = "run" /\ frames # <<>> /\ Top.pos = Len(Top.code)

EndProgram(fs, machine) ==
    /\ frames' = fs
    /\ vm' = machine
    /\ UNCHANGED <<outputs, needs, required, proofBudget, allocBudget, futures, status>>

EndMain == Ended /\ Top.kind = "main" /\ EndProgram(<<>>, vm)

\* "if (vm.exitCode) return": a failed sub-program ends its caller too.
EndEval ==
    /\ Ended /\ Top.kind = "eval"
    /\ EndProgram(IF vm.exitCode = 0 THEN Front(frames) ELSE Returning(Front(frames)), vm)

\* Mutant: KEEP_ARGS is taken the wrong way round.
StoppedInverted(outer, flags, left) ==
    LET args  == IF ~Has(flags, KEEP_ARGS) THEN outer.stack
                 ELSE SubSeq(outer.stack, 1, Len(outer.stack) - left)
    IN  IF Has(flags, ACQUIRE_STATE)
        THEN [outer EXCEPT !.target = vm.target, !.slot = vm.slot, !.stack = args \o vm.stack]
        ELSE [outer EXCEPT !.stack = args]

\* The outer machine after the loop stopped, by the flags.
Stopped(outer, flags, left) ==
    LET args  == IF Has(flags, KEEP_ARGS) THEN outer.stack
                 ELSE SubSeq(outer.stack, 1, Len(outer.stack) - left)
    IN  IF Has(flags, ACQUIRE_STATE)
        THEN [outer EXCEPT !.target = vm.target, !.slot = vm.slot, !.stack = args \o vm.stack]
        ELSE [outer EXCEPT !.stack = args]

EndTurn ==
    /\ Ended /\ Top.kind = "loop"
    /\ LET outer == Top.outer
           stop  == Has(Top.flags, IF vm.exitCode # 0 THEN STOP_ON_FAILURE ELSE STOP_ON_SUCCESS)
       IN  CASE stop -> EndProgram(Front(frames), Stopped(outer, Top.flags, Top.left))
             [] ~stop /\ Top.left = 0 -> EndProgram(Front(frames), outer)
             [] OTHER -> EndProgram(
                    Append(Front(frames), LoopFrame(Top.code, Top.flags, Top.left - 1, outer)),
                    LoopMachine(outer))

\* DEBUG prints every value of the stack and the outputs, and so awaits them.
Debug ==
    /\ At(OP.DEBUG)
    /\ IF Operands = <<>> \/ Len(Operands) <= Head(Operands) THEN Fault("error")
       ELSE Becomes(2 + Head(Operands), vm)

UnknownOp ==
    /\ Fetching
    /\ Opcode > WordCells
    /\ \A name \in DOMAIN OP : OP[name] # Opcode
    /\ Fault("error")

\* evalReader() returns once every size is known.
Evaluated ==
    /\ status = "run" /\ frames = <<>> /\ Unsettled(Awaited) = {}
    /\ status' = "evaluated"
    /\ UNCHANGED <<frames, vm, outputs, needs, required, proofBudget, allocBudget, futures>>

\* prove() returns once the unproven bytes are there.
Proved ==
    /\ status = "evaluated" /\ Unsettled(Awaited) = {}
    /\ status' = "ok"
    /\ UNCHANGED <<frames, vm, outputs, needs, required, proofBudget, allocBudget, futures>>

Next ==
    \/ Underflow \/ PushLiteral \/ PushBytes \/ SetTarget \/ SetSlot \/ GetRegister
    \/ IsContract \/ SetOutput \/ PushOutput \/ CopyStack \/ Pop \/ Compute
    \/ ReadSlot \/ ReadBytes \/ ReadHashedBytes
    \/ Start \/ \E f \in DOMAIN futures : Resolve(f)
    \/ AssertNonzero \/ Eval \/ EvalLoop \/ EndMain \/ EndEval \/ EndTurn \/ Debug \/ UnknownOp
    \/ Evaluated \/ Proved

----------------------------------------------------------------------------
\* prove(): needs in order, each turned into the id of a proof.

\* Mutant: the slots of the futures come after all other needs.
FlatAtLast ==
    SelectSeq(needs, LAMBDA n : n.kind # "pending") \o
    FlattenSeq([i \in DOMAIN needs |->
        IF needs[i].kind = "pending" THEN SlotNeeds(needs[i].at, futures[needs[i].n].slots)
        ELSE <<>>])

\* needs.flat(): the slots of a future take the place of its pending need.
Flat ==
    LET flat(n) == IF n.kind = "pending" THEN SlotNeeds(n.at, futures[n.n].slots) ELSE <<n>>
    IN  FlattenSeq([i \in DOMAIN needs |-> flat(needs[i])])

\* The proof a need asks for, given the last target need before it (0: none).
AccountProof(t)    == [kind |-> "account", target |-> t, slot |-> 0, v |-> <<>>]
StorageProof(t, s) == [kind |-> "storage", target |-> t, slot |-> s, v |-> <<>>]
BytesProof(f, v)   == [kind |-> "bytes", target |-> 0, slot |-> f, v |-> v]
NullProof          == [kind |-> "null", target |-> 0, slot |-> 0, v |-> <<>>]

Targets(flat, i) == {j \in 1 .. i : flat[j].kind = "target"}
LastTarget(flat, i) == flat[CHOOSE j \in Targets(flat, i) : \A k \in Targets(flat, i) : k <= j].n

ProofFor(flat, i) ==
    CASE flat[i].kind = "target" -> AccountProof(flat[i].n)
      [] flat[i].kind = "hashed" -> BytesProof(flat[i].n, flat[i].v)
      [] OTHER -> IF Targets(flat, i) = {} THEN NullProof
                  ELSE StorageProof(LastTarget(flat, i), flat[i].n)

\* Each distinct proof once, in the order of first uses; the order of the
\* witness holds one byte for each need.
References == LET flat == Flat IN [i \in DOMAIN flat |-> ProofFor(flat, i)]

FirstUses(refs) == {i \in DOMAIN refs : \A j \in 1 .. i - 1 : refs[j] # refs[i]}
Id(uses, i)     == Cardinality({j \in uses : j < i})

Proofs ==
    LET refs == References
        uses == FirstUses(refs)
    IN  [k \in 1 .. Cardinality(uses) |-> refs[CHOOSE i \in uses : Id(uses, i) = k - 1]]

Order ==
    LET refs == References
        uses == FirstUses(refs)
    IN  [i \in DOMAIN refs |->
            Id(uses, CHOOSE j \in uses : refs[j] = refs[i]) % OrderIds]

\* requireV1Needs(): an account and slots of it, as the first protocol has it;
\* and what proveV1() makes of their proofs.
RequireV1Needs ==
    LET flat == Flat
    IN  flat # <<>> /\ flat[1].kind = "target" /\ \A i \in 2 .. Len(flat) : flat[i].kind = "slot"

ProofsV1 ==
    LET inOrder == [i \in DOMAIN Order |-> Proofs[Order[i] + 1]]
    IN  [accountProof |-> Head(inOrder), storageProofs |-> Tail(inOrder)]

----------------------------------------------------------------------------
\* Types.  Registers hold numbers, a slot may have grown beyond the words.
IsItem(item) == item.v \in Bytes /\ item.f \in 0 .. Len(futures)

IsMachine(m) ==
    /\ m.target \in 0 .. AddrMax - 1 /\ m.slot \in Nat /\ m.exitCode \in Cell
    /\ \A i \in DOMAIN m.stack : IsItem(m.stack[i])

TypeOK ==
    /\ \A i \in DOMAIN frames :
        /\ frames[i].kind \in {"main", "eval", "loop"}
        /\ frames[i].code \in Bytes /\ frames[i].pos \in 0 .. Len(frames[i].code)
        /\ frames[i].flags \in Cell /\ frames[i].left \in 0 .. Len(frames[i].outer.stack)
        /\ IsMachine(frames[i].outer)
    /\ IsMachine(vm)
    /\ \A i \in DOMAIN outputs : IsItem(outputs[i])
    /\ \A i \in DOMAIN needs :
        /\ needs[i].kind \in {"target", "slot", "pending", "hashed"}
        /\ needs[i].kind \in {"pending", "hashed"} => needs[i].n \in DOMAIN futures
    /\ required \subseteq Seen
    /\ proofBudget \in 0 .. MaxUniqueProofs /\ allocBudget \in 0 .. MaxAllocBytes
    /\ \A f \in DOMAIN futures : futures[f].state \in {"idle", "started", "done"}
    /\ status \in {"run", "evaluated", "ok", "error", "callback"}

----------------------------------------------------------------------------
\* What the request costs, from the needs and not from the budget: an account
\* proof for each target marked and a storage proof for each slot of a target.
SlotsNeeded ==
    Cardinality({i \in DOMAIN needs : needs[i].kind = "slot" /\ needs[i].at # 0})
Expanded(fs) ==
    LET sum[i \in 0 .. Len(futures)] ==
            IF i = 0 THEN 0
            ELSE sum[i - 1] + (IF i \in fs THEN Len(FutureSlots(futures[i])) ELSE 0)
    IN  sum[Len(futures)]
Spent(fs) == Cardinality(required) + SlotsNeeded + Expanded(fs)

\* What the op at hand would add.
NextCost ==
    IF frames = <<>> THEN 0
    ELSE IF Top.pos = Len(Top.code) THEN 0
    ELSE CASE Opcode \in {OP.READ_SLOT, OP.READ_BYTES, OP.READ_ARRAY} -> SlotCost(vm.target, 1)
           [] Opcode = OP.READ_SLOTS  -> \* checked for its bytes, target or not
                Cardinality(SlotTargets(vm.target)) + FirstWord(Arg(0))
           [] Opcode = OP.IS_CONTRACT -> Cardinality(NewTarget(vm.target))
           [] OTHER -> 0

\* The budget has paid for exactly the proofs known to be needed, whatever was
\* read twice, from no target, or is still a future (consumeProofs()).
BudgetExact ==
    MaxUniqueProofs - proofBudget =
        Spent({f \in DOMAIN futures : futures[f].state = "done"})
=============================================================================
