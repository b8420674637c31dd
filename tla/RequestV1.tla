------------------------------ MODULE RequestV1 ------------------------------
(***************************************************************************)
(* Requests of the first protocol (src/v1.ts): what the builder writes     *)
(* into 32-byte commands, and how v2() reads them back as a program of the *)
(* request machine.                                                        *)
(***************************************************************************)
EXTENDS VMData, FiniteSets

CONSTANTS
    MaxConsts,      \* MAX_CONSTS, 32: an operand is what it leaves of an op
    CommandSize     \* the bytes of a command, 32

FLAG_DYNAMIC    == 1
OP_FOLLOW_CONST == 0 * MaxConsts
OP_FOLLOW_REF   == 1 * MaxConsts
OP_ADD_CONST    == 2 * MaxConsts
OP_END          == 8 * MaxConsts - 1

Operand(op) == op % MaxConsts
Kind(op)    == op - Operand(op)

----------------------------------------------------------------------------
\* The builder.  An op on a constant is the op and the constant's index.
WithConst(req, op, v) ==
    [req EXCEPT !.constants = Append(@, v), !.buf = Append(@, op + Len(req.constants))]

\* Mutant: nothing marks where the ops of a command end.
EndUnmarked(req) ==
    IF req.buf = <<>> THEN req
    ELSE [req EXCEPT !.buf = <<>>,
                     !.commands = Append(@, req.buf \o Zeros(CommandSize - Len(req.buf)))]

\* end(): the command begun is padded with zeros, which are ops too, after OP_END.
End(req) ==
    LET ops == IF Len(req.buf) < CommandSize THEN Append(req.buf, OP_END) ELSE req.buf
    IN  IF req.buf = <<>> THEN req
        ELSE [req EXCEPT !.buf = <<>>,
                         !.commands = Append(@, ops \o Zeros(CommandSize - Len(ops)))]

Start(req, flags, slot) == WithConst([End(req) EXCEPT !.buf = <<flags>>], OP_ADD_CONST, Word(slot))

\* One call of the builder.
Called(req, c) ==
    CASE c.name = "getStatic"    -> Start(req, 0, c.arg)
      [] c.name = "getDynamic"   -> Start(req, FLAG_DYNAMIC, c.arg)
      [] c.name = "offset"       -> WithConst(req, OP_ADD_CONST, Word(c.arg))
      [] c.name = "elementBytes" -> WithConst(req, OP_FOLLOW_CONST, c.arg)
      [] c.name = "ref"          -> [req EXCEPT !.buf = Append(@, OP_FOLLOW_REF + c.arg)]

Built(r) ==
    End(FoldLeft(Called, [target |-> r.target, commands |-> <<>>, constants |-> <<>>, buf |-> <<>>],
                 r.calls))

\* The builder does not throw: no constant too many, no op too many.
Builds(r) ==
    /\ Len(Built(r).constants) <= MaxConsts
    /\ \A i \in DOMAIN Built(r).commands : Len(Built(r).commands[i]) = CommandSize

----------------------------------------------------------------------------
\* push() and pushBytes() of GatewayProgram: no leading zeros, and all of them.
Push(x) ==
    LET zeros == {i \in 1 .. WordCells : IsZeros(Prefix(Word(x), i))}
        v     == Suffix(Word(x), WordCells - Cardinality(zeros))
    IN  <<Len(v)>> \o v
PushBytes(v) == <<OP.PUSH_BYTES>> \o Push(Len(v)) \o v

\* v2(): the ops of a command follow its flags and its first slot.
Ops(command) ==
    LET ends == {i \in 3 .. CommandSize : command[i] = OP_END}
    IN  SubSeq(command, 3, IF ends = {} THEN CommandSize ELSE Min(ends) - 1)

Upgrade(constants, op) ==
    LET constant == constants[Operand(op) + 1]
    IN  CASE Kind(op) = OP_ADD_CONST    -> Push(Number(constant)) \o <<OP.ADD_SLOT>>
          [] Kind(op) = OP_FOLLOW_CONST -> PushBytes(constant) \o <<OP.FOLLOW>>
          [] Kind(op) = OP_FOLLOW_REF   -> Push(Operand(op)) \o <<OP.PUSH_OUTPUT, OP.FOLLOW>>

UpgradeCommand(constants, command, output) ==
    Push(Number(constants[Operand(command[2]) + 1])) \o <<OP.SET_SLOT>>
    \o FlattenSeq([i \in DOMAIN Ops(command) |-> Upgrade(constants, Ops(command)[i])])
    \o <<IF Has(command[1], FLAG_DYNAMIC) THEN OP.READ_BYTES ELSE OP.READ_SLOT>>
    \o Push(output) \o <<OP.SET_OUTPUT>>

V2(r) ==
    LET req == Built(r)
    IN  <<Len(req.commands)>> \o Push(req.target) \o <<OP.SET_TARGET>>
        \o FlattenSeq([i \in DOMAIN req.commands |->
            UpgradeCommand(req.constants, req.commands[i], i - 1)])

----------------------------------------------------------------------------
\* What a request means, said without commands, constants or programs: each get
\* has a slot, moved by what follows it, and reads a word or a string there.
StringAt(target, slot) ==
    LET first == StorageAt(target, slot)
        size  == IF first % 2 = 0 THEN (first % Base) \div 2 ELSE first \div 2
        rest  == SlotRange(ArrayStart(slot), CeilDiv(size, WordCells))
    IN  IF first % 2 = 0 THEN [slots |-> <<slot>>, v |-> Prefix(Word(first), size)]
        ELSE [slots |-> <<slot>> \o rest,
              v |-> Prefix(Words([i \in DOMAIN rest |-> StorageAt(target, rest[i])]), size)]

Got(target, get) ==
    IF get.dynamic THEN StringAt(target, get.slot)
    ELSE [slots |-> <<get.slot>>, v |-> Word(StorageAt(target, get.slot))]

\* An earlier get's value; the one begun and later ones have none yet.
ValueOf(target, gets, i) == IF i < Len(gets) THEN Got(target, gets[i]).v ELSE <<>>

Meant(r) ==
    LET under(gets, key) == [gets EXCEPT ![Len(gets)].slot = Hash(key \o Word(@))]
        call(gets, c) ==
            CASE c.name = "getStatic"    -> Append(gets, [dynamic |-> FALSE, slot |-> c.arg])
              [] c.name = "getDynamic"   -> Append(gets, [dynamic |-> TRUE, slot |-> c.arg])
              [] c.name = "offset"       -> [gets EXCEPT ![Len(gets)].slot = @ + c.arg]
              [] c.name = "elementBytes" -> under(gets, c.arg)
              [] c.name = "ref"          -> under(gets, ValueOf(r.target, gets, c.arg + 1))
        gets == FoldLeft(call, <<>>, r.calls)
    IN  [i \in DOMAIN gets |-> Got(r.target, gets[i])]
=============================================================================
