----------------------------- MODULE MC_Request -----------------------------
\* Requests for the two machines, put together from pieces of programs.
EXTENDS RequestProtocol

\* Two contracts, one other address; contract 1 has a short string, a string of
\* two slots, a string that is not well formed and an array of three elements; and values under keys.
MCContracts == {1, 2}
MCStorage ==
    LET at(slot) == Hash(<<0, slot>>)
    IN  << 1, 0 >> :> 5 * Base + 2
        @@ << 1, 1 >> :> 7
        @@ << 1, 2 >> :> 3
        @@ << 1, 3 >> :> 3
        @@ << 1, at(1) >> :> 300 @@ << 1, at(1) + 1 >> :> 400
        @@ << 1, at(3) >> :> 500 @@ << 1, at(3) + 1 >> :> 600
        @@ << 1, 5 >> :> 6 * Base + 2
        @@ << 1, Hash(<<0, 7, 0, 0>>) >> :> 8 * Base + 2 @@ << 1, Hash(<<7, 0, 4>>) >> :> 9 * Base + 2
        @@ << 1, Hash(<<5, 0, 0>>) >> :> 10 * Base + 2 @@ << 1, Hash(<<0, 7, 0, 5>>) >> :> 11 * Base + 2
        @@ << 2, 0 >> :> 9
StringAt1 == Prefix(Word(300) \o Word(400), 3)
MCUnproven == {<<9, 9>>}

\* Pieces.
Num(n)  == IF n < Base THEN <<1, n>> ELSE <<2, n \div Base, n % Base>>
Str(v)  == <<OP.PUSH_BYTES, 1, Len(v)>> \o v
With(args, op) == FlattenSeq([i \in DOMAIN args |-> Num(args[i])]) \o <<op>>
Target(t)  == With(<<t>>, OP.SET_TARGET)
At(t, s)   == Target(t) \o With(<<s>>, OP.SET_SLOT)
Output(i)  == With(<<i>>, OP.SET_OUTPUT)
Hashed(v)  == Num(Hash(v)) \o <<OP.READ_HASHED_BYTES>>

Do(op)     == <<op>>
Eval(code, cond) == Str(code) \o With(<<cond>>, OP.EVAL)
Loop(code, count, flags) == Str(code) \o With(<<count>>, OP.EVAL_LOOP) \o <<flags>>
Assert7 == <<OP.ASSERT, 7>>

\* Every operation on one, two or three literals, of both kinds and any size.
Literals == { <<0>>, Num(1), Num(2), Num(300), Str(<<>>), Str(<<0, 8>>), Str(<<1, 2, 3>>) }
Ops      == { OP[name] : name \in DOMAIN OP \ {"PUSH_BYTES", "EVAL_LOOP", "ASSERT", "DEBUG",
                                                "READ_HASHED_BYTES", "ADD_SLOT"} }
OnLiterals ==
    { a \o b \o Do(o) : a \in Literals, b \in Literals, o \in Ops } \cup
    { a \o With(<<x, y>>, OP.SLICE) : a \in Literals, x \in 0 .. 3, y \in 0 .. 3 }

\* Bits of the stack: entries of both kinds copied, swapped, dropped, replaced.
Shuffles ==
    LET step == { Num(1), Str(<<3>>), Do(OP.POP), With(<<1>>, OP.SWAP), With(<<0>>, OP.DUP),
                  With(<<1>>, OP.PUSH_STACK), Do(OP.CONCAT) }
    IN  { Num(300) \o a \o b \o c \o d : a \in step, b \in step, c \in step, d \in step }

\* Reads of every kind from every place, followed by what looks at the result.
Places == { <<>>, Target(3) } \cup { At(1, s) : s \in 0 .. 4 }
Reads  ==
    { Do(OP.READ_SLOT), Do(OP.READ_BYTES), Do(OP.IS_CONTRACT), Do(OP.GET_SLOT),
      With(<<1>>, OP.ADD_SLOT) \o Do(OP.READ_SLOT), With(<<0>>, OP.FOLLOW) \o Do(OP.READ_SLOT),
      Hashed(StringAt1) } \cup
    { With(<<n>>, OP.READ_SLOTS) : n \in 0 .. 2 } \cup
    { With(<<step>>, OP.READ_ARRAY) : step \in 0 .. 3 }
Looks  == { Do(OP.LENGTH), Do(OP.KECCAK), With(<<2>>, OP.CHUNK), Assert7, <<OP.DEBUG, 1, 65>> }
OnStorage ==
    { p \o a \o b : p \in Places, a \in Reads, b \in Reads \cup Looks } \cup
    { p \o a \o Target(2) \o Do(OP.READ_SLOT) \o p \o b : p \in Places, a \in Reads, b \in Reads }

\* Programs that are cut short or not programs.
Broken == { <<OP.DEBUG, 5>>, <<99>>, Num(1) \o <<OP.ASSERT>>, <<2, 1>>,
            <<OP.PUSH_BYTES, 1, 9>>, Str(<<>>) \o Num(0) \o <<OP.EVAL_LOOP>> }

Straight == OnLiterals \cup Shuffles \cup OnStorage \cup Broken

\* Programs in programs.  The stack they find, what they do with it, and what
\* is done after them with the registers and the stack they leave.
Piece  == { <<>>, Assert7, With(<<0>>, OP.DUP) \o Assert7,
            With(<<0>>, OP.DUP) \o Do(OP.SET_SLOT), Do(OP.READ_SLOT), Output(0),
            Str(<<4>>), Do(OP.POP) }
Bodies == { a \o b : a \in Piece, b \in Piece }
Args   == { Num(0) \o Num(1), Num(1) \o Num(0), Str(<<>>) \o Num(2) \o Str(<<1>>) }
LoopArgs == { Num(1) \o Num(0), Str(<<>>) \o Num(2) \o Str(<<1>>) }
Afters == { Do(OP.STACK_SIZE), Do(OP.GET_SLOT), Do(OP.READ_SLOT) }
Evals  == { At(1, 0) \o a \o Eval(body, cond) \o after :
                a \in Args, body \in Bodies, cond \in {0, 1}, after \in Afters }
Loops  == { At(1, 0) \o a \o Loop(body, count, flags) \o after :
                a \in LoopArgs, body \in Bodies, count \in {0, 1, 5}, flags \in {0, 1, 2, 5, 6, 8, 12, 13},
                after \in { Do(OP.READ_SLOT) \o Do(OP.STACK_SIZE) } }

\* Loops in programs, programs in loops, loops that move to another contract
\* and come back; the loop of TestGatewayFetcher.findFirst().
Inner  == { Assert7, Do(OP.SET_SLOT) \o Do(OP.READ_SLOT), Do(OP.IS_ZERO) }
Nested ==
    { At(1, 0) \o Num(2) \o Num(1) \o Loop(Num(1) \o Loop(a, 1, f) \o b, 2, g) \o Do(OP.GET_SLOT) :
        a \in Inner, b \in { <<>>, Assert7 }, f \in {0, 3, 5, 12}, g \in {0, 3, 5, 12} } \cup
    { Num(0) \o Eval(Num(0) \o Num(1) \o Loop(a, 2, f) \o b, 1) \o Do(OP.STACK_SIZE) :
        a \in Inner, b \in { <<>>, Assert7 }, f \in 0 .. 3 } \cup
    { Num(1) \o Num(2) \o Loop(Do(OP.SET_TARGET) \o a \o b, 2, f) \o Target(1) \o Do(OP.READ_SLOT) :
        a \in Reads, b \in { <<>>, Do(OP.LENGTH), Assert7 }, f \in {0, 1, 2} } \cup
    { Num(1) \o Num(2) \o Loop(Do(OP.SET_TARGET) \o Do(OP.READ_SLOT) \o Assert7, 2, 1 + 4)
        \o Do(OP.READ_SLOT) } \cup
    { Eval(Eval(Eval(Eval(Num(1), 1), 1), 1), 1) }

Request(code) == <<1>> \o code \o Output(0)
MCRequests    == { Request(code) : code \in Straight \cup Evals \cup Loops \cup Nested }

\* Reads that fail for nothing but their cost, many of them still in flight.
CostReads  ==
    { Do(OP.READ_SLOT), Do(OP.READ_BYTES), Do(OP.IS_CONTRACT),
      At(1, 3) \o With(<<2>>, OP.READ_ARRAY) \o At(1, 1), Target(2) \o Do(OP.READ_SLOT),
      Do(OP.READ_BYTES) \o Do(OP.LENGTH), At(1, 1) \o Hashed(StringAt1), With(<<2>>, OP.READ_SLOTS) }
MCCosts ==
    { Request(At(1, s) \o a \o b \o c \o Do(OP.READ_BYTES)) :
        s \in {0, 1}, a \in CostReads, b \in CostReads, c \in CostReads } \cup
    { Request(a \o b \o At(1, 0) \o c) : a \in CostReads, b \in CostReads, c \in CostReads } \cup
    { Request(At(1, 0) \o With(<<n>>, OP.READ_SLOTS)) : n \in {40, 100, 150} }

\* Requests whose proofs another gateway answers differently, and requests that
\* end in one way or another whatever is answered.
OtherReads ==
    { Do(OP.READ_SLOT), Do(OP.READ_BYTES), With(<<1>>, OP.ADD_SLOT) \o Do(OP.READ_SLOT),
      With(<<2>>, OP.READ_SLOTS), Hashed(StringAt1), Target(2) \o Do(OP.READ_SLOT) }
MCOthers ==
    { Request(At(1, s) \o a \o b) : s \in {0, 1}, a \in OtherReads, b \in OtherReads } \cup
    { Request(At(1, 3) \o With(<<2>>, OP.READ_ARRAY)), Request(Target(3) \o Do(OP.READ_SLOT)),
      Request(Do(OP.READ_SLOT) \o <<99>>) }

\* Reads in flight together, loops and a program that runs itself.
MCLive ==
    { Request(At(1, s) \o a \o b) : s \in {1, 2},
        a \in { Do(OP.READ_BYTES), Do(OP.READ_BYTES) \o Do(OP.LENGTH) },
        b \in { Do(OP.READ_BYTES), Do(OP.READ_SLOT), Hashed(StringAt1) } } \cup
    { Request(Num(1) \o Num(0) \o Loop(body, 3, flags)) :
        body \in { At(1, 1) \o Do(OP.READ_BYTES), Assert7 }, flags \in 0 .. 3 } \cup
    { Request(Str(code) \o Str(code) \o Num(1) \o <<OP.EVAL>>) :
        code \in { With(<<0>>, OP.DUP) \o Num(1) \o <<OP.EVAL>> } }

\* Requests of the first protocol: one or two gets with up to two steps each, as
\* long as a command and longer, keys of two lengths and values that are keys.
Gets      == { [name |-> n, arg |-> s] : n \in {"getStatic", "getDynamic"}, s \in {0, 1, 5} }
Keys      == { <<7>>, Word(7) }
StepsV1   == { [name |-> "offset", arg |-> 4] } \cup
             { [name |-> "elementBytes", arg |-> key] : key \in Keys }
RefV1     == [name |-> "ref", arg |-> 0]
Tails     == { <<>> } \cup { <<a>> : a \in StepsV1 } \cup
             { <<a, b>> : a \in StepsV1, b \in StepsV1 }
Calls     ==
    { <<>> } \cup { <<g>> \o a : g \in Gets, a \in Tails } \cup
    { <<g, h>> \o a \o <<RefV1>> \o b : g \in Gets, h \in Gets,
        a \in { <<>>, <<[name |-> "offset", arg |-> 4]>> }, b \in { <<>>, <<[name |-> "offset", arg |-> 4]>> } } \cup
    { <<[name |-> "getStatic", arg |-> 0], RefV1>> }
MCV1      == { r \in { [target |-> t, calls |-> c] : t \in {1, 3}, c \in Calls } : R!Builds(r) }

MCOthersLive == MCOthers \cup MCLive
MCAll == MCRequests \cup MCCosts \cup MCOthersLive

\* Requests whose two machines go different ways.
MCMovedInLoop  == { Request(At(1, 0) \o Num(2) \o Loop(Do(OP.SET_TARGET), 1, 0) \o Do(OP.READ_SLOT)) }
MCFailedInLoop ==
    { Request(Num(5) \o Num(6) \o
        Loop(With(<<0>>, OP.DUP) \o Output(0) \o Eval(Num(0) \o Assert7, 1), 2, flags) \o
        With(<<0>>, OP.PUSH_OUTPUT)) : flags \in 0 .. 3 }
=============================================================================
