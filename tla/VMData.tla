------------------------------- MODULE VMData -------------------------------
(***************************************************************************)
(* The values both halves of the request machine compute with: strings of  *)
(* cells.  A cell stands for a byte, WordCells cells for the 32 bytes of a *)
(* word and AddrCells for the 20 bytes of an address; programs are strings *)
(* of cells too, with the opcodes of src/ops.ts and GatewayRequest.sol.    *)
(* The chain is what it is at the committed block: its contracts and their *)
(* storage.                                                                *)
(***************************************************************************)
EXTENDS Integers, SequencesExt

CONSTANTS
    WordCells,  \* cells in a word
    AddrCells,  \* cells in an address
    Contracts,  \* the addresses that have code at the committed block
    Storage     \* the nonzero storage: a function of <<address, slot>>

ASSUME VMDataAssumption ==
    /\ WordCells \in Nat /\ AddrCells \in Nat
    /\ 0 < AddrCells /\ AddrCells < WordCells

CellBits == 7                           \* 8, but for the size of TLC's integers
Base     == 2 ^ CellBits                \* every opcode but DEBUG is a cell
Cell     == 0 .. Base - 1
Bytes    == Seq(Cell)

W        == Base ^ WordCells            \* 2^256
AddrMax  == Base ^ AddrCells            \* 2^160

\* The opcodes; 0 .. WordCells push that many literal cells (PUSH_0 .. PUSH_32).
OP == [ GET_SLOT |-> 33, GET_TARGET |-> 34, STACK_SIZE |-> 35, IS_CONTRACT |-> 36,
        PUSH_BYTES |-> 40, PUSH_STACK |-> 41, PUSH_OUTPUT |-> 42,
        SET_TARGET |-> 50, SET_OUTPUT |-> 51, EVAL_LOOP |-> 52, EVAL |-> 53,
        ASSERT |-> 54,
        READ_SLOT |-> 60, READ_BYTES |-> 61, READ_ARRAY |-> 62,
        READ_HASHED_BYTES |-> 63, READ_SLOTS |-> 64,
        SET_SLOT |-> 70, ADD_SLOT |-> 71, FOLLOW |-> 72,
        DUP |-> 80, POP |-> 81, SWAP |-> 82,
        KECCAK |-> 90, CONCAT |-> 91, SLICE |-> 92, LENGTH |-> 93, CHUNK |-> 94,
        PLUS |-> 100, TIMES |-> 101, DIVIDE |-> 102, MOD |-> 103, POW |-> 104,
        AND |-> 110, OR |-> 111, XOR |-> 112, SHIFT_LEFT |-> 113,
        SHIFT_RIGHT |-> 114, NOT |-> 115,
        IS_ZERO |-> 120, EQ |-> 121, LT |-> 122, GT |-> 123,
        DEBUG |-> Base - 1 ]            \* 255

\* EVAL_LOOP flags
STOP_ON_SUCCESS == 1
STOP_ON_FAILURE == 2
ACQUIRE_STATE   == 4
KEEP_ARGS       == 8

Has(flags, bit) == (flags \div bit) % 2 = 1

----------------------------------------------------------------------------
Prefix(v, n) == SubSeq(v, 1, n)
Suffix(v, n) == SubSeq(v, Len(v) - n + 1, Len(v))
Zeros(n)     == [i \in 1 .. n |-> 0]
Smaller(m, n) == IF m < n THEN m ELSE n

\* A string read as one big-endian number, and a number written as a word.
Number(v) ==
    LET upTo[i \in 0 .. Len(v)] == IF i = 0 THEN 0 ELSE Base * upTo[i - 1] + v[i]
    IN  upTo[Len(v)]

Word(x) == [i \in 1 .. WordCells |-> (x \div Base ^ (WordCells - i)) % Base]

\* The low cells of a number, as GET_TARGET writes an address.
AddressBytes(a) == Suffix(Word(a), AddrCells)

\* A string read as a word: its first WordCells cells, all of it if shorter.
FirstWord(v) == Number(Prefix(v, Smaller(Len(v), WordCells)))

IsZeros(v) == \A i \in DOMAIN v : v[i] = 0

\* The words of a sequence of numbers, one after another.
Words(numbers) ==
    [i \in 1 .. WordCells * Len(numbers) |->
        Word(numbers[((i - 1) \div WordCells) + 1])[((i - 1) % WordCells) + 1]]

CeilDiv(n, d) == (n + d - 1) \div d

\* Bitwise and/or/xor of two words, bit by bit.
Bitwise2(table, a, b) ==
    LET bit(x, i) == (x \div 2 ^ i) % 2
        sum[i \in 0 .. CellBits * WordCells] ==
            IF i = 0 THEN 0
            ELSE sum[i - 1] + 2 ^ (i - 1) * table[bit(a, i - 1) + bit(b, i - 1) + 1]
    IN  sum[CellBits * WordCells]

\* keccak256, some function of a string into the words.
Hash(v) ==
    LET upTo[i \in 0 .. Len(v)] ==
            IF i = 0 THEN 17 + Len(v) ELSE (upTo[i - 1] * 31 + v[i] * 7 + 5) % W
    IN  upTo[Len(v)]

\* Where the elements of a dynamic array or long string at this slot start.
ArrayStart(slot) == Hash(Word(slot))

SlotRange(start, n) == [i \in 1 .. n |-> start + i - 1]

\* eth_getStorageAt at the committed block; slots wrap like every word.
StorageAt(target, slot) ==
    LET at == <<target, slot % W>>
    IN  IF target \in Contracts /\ at \in DOMAIN Storage THEN Storage[at] ELSE 0
=============================================================================
