--------------------------------- MODULE Alu ---------------------------------
(***************************************************************************)
(* What the data instructions of the executor compute: handle_rtype_instr, *)
(* the arithmetic half of handle_itype_instr, and the three special3       *)
(* handlers (executor.hpp).                                                *)
(*                                                                         *)
(* An outcome is the SET of words the destination register may receive:    *)
(*   - a singleton for a well defined computation,                         *)
(*   - several words where the C++ expression is undefined and builds      *)
(*     differ (a shift by the width of the word),                          *)
(*   - the empty set where the handler returns false and writes nothing.   *)
(* s and t are the unsigned values of registers rs and rt.                 *)
(***************************************************************************)
EXTENDS MachineWord

CONSTANTS IMM_SIZE,   \* 2^16: values of the immediate field
          BYTE_BITS,  \* 8: bits of a byte, a quarter of a word
          BYTE_SIZE   \* 2^8: values of a byte

ASSUME AluAssumption ==
    /\ IMM_SIZE \in Nat \ {0}
    /\ BYTE_BITS \in Nat \ {0}
    /\ BYTE_SIZE \in Nat \ {0}
    /\ WORD_BITS = 4 * BYTE_BITS
    /\ BYTE_SIZE = 2 ^ BYTE_BITS
    /\ IMM_SIZE = BYTE_SIZE * BYTE_SIZE

-----------------------------------------------------------------------------
(* Arithmetic *)

Abs(n) == IF n < 0 THEN -n ELSE n

\* C++ division truncates towards zero and % takes the dividend's sign.
Quotient(a, b)  == IF (a < 0) = (b < 0) THEN Abs(a) \div Abs(b)
                                        ELSE -(Abs(a) \div Abs(b))

\* Mutant of Remainder: the remainder of floored division.
RemainderFloored(a, b) == a % Abs(b)

Remainder(a, b) == a - b * Quotient(a, b)

\* Mutant of HiMul: the product is shifted by one bit less.
HiMulShort(a, b) == Wrap((a * b) \div SIGN_BIT)

\* hi_mul: the wide product shifted down by a word.
HiMul(a, b) == Wrap((a * b) \div MODULUS)

\* sop_set_rd: shamt 2 selects the first result, any other the second.
Sop(shamt, shamt2, shamt3) == {Wrap(IF shamt = 2 THEN shamt2 ELSE shamt3)}

\* INT_MIN / -1, undefined in C++: an x86 build raises SIGFPE and the host
\* process ends; a build that does not trap leaves the wrapped result.
HostMayTrap(i, s, t) ==
    i.op = "sop32" /\ s = SIGN_BIT /\ t = MODULUS - 1

-----------------------------------------------------------------------------
(* Shifts *)

\* The sign fill (~0) << (32 - n) of sra.  For n = 0 the shift is by the width
\* of the word: undefined; the x86 instruction shifts by 0 and fills the whole
\* word, a compiler that folds the shift fills nothing.
SignFill(n) ==
    IF n = 0 THEN {BitIndex, {}} ELSE {(WORD_BITS - n) .. (WORD_BITS - 1)}

ShiftRightArithmetic(t, n) ==
    UNION {WordOf(Down(Bits[t], n) \cup (IF t >= SIGN_BIT THEN fill ELSE {}))
             : fill \in SignFill(n)}

\* Mutant of Rotated: the low bits come back one place too high.
RotatedFar(t, n) == Down(Bits[t], n) \cup Up(Bits[t], WORD_BITS - n + 1)

\* For n = 0 the left shift is by the width of the word again; whether it
\* gives 0 or t the union is t.
Rotated(t, n) == Down(Bits[t], n) \cup Up(Bits[t], WORD_BITS - n)

ShiftRight(t, n, rotate) ==
    IF rotate THEN WordOf(Rotated(t, n)) ELSE WordOf(Down(Bits[t], n))

-----------------------------------------------------------------------------
(* The counting loops: the first number of shifts that ends the while *)

ShiftedLeft(s, k) == Signed(Wrap(s * 2 ^ k))

\* Mutant of LeadingZeros: the word 0 is not treated apart.
LeadingZerosLoopOnly(s) ==
    {c \in Word \cap 0 .. WORD_BITS :
        /\ ~ (ShiftedLeft(s, c) > 0)
        /\ \A k \in 0 .. c - 1 : ShiftedLeft(s, k) > 0}

LeadingZeros(s) ==
    {c \in Word \cap 0 .. WORD_BITS :
        IF s = 0 THEN c = WORD_BITS
        ELSE /\ ~ (ShiftedLeft(s, c) > 0)
             /\ \A k \in 0 .. c - 1 : ShiftedLeft(s, k) > 0}

LeadingOnes(s) ==
    {c \in Word \cap 0 .. WORD_BITS :
        /\ ~ (ShiftedLeft(s, c) < 0)
        /\ \A k \in 0 .. c - 1 : ShiftedLeft(s, k) < 0}

-----------------------------------------------------------------------------
(* handle_rtype_instr: the instructions that write rd and do nothing else *)

DivisionOps == {"sop32", "sop33"}

RTypeDataOps ==
    {"add", "addu", "sub", "subu", "sop30", "sop31", "and", "nor", "or", "xor",
     "slt", "sltu", "sll", "sllv", "sra", "srav", "srl", "srlv", "seleqz",
     "selnez", "clz", "clo"} \cup DivisionOps

Multiply(op, shamt, s, t) ==
    CASE op = "sop30" -> Sop(shamt, Signed(s) * Signed(t),
                             HiMul(Signed(s), Signed(t)))
      [] op = "sop31" -> Sop(shamt, s * t, HiMul(s, t))

Divide(op, shamt, s, t) ==
    IF t = 0 THEN {}
    ELSE CASE op = "sop32" -> Sop(shamt, Quotient(Signed(s), Signed(t)),
                                  Remainder(Signed(s), Signed(t)))
           [] op = "sop33" -> Sop(shamt, s \div t, s % t)

Logic(op, s, t) ==
    CASE op \in {"and", "andi"} -> WordOf(Bits[s] \cap Bits[t])
      [] op \in {"or", "ori"}   -> WordOf(Bits[s] \cup Bits[t])
      [] op \in {"xor", "xori"} -> WordOf(Xor(Bits[s], Bits[t]))
      [] op = "nor"             -> WordOf(BitIndex \ (Bits[s] \cup Bits[t]))

Shift(i, s, t) ==
    LET amount == s % WORD_BITS  \* rs & 0x1F
    IN  CASE i.op = "sll"  -> WordOf(Up(Bits[t], i.sa))
          [] i.op = "sllv" -> WordOf(Up(Bits[t], amount))
          [] i.op = "sra"  -> ShiftRightArithmetic(t, i.sa)
          [] i.op = "srav" -> ShiftRightArithmetic(t, amount)
          [] i.op = "srl"  -> ShiftRight(t, i.sa, i.rs % 2 = 1)
          [] i.op = "srlv" -> ShiftRight(t, amount, i.sa % 2 = 1)

RTypeOutcomes(i, s, t) ==
    CASE i.op \in {"add", "addu"} -> {Add(s, t)}
      [] i.op \in {"sub", "subu"} -> {Wrap(s - t)}
      [] i.op \in {"sop30", "sop31"} -> Multiply(i.op, i.sa, s, t)
      [] i.op \in DivisionOps -> Divide(i.op, i.sa, s, t)
      [] i.op \in {"and", "nor", "or", "xor"} -> Logic(i.op, s, t)
      [] i.op = "slt"    -> {Flag(Signed(s) < Signed(t))}
      [] i.op = "sltu"   -> {Flag(s < t)}
      [] i.op \in {"sll", "sllv", "sra", "srav", "srl", "srlv"} -> Shift(i, s, t)
      [] i.op = "seleqz" -> {IF t # 0 THEN 0 ELSE s}
      [] i.op = "selnez" -> {IF t # 0 THEN s ELSE 0}
      [] i.op = "clz"    -> LeadingZeros(s)
      [] i.op = "clo"    -> LeadingOnes(s)

TrapOps == {"teq", "tge", "tgeu", "tlt", "tltu", "tne"}

\* Mutant of TrapCondition: TGE does not trap on equal values.
TrapConditionStrict(op, s, t) ==
    CASE op = "teq"  -> s = t
      [] op = "tge"  -> Signed(s) > Signed(t)
      [] op = "tgeu" -> s >= t
      [] op = "tlt"  -> Signed(s) < Signed(t)
      [] op = "tltu" -> s < t
      [] op = "tne"  -> s # t

TrapCondition(op, s, t) ==
    CASE op = "teq"  -> s = t
      [] op = "tge"  -> Signed(s) >= Signed(t)
      [] op = "tgeu" -> s >= t
      [] op = "tlt"  -> Signed(s) < Signed(t)
      [] op = "tltu" -> s < t
      [] op = "tne"  -> s # t

-----------------------------------------------------------------------------
(* handle_itype_instr: the instructions that write rt and do nothing else *)

ITypeDataOps == {"addiu", "aui", "slti", "sltiu", "andi", "ori", "xori"}

\* Mutant of ITypeOutcomes: the logical immediates are sign extended too.
ITypeOutcomesSigned(i, s) ==
    LET imm == SignExt(i.imm, IMM_SIZE)
    IN  CASE i.op = "addiu" -> {Add(s, imm)}
          [] i.op = "aui"   -> {Add(s, SignExt(i.imm * IMM_SIZE, IMM_SIZE))}
          [] i.op = "slti"  -> {Flag(Signed(s) < Signed(imm))}
          [] i.op = "sltiu" -> {Flag(s < imm)}
          [] i.op \in {"andi", "ori", "xori"} -> Logic(i.op, s, imm)

ITypeOutcomes(i, s) ==
    LET imm == SignExt(i.imm, IMM_SIZE)
    IN  CASE i.op = "addiu" -> {Add(s, imm)}
          [] i.op = "aui"   -> {Add(s, SignExt(i.imm * IMM_SIZE, IMM_SIZE))}
          [] i.op = "slti"  -> {Flag(Signed(s) < Signed(imm))}
          [] i.op = "sltiu" -> {Flag(s < imm)}
          [] i.op \in {"andi", "ori", "xori"} -> Logic(i.op, s, i.imm)

-----------------------------------------------------------------------------
(* The special3 handlers.  bshfl writes rd, ext and ins write rt; lsb is in *)
(* the shamt field, msbd and msb in the rd field of the instruction.        *)

BshflOps == {"bitswap", "wsbh", "align_0", "align_1", "align_2", "align_3",
             "seb", "seh"}

\* Mutant of SwappedBit: the bytes are rotated instead of swapped in pairs.
RotatedByteBit(k) == (k + BYTE_BITS) % WORD_BITS

\* Where a bit goes: mirrored inside its byte; in the other byte of its half.
MirroredBit(k) == (k \div BYTE_BITS) * BYTE_BITS
                  + (BYTE_BITS - 1 - (k % BYTE_BITS))
SwappedBit(k)  == IF (k \div BYTE_BITS) % 2 = 0 THEN k + BYTE_BITS
                                                ELSE k - BYTE_BITS

\* Mutant of Align: rs is shifted as far as rt.
AlignSameShift(bp, s, t) ==
    WordOf(Up(Bits[t], BYTE_BITS * bp)
           \cup (IF bp = 0 THEN {} ELSE Down(Bits[s], BYTE_BITS * bp)))

Align(bp, s, t) ==
    WordOf(Up(Bits[t], BYTE_BITS * bp)
           \cup (IF bp = 0 THEN {} ELSE Down(Bits[s], BYTE_BITS * (4 - bp))))

SignExtendLow(t, n) ==
    WordOf({k \in Bits[t] : k < n}
           \cup (IF n - 1 \in Bits[t] THEN n .. WORD_BITS - 1 ELSE {}))

BshflOutcomes(i, s, t) ==
    CASE i.op = "bitswap" -> WordOf({MirroredBit(k) : k \in Bits[t]})
      [] i.op = "wsbh"    -> WordOf({SwappedBit(k) : k \in Bits[t]})
      [] i.op = "align_0" -> Align(0, s, t)
      [] i.op = "align_1" -> Align(1, s, t)
      [] i.op = "align_2" -> Align(2, s, t)
      [] i.op = "align_3" -> Align(3, s, t)
      [] i.op = "seb"     -> SignExtendLow(t, BYTE_BITS)
      [] i.op = "seh"     -> SignExtendLow(t, 2 * BYTE_BITS)

\* Mutant of FieldFits: a field may stick out by one bit.
FieldFitsLoose(lsb, size) ==
    ~ (lsb >= WORD_BITS \/ size = 0 \/ size > WORD_BITS
       \/ lsb + size > WORD_BITS + 1)

\* The error cases of ext and ins.
FieldFits(lsb, size) ==
    ~ (lsb >= WORD_BITS \/ size = 0 \/ size > WORD_BITS
       \/ lsb + size > WORD_BITS)

ExtOutcomes(i, s) ==
    LET lsb  == i.sa
        size == i.rd + 1
    IN  IF FieldFits(lsb, size)
        THEN WordOf({k \in Down(Bits[s], lsb) : k < size})
        ELSE {}

\* Mutant of InsOutcomes: the old field is not masked out of rt.
InsOutcomesMerged(i, s, t) ==
    LET lsb  == i.sa
        size == Wrap(i.rd - lsb + 1)
        low  == {k \in Bits[s] : k < size}
    IN  IF FieldFits(lsb, size) THEN WordOf(Bits[t] \cup Up(low, lsb)) ELSE {}

\* size is an uint32_t: with msb < lsb - 1 it wraps to a huge value.
InsOutcomes(i, s, t) ==
    LET lsb  == i.sa
        size == Wrap(i.rd - lsb + 1)
        low  == {k \in Bits[s] : k < size}
    IN  IF FieldFits(lsb, size)
        THEN WordOf((Bits[t] \ (lsb .. lsb + size - 1)) \cup Up(low, lsb))
        ELSE {}
=============================================================================
