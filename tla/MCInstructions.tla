---------------------------- MODULE MCInstructions ----------------------------
(***************************************************************************)
(* Every data instruction of Alu and every branch of Branches on every     *)
(* pair of operands of a small word, against what its mnemonic means as    *)
(* arithmetic on numbers.  One step executes one instruction: `out` is the *)
(* set of outcomes of a data instruction, `decision` what a branch         *)
(* decided.                                                                *)
(***************************************************************************)
EXTENDS Alu, Branches, FiniteSets

CONSTANTS SValues, TValues,  \* the operands tried
          Ops,               \* the operations tried
          Fields  \* register numbers of a branch; 0 and three others show
                  \* every case

ASSUME DriverAssumption ==
    /\ SValues \subseteq Word /\ TValues \subseteq Word
    /\ Fields \subseteq Nat

MCWord == Word

VARIABLES ins, s, t, out, decision,
          done  \* whether the instruction has been executed

vars == <<ins, s, t, out, decision, done>>

Instr(op, rs, rd, sa, imm) ==
    [op |-> op, rs |-> rs, rt |-> 0, rd |-> rd, sa |-> sa, imm |-> imm]

Idle == Instr("addu", 0, 0, 0, 0)

Undecided == [how |-> "none", taken |-> FALSE]

Init ==
    /\ ins = Idle
    /\ s = 0 /\ t = 0 /\ out = {0}
    /\ decision = Undecided
    /\ done = FALSE

Operands ==
    /\ ~done /\ done' = TRUE
    /\ s' \in SValues /\ t' \in TValues
    /\ UNCHANGED decision

\* The parity of rs makes ROTR of SRL, that of shamt ROTRV of SRLV.
RType ==
    \E op \in RTypeDataOps \cap Ops, rs \in {0, 1}, sa \in BitIndex :
        /\ ins' = Instr(op, rs, 0, sa, 0)
        /\ Operands
        /\ out' = RTypeOutcomes(ins', s', t')

IType ==
    \E op \in ITypeDataOps \cap Ops, imm \in 0 .. IMM_SIZE - 1 :
        /\ ins' = Instr(op, 0, 0, 0, imm)
        /\ Operands
        /\ out' = ITypeOutcomes(ins', s')

Bshfl ==
    \E op \in BshflOps \cap Ops :
        /\ ins' = Instr(op, 0, 0, 0, 0)
        /\ Operands
        /\ out' = BshflOutcomes(ins', s', t')

\* msbd, msb and lsb are fields as wide as a shift amount.
ExtIns ==
    \E op \in {"ext", "ins"} \cap Ops, msb \in BitIndex, lsb \in BitIndex :
        /\ ins' = Instr(op, 0, msb, lsb, 0)
        /\ Operands
        /\ out' = IF op = "ext" THEN ExtOutcomes(ins', s')
                                ELSE InsOutcomes(ins', s', t')

-----------------------------------------------------------------------------
(* The branches, on a register file that gives $0 the value 0 and gives equal *)
(* fields equal values.                                                       *)

\* Values the two fields may read.
Readable(rs, rt, x, y) ==
    /\ rs = 0 => x = 0
    /\ rt = 0 => y = 0
    /\ rs = rt => x = y

Fetch(ops) ==
    /\ ~done /\ done' = TRUE
    /\ \E op \in ops \cap Ops, rs \in Fields, rt \in Fields :
         ins' = [Idle EXCEPT !.op = op, !.rs = rs, !.rt = rt]
    /\ s' \in Word /\ t' \in Word
    /\ Readable(ins'.rs, ins'.rt, s', t')
    /\ UNCHANGED out

IBranch == Fetch(ImmBranchOps) /\ decision' = ImmDecision(ins', s', t')

LongBranch ==
    /\ Fetch({"pop66", "pop76"}) /\ ins'.rs # 0
    /\ decision' = LongDecision(ins', s')

RegimmBranch == Fetch(RegimmOps) /\ decision' = RegimmDecision(ins', s')

-----------------------------------------------------------------------------

Reset ==
    /\ done /\ done' = FALSE
    /\ ins' = Idle
    /\ s' = 0 /\ t' = 0 /\ out' = {0}
    /\ decision' = Undecided

Next ==
    \/ RType \/ IType \/ Bshfl \/ ExtIns
    \/ IBranch \/ LongBranch \/ RegimmBranch
    \/ Reset

Spec == Init /\ [][Next]_vars

-----------------------------------------------------------------------------
(* Properties *)

\* An instruction has exactly one outcome, except the arithmetic shift by 0
\* and the division of INT_MIN by -1 (where the host may trap); it has none,
\* and the handler fails, exactly for a zero divisor or a field that does not
\* fit the word.  In particular the loops of CLZ and CLO end for every word.
OutcomeCount ==
    /\ out \subseteq Word
    /\ out = {} <=> \/ ins.op \in DivisionOps /\ t = 0
                    \/ ins.op = "ext" /\ ins.sa + ins.rd + 1 > WORD_BITS
                    \/ ins.op = "ins" /\ ins.rd < ins.sa
    /\ Cardinality(out) > 1 => ins.op \in {"sra", "srav"} /\ t >= SIGN_BIT

\* The two results of a SOP opcode: shamt 2 delivers the first, 3 the second.
First  == RTypeOutcomes([ins EXCEPT !.sa = 2], s, t)
Second == RTypeOutcomes([ins EXCEPT !.sa = 3], s, t)

\* MUL and MUH (MULU and MUHU) deliver the two halves of the exact product of
\* the signed (unsigned) operands: no bit of it is lost or counted twice.
ProductExact ==
    ins.op \in {"sop30", "sop31"} =>
      \A lo \in First, hi \in Second :
        /\ out = {IF ins.sa = 2 THEN lo ELSE hi}
        /\ ins.op = "sop30" => Signed(hi) * MODULUS + lo = Signed(s) * Signed(t)
        /\ ins.op = "sop31" => hi * MODULUS + lo = s * t

\* DIV and MOD (DIVU and MODU) agree: dividend = quotient * divisor + remainder
\* with a remainder smaller than the divisor and of the dividend's sign.
DivisionExact ==
    ins.op \in DivisionOps /\ t # 0 /\ ~ HostMayTrap(ins, s, t) =>
      \A q \in First, r \in Second :
        /\ out = {IF ins.sa = 2 THEN q ELSE r}
        /\ ins.op = "sop32" =>
             /\ Signed(q) * Signed(t) + Signed(r) = Signed(s)
             /\ Abs(Signed(r)) < Abs(Signed(t))
             /\ Signed(r) * Signed(s) >= 0
        /\ ins.op = "sop33" => q * t + r = s /\ r < t

ShiftAmount == IF ins.op \in {"sllv", "srav", "srlv"} THEN s % WORD_BITS
                                                      ELSE ins.sa
IsRotate == \/ ins.op = "srl" /\ ins.rs % 2 = 1
            \/ ins.op = "srlv" /\ ins.sa % 2 = 1

\* Shifts and rotations as arithmetic: products, quotients and, for SRA by a
\* non-zero amount, the floored quotient of the signed value.
ShiftsExact ==
    \A v \in out :
        LET n == ShiftAmount
            high == t \div 2 ^ n
        IN  /\ ins.op \in {"sll", "sllv"} => v = Wrap(t * 2 ^ n)
            /\ ins.op \in {"sra", "srav"} /\ n > 0 =>
                 Signed(v) = Signed(t) \div 2 ^ n
            /\ ins.op \in {"srl", "srlv"} =>
                 v = IF IsRotate THEN high + (t % 2 ^ n) * 2 ^ (WORD_BITS - n)
                                 ELSE high

\* CLZ brackets the word between two powers of two; CLO counts the leading
\* zeros of the complement.
CountsExact ==
    \A v \in out :
        /\ ins.op = "clz" =>
             s < 2 ^ (WORD_BITS - v) /\ (v < WORD_BITS => s >= 2 ^ (WORD_BITS - 1 - v))
        /\ ins.op = "clo" => v \in LeadingZeros(MODULUS - 1 - s)

\* The comparisons agree with each other: SLT and SLTU with the traps on less,
\* SLTI and SLTIU with SLT and SLTU on the extended immediate, and the traps
\* fall into three pairs of which exactly one member traps.
ComparisonsAgree ==
    LET traps(op, x, y) == TrapCondition(op, x, y)
        imm == SignExt(ins.imm, IMM_SIZE)
    IN  /\ ins.op = "slt"   => out = {Flag(traps("tlt", s, t))}
        /\ ins.op = "sltu"  => out = {Flag(traps("tltu", s, t))}
        /\ ins.op = "slti"  => out = {Flag(traps("tlt", s, imm))}
        /\ ins.op = "sltiu" => out = {Flag(traps("tltu", s, imm))}
        /\ traps("tge", s, t) # traps("tlt", s, t)
        /\ traps("tgeu", s, t) # traps("tltu", s, t)
        /\ traps("teq", s, t) # traps("tne", s, t)

\* AUI of $0 followed by ORI builds every constant from its two halves, and
\* followed by ADDIU from its halves with the carry of a negative low half.
ConstantsFromHalves ==
    \A v \in out :
        LET aui(hi) == [ins EXCEPT !.op = "aui", !.imm = hi]
            low == ins.imm
        IN  \A hi \in 0 .. IMM_SIZE - 1 :
              s \in ITypeOutcomes(aui(hi), 0) =>
                /\ ins.op = "ori" => v = hi * IMM_SIZE + low
                /\ ins.op = "addiu" =>
                     v = Wrap((hi - Flag(low >= IMM_SIZE \div 2)) * IMM_SIZE + low)

\* The comment at executor.hpp:130-132 ("Arithmetic right shift for signed
\* values are implementation dependent, doing this to ensure portability"):
\* every build computes the same arithmetic shift, for every amount.
ArithmeticShiftPortable ==
    ins.op \in {"sra", "srav"} =>
        \A v \in out : Signed(v) = Signed(t) \div 2 ^ ShiftAmount

-----------------------------------------------------------------------------
(* Byte and field instructions *)

\* Reordering bits or bytes twice gives the operand back.
SwapsInvolutive ==
    ins.op \in {"bitswap", "wsbh"} =>
        \A v \in out : BshflOutcomes(ins, 0, v) = {t}

AlignPosition(op) ==
    CASE op = "align_0" -> 0 [] op = "align_1" -> 1
      [] op = "align_2" -> 2 [] op = "align_3" -> 3

\* ALIGN is a window on the two registers concatenated (executor.hpp:671,
\* "Concatenates two GPR's, and extracts a contiguous subset"); at position 0
\* it moves rt.
AlignWindow ==
    ins.op \in {"align_0", "align_1", "align_2", "align_3"} =>
        LET bp == AlignPosition(ins.op)
        IN  out = {((t * MODULUS + s) \div 2 ^ (BYTE_BITS * (4 - bp))) % MODULUS}

\* INS changes the field it names and nothing else, and EXT of the same field
\* reads back what INS put there.
InsertExtract ==
    ins.op = "ins" =>
      LET size == ins.rd - ins.sa + 1
      IN  \A v \in out :
            /\ ExtOutcomes([ins EXCEPT !.rd = size - 1], v) = {s % 2 ^ size}
            /\ v % 2 ^ ins.sa = t % 2 ^ ins.sa
            /\ v \div 2 ^ (ins.rd + 1) = t \div 2 ^ (ins.rd + 1)

-----------------------------------------------------------------------------
(* Branches *)

\* The pairs of opcodes whose variants negate each other.
Opposite ==
    [beq   |-> "bne",   bne   |-> "beq",   pop06 |-> "pop07", pop07 |-> "pop06",
     pop10 |-> "pop30", pop30 |-> "pop10", pop26 |-> "pop27", pop27 |-> "pop26",
     pop66 |-> "pop76", pop76 |-> "pop66", bgez  |-> "bltz",  bltz  |-> "bgez"]

DecisionOf(op) ==
    LET i == [ins EXCEPT !.op = op]
    IN  CASE op \in ImmBranchOps       -> ImmDecision(i, s, t)
          [] op \in {"pop66", "pop76"} -> LongDecision(i, s)
          [] op \in RegimmOps          -> RegimmDecision(i, s)

\* For the same fields and values exactly one of two opposite opcodes branches,
\* and both branch the same way (delayed, compact or linking); only the
\* variantless pop26 and pop27 with rt = 0 fall through together.
OppositesPartition ==
    decision # Undecided =>
      LET other == DecisionOf(Opposite[ins.op])
      IN  /\ decision.how = other.how
          /\ IF ins.op \in {"pop26", "pop27"} /\ ins.rt = 0
             THEN ~decision.taken /\ ~other.taken
             ELSE decision.taken # other.taken

\* The opcodes that branch on an order; pop26 and pop27 have no variant for
\* rt = 0.
OrderOps == {"pop06", "pop07", "pop26", "pop27", "bgez", "bltz"}

OrdersOperands ==
    /\ decision # Undecided
    /\ ins.op \in OrderOps
    /\ ins.op \in {"pop26", "pop27"} => ins.rt # 0

\* What the mnemonic compares: BGEZ and BLTZ rs with 0; without rt, BLEZ and
\* BGTZ 0 with rs; without rs, BLEZALC, BGTZALC, BLEZC and BGTZC 0 with rt; for
\* equal registers, BGEZALC, BLTZALC, BGEZC and BLTZC rt with 0; for two
\* registers, BGEUC, BLTUC, BGEC and BLTC rs with rt, the U as unsigned words.
TwoRegisters == ins.op \notin RegimmOps /\ ins.rs # 0 /\ ins.rt # 0 /\ ins.rs # ins.rt

Compared ==
    CASE ins.op \in RegimmOps -> <<s, 0>>
      [] ins.op \notin RegimmOps /\ ins.rt = 0 -> <<0, s>>
      [] ins.op \notin RegimmOps /\ ins.rt # 0 /\ ins.rs = 0 -> <<0, t>>
      [] ins.op \notin RegimmOps /\ ins.rt # 0 /\ ins.rs = ins.rt -> <<t, 0>>
      [] TwoRegisters -> <<s, t>>

SetOnLess ==
    [ins EXCEPT !.op = IF TwoRegisters /\ ins.op \in {"pop06", "pop07"}
                       THEN "sltu" ELSE "slt"]

\* Every branch on an order decides as SLT, or SLTU for BGEUC and BLTUC, of the
\* two values its mnemonic compares (executor.hpp:315-376, 428-473, 773-790):
\* one half of the opcodes branches exactly when that comparison sets its
\* destination to 1, the other half exactly when it sets it to 0.
ComparisonsOrder ==
    OrdersOperands =>
      LET less == RTypeOutcomes(SetOnLess, Compared[1], Compared[2])
      IN  /\ less \in {{0}, {1}}
          /\ decision.taken <=>
               less = {Flag(ins.op \in {"pop07", "pop27", "bltz"})}

\* BOVC branches exactly when the signed sum of its operands does not fit a
\* word: the variable it tests is `sum_overflow` (executor.hpp:398, 422), and
\* the test "BOVC - No Branch" (tests/executor/itype.cpp) names the contrary.
SumOverflowExact ==
    LET sum == Signed(s) + Signed(t)
    IN  ins.op = "pop10" /\ ins.rs >= ins.rt /\ decision # Undecided =>
          (decision.taken <=> sum < -SIGN_BIT \/ sum >= SIGN_BIT)
=============================================================================
