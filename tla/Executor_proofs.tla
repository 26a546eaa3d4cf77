--------------------------- MODULE Executor_proofs ---------------------------
(***************************************************************************)
(* Theorems about Executor for words of any width, any number of           *)
(* registers, any program and any memory contents.                         *)
(*                                                                         *)
(* The argument: every instruction ends in one of five ways (StepForms),   *)
(* and each theorem is checked on those five ways only.                    *)
(***************************************************************************)
EXTENDS Executor, RegisterFile_proofs

LEMMA IndexFacts ==
  /\ 0 \in Index
  /\ RA \in Index
  /\ Index \subseteq Int
  BY RegisterAssumption DEF Index, RA

\* update_pc goes to the address the two-counter machine fetches next.
LEMMA NextPcIsNextFetch ==
  ASSUME RegisterTypeOK
  PROVE  NextPc = NextFetch /\ NextPc \in Word
  BY NextPcValue DEF NextFetch, Add

-----------------------------------------------------------------------------
(* The outcomes of the data instructions are integers *)

LEMMA InstructionFields ==
  ASSUME NEW i \in Program
  PROVE  /\ i.rs \in Index /\ i.rt \in Index /\ i.rd \in Index
         /\ i.imm \in Word
  BY ExecutorAssumption DEF Instruction

LEMMA OperandWords ==
  ASSUME RegisterTypeOK, NEW i \in Program
  PROVE  S(i) \in Word /\ T(i) \in Word
  BY InstructionFields, IndexFacts, ReadWord DEF S, T, RegisterTypeOK

LEMMA QuotientInt ==
  ASSUME NEW a \in Int, NEW b \in Int, b # 0
  PROVE  Quotient(a, b) \in Int /\ Remainder(a, b) \in Int
  <1>1. Abs(a) \in Nat /\ Abs(b) \in Nat /\ Abs(b) > 0  BY DEF Abs
  <1>2. Abs(a) \div Abs(b) \in Int  BY <1>1
  <1>3. Quotient(a, b) \in Int  BY <1>2 DEF Quotient
  <1>4. b * Quotient(a, b) \in Int  BY <1>3
  <1> QED  BY <1>3, <1>4 DEF Remainder

LEMMA SopWord ==
  ASSUME NEW n, NEW x \in Int, NEW y \in Int
  PROVE  Sop(n, x, y) \subseteq Word
  BY WrapWord DEF Sop

LEMMA HiMulWord ==
  ASSUME NEW a \in Int, NEW b \in Int
  PROVE  HiMul(a, b) \in Word
  <1>1. MODULUS \in Nat \ {0}  BY WordAssumption DEF MODULUS
  <1>2. a * b \in Int  OBVIOUS
  <1>3. (a * b) \div MODULUS \in Int  BY <1>1, <1>2
  <1> QED  BY <1>3, WrapWord DEF HiMul

LEMMA MultiplyInt ==
  ASSUME NEW op \in {"sop30", "sop31"}, NEW n, NEW s \in Word, NEW t \in Word
  PROVE  Multiply(op, n, s, t) \subseteq Int
  <1>1. s \in Int /\ t \in Int /\ Signed(s) \in Int /\ Signed(t) \in Int
    BY WordInt, SignedInt
  <1>2. s * t \in Int /\ Signed(s) * Signed(t) \in Int  BY <1>1
  <1>3. /\ HiMul(s, t) \in Int
        /\ HiMul(Signed(s), Signed(t)) \in Int
    BY <1>1, HiMulWord, WordInt
  <1> QED  BY <1>2, <1>3, SopWord, WordInt DEF Multiply

LEMMA DivideInt ==
  ASSUME NEW op \in {"sop32", "sop33"}, NEW n, NEW s \in Word, NEW t \in Word
  PROVE  Divide(op, n, s, t) \subseteq Int
  <1>1. CASE t = 0  BY <1>1 DEF Divide
  <1>2. CASE t # 0
    <2>1. /\ s \in Int /\ t \in Nat \ {0}
          /\ Signed(s) \in Int /\ Signed(t) \in Int /\ Signed(t) # 0
      BY <1>2, WordAssumption DEF Signed, Word, MODULUS
    <2>2. s \div t \in Int /\ s % t \in Int  BY <2>1
    <2>3. /\ Quotient(Signed(s), Signed(t)) \in Int
          /\ Remainder(Signed(s), Signed(t)) \in Int
      BY <2>1, QuotientInt
    <2> QED  BY <1>2, <2>2, <2>3, SopWord, WordInt DEF Divide
  <1> QED  BY <1>1, <1>2

LEMMA LogicWord ==
  ASSUME NEW op \in {"and", "andi", "or", "ori", "xor", "xori", "nor"},
         NEW s, NEW t
  PROVE  Logic(op, s, t) \subseteq Word
  BY WordOfWord DEF Logic

LEMMA ShiftWord ==
  ASSUME NEW i, i.op \in {"sll", "sllv", "sra", "srav", "srl", "srlv"},
         NEW s, NEW t
  PROVE  Shift(i, s, t) \subseteq Word
  <1>1. \A n : ShiftRightArithmetic(t, n) \subseteq Word
    BY WordOfWord DEF ShiftRightArithmetic
  <1>2. \A n, r : ShiftRight(t, n, r) \subseteq Word
    BY WordOfWord DEF ShiftRight
  <1> QED  BY <1>1, <1>2, WordOfWord DEF Shift

LEMMA RTypeOutcomesInt ==
  ASSUME NEW i, i.op \in RTypeDataOps, NEW s \in Word, NEW t \in Word
  PROVE  RTypeOutcomes(i, s, t) \subseteq Int
  <1>1. s \in Int /\ t \in Int  BY WordInt
  <1>2. Add(s, t) \in Int  BY <1>1, AddWord, WordInt
  <1>3. Wrap(s - t) \in Int
    <2>1. s - t \in Int  BY <1>1
    <2> QED  BY <2>1, WrapWord, WordInt
  <1>4. \A b : Flag(b) \in Int  BY DEF Flag
  <1>5. LeadingZeros(s) \subseteq Int /\ LeadingOnes(s) \subseteq Int
    BY WordInt DEF LeadingZeros, LeadingOnes
  <1>6. i.op \in {"sop30", "sop31"} => Multiply(i.op, i.sa, s, t) \subseteq Int
    BY MultiplyInt
  <1>7. i.op \in DivisionOps => Divide(i.op, i.sa, s, t) \subseteq Int
    BY DivideInt DEF DivisionOps
  <1>8. i.op \in {"and", "nor", "or", "xor"} => Logic(i.op, s, t) \subseteq Int
    BY LogicWord, WordInt
  <1>9. ASSUME i.op \in {"sll", "sllv", "sra", "srav", "srl", "srlv"}
        PROVE  Shift(i, s, t) \subseteq Int
    <2>1. Shift(i, s, t) \subseteq Word  BY <1>9, ShiftWord
    <2> QED  BY <2>1, WordInt
  <1> QED
    BY <1>1, <1>2, <1>3, <1>4, <1>5, <1>6, <1>7, <1>8, <1>9
    DEF RTypeOutcomes, RTypeDataOps, DivisionOps

LEMMA ITypeOutcomesInt ==
  ASSUME NEW i \in Program, i.op \in ITypeDataOps, NEW s \in Word
  PROVE  ITypeOutcomes(i, s) \subseteq Int
  <1>1. i.imm \in Int /\ s \in Int  BY InstructionFields, WordInt
  <1>2. IMM_SIZE \in Nat  BY AluAssumption
  <1>3. SignExt(i.imm, IMM_SIZE) \in Int  BY <1>1, <1>2, SignExtWord, WordInt
  <1>4. SignExt(i.imm * IMM_SIZE, IMM_SIZE) \in Int
    <2>1. i.imm * IMM_SIZE \in Int  BY <1>1, <1>2
    <2> QED  BY <2>1, <1>2, SignExtWord, WordInt
  <1>5. \A x \in Int : Add(s, x) \in Int
    BY <1>1, AddWord, WordInt
  <1>6. \A b : Flag(b) \in Int  BY DEF Flag
  <1>7. i.op \in {"andi", "ori", "xori"} => Logic(i.op, s, i.imm) \subseteq Int
    BY LogicWord, WordInt
  <1> QED
    BY <1>3, <1>4, <1>5, <1>6, <1>7 DEF ITypeOutcomes, ITypeDataOps

LEMMA Special3OutcomesInt ==
  ASSUME NEW i, NEW s, NEW t
  PROVE  /\ i.op \in BshflOps => BshflOutcomes(i, s, t) \subseteq Int
         /\ ExtOutcomes(i, s) \subseteq Int
         /\ InsOutcomes(i, s, t) \subseteq Int
  <1>1. \A n : Align(n, s, t) \subseteq Word  BY WordOfWord DEF Align
  <1>2. \A n : SignExtendLow(t, n) \subseteq Word
    BY WordOfWord DEF SignExtendLow
  <1>3. i.op \in BshflOps => BshflOutcomes(i, s, t) \subseteq Word
    BY <1>1, <1>2, WordOfWord DEF BshflOps, BshflOutcomes
  <1>4. ExtOutcomes(i, s) \subseteq Word  BY WordOfWord DEF ExtOutcomes
  <1>5. InsOutcomes(i, s, t) \subseteq Word  BY WordOfWord DEF InsOutcomes
  <1> QED  BY <1>3, <1>4, <1>5, WordInt

-----------------------------------------------------------------------------
(* The five ways a step ends *)

IInv == TypeOK /\ ZeroRegister

LinkedRegs == Written(RA, NextPc)

Untouched     == result' \in {"failed", "killed"} /\ UNCHANGED rfVars
SomeTrap      == \E i \in Program : i.op \in TrapOps /\ TrapStep(i)
SomeResult    == \E r \in GoodRegs : Sequential(r)
SomeDelayed   == \E t \in Word, r \in {regs, LinkedRegs} : Delayed(t, r)
SomeCompact   == \E t \in Word, r \in {regs, LinkedRegs} : Compact(t, r)

StepForm == \/ Untouched \/ Reject \/ SomeTrap
            \/ SomeResult \/ SomeDelayed \/ SomeCompact

LEMMA InvFacts ==
  ASSUME IInv
  PROVE  /\ RegisterTypeOK
         /\ regs \in [Index -> Word] /\ regs \in GoodRegs
         /\ pc \in Int /\ NextPc \in Word /\ NextPc \in Int
         /\ LinkedRegs \in GoodRegs
  <1>1. RegisterTypeOK  BY DEF IInv, TypeOK
  <1>2. regs \in [Index -> Word]  BY <1>1 DEF RegisterTypeOK
  <1>3. regs \in GoodRegs  BY <1>2 DEF IInv, ZeroRegister, GoodRegs
  <1>4. NextPc \in Word /\ NextPc \in Int  BY <1>1, NextPcIsNextFetch, WordInt
  <1>5. LinkedRegs \in GoodRegs  BY <1>2, <1>4, IndexFacts, WrittenGood DEF LinkedRegs
  <1>6. pc \in Int  BY <1>1, WordInt DEF RegisterTypeOK
  <1> QED  BY <1>1, <1>2, <1>3, <1>4, <1>5, <1>6

LEMMA TargetWords ==
  ASSUME IInv, NEW i \in Program
  PROVE  /\ BranchTarget(i) \in Word
         /\ LongTarget(i) \in Word
         /\ RegionTarget(i) \in Word
         /\ FarTarget(i) \in Word
         /\ PcrelAddress(i) \in Int
  <1>1. NextPc \in Int  BY InvFacts
  <1>2. i.imm \in Int /\ i.rt \in Int  BY InstructionFields, WordInt, IndexFacts
  <1>3. /\ IMM_SIZE \in Nat /\ REGISTER_COUNT \in Nat
        /\ ADDR_SIZE \in Nat \ {0} /\ PCREL_SIZE \in Nat \ {0}
        /\ PCREL_EXT \in Nat
    BY AluAssumption, RegisterAssumption, ExecutorAssumption
  <1>4. \A x \in Int, n \in Nat : NextPc + SignExt(x, n) * 4 \in Int
    <2> TAKE x \in Int, n \in Nat
    <2>1. SignExt(x, n) \in Int  BY SignExtWord, WordInt
    <2> QED  BY <1>1, <2>1
  <1>5. BranchTarget(i) \in Word
    BY <1>2, <1>3, <1>4, WrapWord DEF BranchTarget
  <1>6. LongTarget(i) \in Word
    <2>1. i.rt * IMM_SIZE + i.imm \in Int  BY <1>2, <1>3
    <2>2. LONG_SIZE \in Nat  BY <1>3 DEF LONG_SIZE
    <2> QED  BY <2>1, <2>2, <1>4, WrapWord DEF LongTarget
  <1>7. RegionTarget(i) \in Word
    <2>1. i.imm * 4 + (NextPc - (NextPc % (4 * ADDR_SIZE))) \in Int
      BY <1>1, <1>2, <1>3
    <2> QED  BY <2>1, WrapWord DEF RegionTarget
  <1>8. FarTarget(i) \in Word
    BY <1>2, <1>3, <1>4, WrapWord DEF FarTarget
  <1>9. PcrelAddress(i) \in Int
    <2> DEFINE address == i.imm * 4
               bit21 == (address \div (4 * PCREL_SIZE)) % 2
    <2>1. address \in Int /\ 4 * PCREL_SIZE \in Nat \ {0}  BY <1>2, <1>3
    <2>2. bit21 \in Int  BY <2>1
    <2> HIDE DEF address, bit21
    <2>3. address + PCREL_EXT * bit21 + NextPc \in Int  BY <1>1, <1>3, <2>1, <2>2
    <2> QED  BY <2>3, WrapWord, WordInt DEF PcrelAddress, address, bit21
  <1> QED  BY <1>5, <1>6, <1>7, <1>8, <1>9

\* A register write of an integer, a set of integer outcomes and a branch to a
\* word each end in one of the five ways.
LEMMA WriteForm ==
  ASSUME IInv, NEW d \in Index, NEW v \in Int, Sequential(Written(d, v))
  PROVE  StepForm
  <1>1. Written(d, v) \in GoodRegs  BY InvFacts, IndexFacts, WrittenGood
  <1> QED  BY <1>1 DEF StepForm, SomeResult

LEMMA WriteBackForm ==
  ASSUME IInv, NEW d \in Index, NEW outcomes \in SUBSET Int,
         WriteBack(d, outcomes)
  PROVE  StepForm
  <1>1. CASE outcomes = {} /\ Reject  BY <1>1 DEF StepForm
  <1>2. CASE \E v \in outcomes : Sequential(Written(d, v))
    BY <1>2, WriteForm
  <1> QED  BY <1>1, <1>2 DEF WriteBack

LEMMA BranchForm ==
  ASSUME IInv, NEW decision, NEW target \in Word, Branch(decision, target)
  PROVE  StepForm
  <1>1. CASE Sequential(regs)  BY <1>1, InvFacts DEF StepForm, SomeResult
  <1>2. CASE Delayed(target, regs)  BY <1>2 DEF StepForm, SomeDelayed
  <1>3. CASE Compact(target, regs)  BY <1>3 DEF StepForm, SomeCompact
  <1>4. CASE Compact(target, LinkedRegs)  BY <1>4 DEF StepForm, SomeCompact
  <1> QED  BY <1>1, <1>2, <1>3, <1>4 DEF Branch, LinkedRegs

-----------------------------------------------------------------------------
(* Each handler ends in one of the five ways *)

LEMMA RTypeForm ==
  ASSUME IInv, NEW i \in Program, RType(i)
  PROVE  StepForm
  <1>0. /\ S(i) \in Word /\ T(i) \in Word
        /\ i.rd \in Index
    BY InvFacts, OperandWords, InstructionFields
  <1>1. CASE i.op = "jr" /\ Delayed(S(i), regs)
    BY <1>0, <1>1 DEF StepForm, SomeDelayed
  <1>2. CASE i.op = "jalr" /\ Delayed(S(i), LinkedRegs)
    BY <1>0, <1>2 DEF StepForm, SomeDelayed
  <1>3. CASE i.op \in TrapOps /\ TrapStep(i)
    BY <1>3 DEF StepForm, SomeTrap
  <1>4. CASE /\ i.op \in RTypeDataOps
             /\ WriteBack(i.rd, RTypeOutcomes(i, S(i), T(i)))
    <2>1. RTypeOutcomes(i, S(i), T(i)) \in SUBSET Int
      BY <1>0, <1>4, RTypeOutcomesInt
    <2> QED  BY <1>0, <1>4, <2>1, WriteBackForm
  <1>5. CASE Kill  BY <1>5 DEF Kill, StepForm, Untouched
  <1>6. CASE Reject  BY <1>6 DEF StepForm
  <1> QED  BY <1>1, <1>2, <1>3, <1>4, <1>5, <1>6 DEF RType, LinkedRegs

LEMMA LoadedInt ==
  ASSUME NEW op \in LoadOps, NEW v \in Word
  PROVE  LoadedValue(op, v) \in Int
  <1>1. /\ v \in Int
        /\ BYTE_SIZE \in Nat \ {0} /\ IMM_SIZE \in Nat \ {0}
    BY WordInt, AluAssumption
  <1>2. v % BYTE_SIZE \in Int /\ v % IMM_SIZE \in Int  BY <1>1
  <1>3. /\ SignExt(v % BYTE_SIZE, BYTE_SIZE) \in Int
        /\ SignExt(v % IMM_SIZE, IMM_SIZE) \in Int
    BY <1>1, <1>2, SignExtWord, WordInt
  <1> QED  BY <1>1, <1>2, <1>3 DEF LoadedValue, LoadOps

LEMMA LoadStoreForm ==
  ASSUME IInv, NEW i \in Program, LoadStore(i)
  PROVE  StepForm
  <1>1. CASE Reject  BY <1>1 DEF StepForm
  <1>2. CASE Sequential(regs)  BY <1>2, InvFacts DEF StepForm, SomeResult
  <1>3. ASSUME i.op \in LoadOps, NEW v \in MemoryData,
               Sequential(Written(i.rt, LoadedValue(i.op, v)))
        PROVE  StepForm
    <2>1. v \in Word  BY ExecutorAssumption
    <2>2. LoadedValue(i.op, v) \in Int  BY <1>3, <2>1, LoadedInt
    <2> QED  BY <1>3, <2>2, InstructionFields, WriteForm
  <1> QED  BY <1>1, <1>2, <1>3 DEF LoadStore

LEMMA IndirectWord ==
  ASSUME IInv, NEW i \in Program, NEW r \in GoodRegs
  PROVE  IndirectTarget(i, r) \in Word
  <1>1. Masked(i.rt) \in Index
    BY InstructionFields, IndexFacts, MaskedIndex
  <1>2. r[Masked(i.rt)] \in Int  BY <1>1, WordInt DEF GoodRegs
  <1>3. i.imm \in Int /\ IMM_SIZE \in Nat
    BY InstructionFields, WordInt, AluAssumption
  <1>4. SignExt(i.imm, IMM_SIZE) \in Int  BY <1>3, SignExtWord, WordInt
  <1>5. r[Masked(i.rt)] + SignExt(i.imm, IMM_SIZE) \in Int  BY <1>2, <1>4
  <1> QED  BY <1>5, WrapWord DEF IndirectTarget

LEMMA ITypeForm ==
  ASSUME IInv, NEW i \in Program, IType(i)
  PROVE  StepForm
  <1>0. /\ S(i) \in Word
        /\ i.rt \in Index
        /\ BranchTarget(i) \in Word /\ LongTarget(i) \in Word
        /\ \A r \in GoodRegs : IndirectTarget(i, r) \in Word
        /\ regs \in GoodRegs /\ LinkedRegs \in GoodRegs
    BY InvFacts, OperandWords, InstructionFields, TargetWords, IndirectWord
  <1>1. CASE /\ i.op \in ITypeDataOps
             /\ WriteBack(i.rt, ITypeOutcomes(i, S(i)))
    <2>1. ITypeOutcomes(i, S(i)) \in SUBSET Int
      BY <1>0, <1>1, ITypeOutcomesInt
    <2> QED  BY <1>0, <1>1, <2>1, WriteBackForm
  <1>2. CASE Branch(ImmDecision(i, S(i), T(i)), BranchTarget(i))
    BY <1>0, <1>2, BranchForm
  <1>3. CASE Compact(IndirectTarget(i, regs), regs)
    BY <1>0, <1>3 DEF StepForm, SomeCompact
  <1>4. CASE Jialc(i)
    BY <1>0, <1>4 DEF StepForm, SomeCompact, Jialc, LinkedRegs
  <1>5. CASE Branch(LongDecision(i, S(i)), LongTarget(i))
    BY <1>0, <1>5, BranchForm
  <1> QED  BY <1>1, <1>2, <1>3, <1>4, <1>5 DEF IType

LEMMA JTypeForm ==
  ASSUME IInv, NEW i \in Program, JType(i)
  PROVE  StepForm
  <1>1. RegionTarget(i) \in Word /\ FarTarget(i) \in Word  BY TargetWords
  <1> QED
    BY <1>1 DEF JType, StepForm, SomeDelayed, SomeCompact, LinkedRegs

LEMMA Special3Form ==
  ASSUME IInv, NEW i \in Program, Special3(i)
  PROVE  StepForm
  <1>0. i.rd \in Index /\ i.rt \in Index  BY InstructionFields
  <1>1. ASSUME i.op \in BshflOps,
               WriteBack(i.rd, BshflOutcomes(i, S(i), T(i)))
        PROVE  StepForm
    <2>1. BshflOutcomes(i, S(i), T(i)) \in SUBSET Int
      BY <1>1, Special3OutcomesInt
    <2> QED  BY <1>0, <1>1, <2>1, WriteBackForm
  <1>2. ASSUME WriteBack(i.rt, ExtOutcomes(i, S(i)))
        PROVE  StepForm
    <2>1. ExtOutcomes(i, S(i)) \in SUBSET Int  BY Special3OutcomesInt
    <2> QED  BY <1>0, <1>2, <2>1, WriteBackForm
  <1>3. ASSUME WriteBack(i.rt, InsOutcomes(i, S(i), T(i)))
        PROVE  StepForm
    <2>1. InsOutcomes(i, S(i), T(i)) \in SUBSET Int  BY Special3OutcomesInt
    <2> QED  BY <1>0, <1>3, <2>1, WriteBackForm
  <1>4. CASE Reject  BY <1>4 DEF StepForm
  <1> QED  BY <1>1, <1>2, <1>3, <1>4 DEF Special3

LEMMA RegimmForm ==
  ASSUME IInv, NEW i \in Program, Regimm(i)
  PROVE  StepForm
  <1>0. BranchTarget(i) \in Word  BY TargetWords
  <1>1. CASE Branch(RegimmDecision(i, S(i)), BranchTarget(i))
    BY <1>0, <1>1, BranchForm
  <1>2. CASE Reject  BY <1>2 DEF StepForm
  <1> QED  BY <1>1, <1>2 DEF Regimm

LEMMA PcRelativeForm ==
  ASSUME IInv, NEW i \in Program, PcRelative1(i) \/ PcRelative2(i)
  PROVE  StepForm
  <1>0. /\ i.rs \in Index /\ i.imm \in Int
        /\ PcrelAddress(i) \in Int
        /\ NextPc \in Int
        /\ IMM_SIZE \in Nat \ {0}
    BY InvFacts, InstructionFields, TargetWords, WordInt, AluAssumption
  <1>1. ASSUME NEW v \in Int, Sequential(Written(i.rs, v)) PROVE StepForm
    BY <1>0, <1>1, WriteForm
  <1>2. CASE Reject  BY <1>2 DEF StepForm
  <1>3. ASSUME NEW v \in MemoryData, Sequential(Written(i.rs, v))
        PROVE  StepForm
    <2>1. v \in Int  BY ExecutorAssumption, WordInt
    <2> QED  BY <1>1, <1>3, <2>1
  <1>4. CASE PcRelative1(i)
    BY <1>0, <1>1, <1>2, <1>3, <1>4 DEF PcRelative1
  <1>5. CASE PcRelative2(i)
    <2> DEFINE address == Wrap(i.imm * IMM_SIZE + NextPc)
    <2>1. i.imm * IMM_SIZE + NextPc \in Int  BY <1>0
    <2>2. address \in Int  BY <2>1, WrapWord, WordInt
    <2> HIDE DEF address
    <2>3. address - (address % IMM_SIZE) \in Int  BY <1>0, <2>2
    <2> QED
      BY <1>1, <1>2, <1>5, <2>2, <2>3 DEF PcRelative2, address
  <1> QED  BY <1>4, <1>5

LEMMA StepForms ==
  ASSUME IInv, Next
  PROVE  StepForm
  <1>1. CASE FetchFault  BY <1>1 DEF FetchFault, StepForm, Untouched
  <1>2. ASSUME NEW i \in Program, Unhandled(i) PROVE StepForm
    BY <1>2 DEF Unhandled, StepForm
  <1> QED
    BY <1>1, <1>2, RTypeForm, LoadStoreForm, ITypeForm, JTypeForm,
       Special3Form, RegimmForm, PcRelativeForm DEF Next

-----------------------------------------------------------------------------
(* The invariant *)

LEMMA InitIInv == Init => IInv
  <1> SUFFICES ASSUME Init PROVE IInv  OBVIOUS
  <1>1. regs \in [Index -> Word] /\ regs[0] = 0
    BY IndexFacts, WordInt DEF Init, RegisterInit
  <1>2. bad_instr \in RawInstr  BY RegisterAssumption DEF Init, RegisterInit
  <1> QED
    BY <1>1, <1>2, WordInt
    DEF Init, RegisterInit, IInv, TypeOK, RegisterTypeOK, ZeroRegister, CauseValue

LEMMA StepIInv == IInv /\ [Next]_vars => IInv'
  <1> SUFFICES ASSUME IInv, [Next]_vars PROVE IInv'  OBVIOUS
  <1> USE DEF IInv, TypeOK, RegisterTypeOK, ZeroRegister
  <1>1. CASE UNCHANGED vars  BY <1>1 DEF vars, rfVars
  <1>2. CASE Next
    <2>1. StepForm  BY <1>2, StepForms
    <2>0. regs \in GoodRegs /\ NextPc \in Word /\ LinkedRegs \in GoodRegs
      BY InvFacts
    <2>2. CASE Untouched  BY <2>2 DEF Untouched, rfVars
    <2>3. CASE Reject  BY <2>0, <2>3 DEF Reject
    <2>4. CASE SomeTrap
      <3>1. PICK i \in Program : TrapStep(i)  BY <2>4 DEF SomeTrap
      <3>2. i \in RawInstr  BY ExecutorAssumption
      <3>3. CASE TrapCondition(i.op, S(i), T(i))
        BY <2>0, <3>1, <3>2, <3>3 DEF TrapStep, CauseValue, Exception
      <3>4. CASE ~TrapCondition(i.op, S(i), T(i))
        BY <2>0, <3>1, <3>4 DEF TrapStep, Sequential
      <3> QED  BY <3>3, <3>4
    <2>5. CASE SomeResult
      BY <2>0, <2>5 DEF SomeResult, Sequential, GoodRegs
    <2>6. CASE SomeDelayed
      BY <2>0, <2>6 DEF SomeDelayed, Delayed, GoodRegs
    <2>7. CASE SomeCompact
      BY <2>0, <2>7 DEF SomeCompact, Compact, GoodRegs
    <2> QED  BY <2>1, <2>2, <2>3, <2>4, <2>5, <2>6, <2>7 DEF StepForm
  <1> QED  BY <1>1, <1>2

\* Every state of the executor is a state of the register file, and $0 reads
\* as zero in it: no instruction, index or value escapes the masks of the
\* setters (register_file.hpp:58-81).
THEOREM ExecutorInvariant == Spec => []IInv
  BY InitIInv, StepIInv, PTL DEF Spec

\* The type invariant the runs check, for words of every width, any number of
\* registers, any program and any memory (register_file.hpp, executor.hpp).
THEOREM ExecutorTypeOK == Spec => []TypeOK
  <1>1. IInv => TypeOK  BY DEF IInv
  <1> QED  BY <1>1, ExecutorInvariant, PTL

\* $0 is zero after every step of every program (register_file.hpp:67).
THEOREM ExecutorZeroRegister == Spec => []ZeroRegister
  <1>1. IInv => ZeroRegister  BY DEF IInv
  <1> QED  BY <1>1, ExecutorInvariant, PTL

-----------------------------------------------------------------------------
(* The action properties *)

\* A step that returns false has changed nothing, or has skipped exactly one
\* instruction and left no branch pending (executor.hpp:897-948).
THEOREM ExecutorFailedStepAtomic == Spec => FailedStepAtomic
  <1> DEFINE Atomic ==
        result' = "failed" =>
          /\ regs' = regs
          /\ \/ UNCHANGED <<pc, branch_flag, branch_target>>
             \/ pc' = NextFetch /\ ~branch_flag'
  <1>1. ASSUME IInv, Next PROVE Atomic
    <2>1. StepForm  BY <1>1, StepForms
    <2>2. NextPc = NextFetch  BY <1>1, InvFacts, NextPcIsNextFetch
    <2>3. CASE Untouched  BY <2>3 DEF Untouched, rfVars
    <2>4. CASE Reject  BY <2>2, <2>4 DEF Reject
    <2>5. CASE SomeTrap  BY <2>2, <2>5 DEF SomeTrap, TrapStep, Sequential
    <2>6. CASE SomeResult \/ SomeDelayed \/ SomeCompact
      BY <2>6
      DEF SomeResult, SomeDelayed, SomeCompact, Sequential, Delayed, Compact
    <2> QED  BY <2>1, <2>3, <2>4, <2>5, <2>6 DEF StepForm
  <1>2. IInv /\ [Next]_vars => [Atomic]_vars  BY <1>1
  <1> HIDE DEF Atomic
  <1>3. Spec => [][Atomic]_vars
    BY <1>2, ExecutorInvariant, PTL DEF Spec
  <1> QED  BY <1>3 DEF FailedStepAtomic, Atomic

\* The exception record changes only in a step whose trap condition held
\* (executor.hpp:35-40, 217-223).
THEOREM ExecutorTrapsPrecise == Spec => TrapsPrecise
  <1> DEFINE Precise ==
        <<bad_instr', cause_register'>> # <<bad_instr, cause_register>> =>
          /\ result' = "failed"
          /\ cause_register' = "tr"
          /\ bad_instr' \in Program
          /\ bad_instr'.op \in TrapOps
          /\ TrapCondition(bad_instr'.op, S(bad_instr'), T(bad_instr'))
  <1>1. ASSUME IInv, Next PROVE Precise
    <2>1. StepForm  BY <1>1, StepForms
    <2>2. CASE Untouched  BY <2>2 DEF Untouched, rfVars
    <2>3. CASE SomeTrap
      <3>1. PICK i \in Program : i.op \in TrapOps /\ TrapStep(i)
        BY <2>3 DEF SomeTrap
      <3>2. CASE TrapCondition(i.op, S(i), T(i))
        <4>1. bad_instr' = i /\ cause_register' = "tr" /\ result' = "failed"
          BY <3>1, <3>2 DEF TrapStep
        <4> QED  BY <3>1, <3>2, <4>1
      <3>3. CASE ~TrapCondition(i.op, S(i), T(i))
        BY <3>1, <3>3 DEF TrapStep, Sequential
      <3> QED  BY <3>2, <3>3
    <2>4. CASE Reject \/ SomeResult \/ SomeDelayed \/ SomeCompact
      BY <2>4
      DEF Reject, SomeResult, SomeDelayed, SomeCompact, Sequential, Delayed,
          Compact
    <2> QED  BY <2>1, <2>2, <2>3, <2>4 DEF StepForm
  <1>2. IInv /\ [Next]_vars => [Precise]_vars  BY <1>1
  <1> HIDE DEF Precise
  <1>3. Spec => [][Precise]_vars
    BY <1>2, ExecutorInvariant, PTL DEF Spec
  <1> QED  BY <1>3 DEF TrapsPrecise, Precise

-----------------------------------------------------------------------------
(* The refinement of DelaySlots *)

\* The two machines have the same words.
LEMMA SameWords ==
  /\ DS!Word = Word
  /\ \A x, y : DS!Add(x, y) = Add(x, y)
  BY DEF DS!Word, DS!MODULUS, DS!Add, DS!Wrap, Word, MODULUS, Add, Wrap

\* $31 after a step that may link: kept, or the address of the next fetch.
\* With a single register $31 is $0, and linking leaves it zero.
LEMMA LinkedRA ==
  ASSUME IInv, NEW r \in {regs, LinkedRegs}
  PROVE  r[RA] \in {regs[RA], NextFetch}
  <1>1. CASE r = regs  BY <1>1
  <1>2. CASE r = LinkedRegs
    <2>0. /\ regs \in [Index -> Word] /\ regs[0] = 0
          /\ NextPc \in Word /\ NextPc = NextFetch
          /\ RA \in Index /\ 0 \in Index
      BY InvFacts, NextPcIsNextFetch, IndexFacts DEF IInv, ZeroRegister
    <2>1. Masked(RA) = RA /\ Wrap(NextPc) = NextFetch
      BY <2>0, MaskedId, WrapId
    <2>2. LinkedRegs = [[regs EXCEPT ![RA] = NextFetch] EXCEPT ![0] = 0]
      BY <2>1 DEF LinkedRegs, Written
    <2>3. CASE RA = 0  BY <1>2, <2>0, <2>2, <2>3
    <2>4. CASE RA # 0  BY <1>2, <2>0, <2>2, <2>4
    <2> QED  BY <2>3, <2>4
  <1> QED  BY <1>1, <1>2

LEMMA InitDelaySlots == Init => DS!Init
  BY SameWords, IndexFacts
  DEF Init, RegisterInit, DS!Init, NextFetch

LEMMA StepDelaySlots == IInv /\ [Next]_vars => [DS!Next]_DS!vars
  <1> SUFFICES ASSUME IInv, [Next]_vars PROVE [DS!Next]_DS!vars
    OBVIOUS
  <1>1. CASE UNCHANGED vars
    BY <1>1 DEF vars, rfVars, DS!vars, NextFetch
  <1>2. CASE Next
    <2>1. StepForm  BY <1>2, StepForms
    <2>2. /\ NextPc = NextFetch /\ NextFetch \in Word
          /\ RA \in Index
          /\ regs \in GoodRegs
      BY InvFacts, NextPcIsNextFetch, IndexFacts
    <2>3. ASSUME NEW r \in GoodRegs, regs' = r, pc' = NextPc, ~branch_flag'
          PROVE  DS!FallThrough
      <3>1. NextFetch' = Add(NextFetch, 4)
        BY <2>2, <2>3 DEF NextFetch, Add
      <3>2. regs'[RA] \in Word  BY <2>2, <2>3 DEF GoodRegs
      <3> QED  BY <2>2, <2>3, <3>1, <3>2, SameWords DEF DS!FallThrough
    <2>4. CASE Untouched
      BY <2>4 DEF Untouched, rfVars, DS!vars, NextFetch
    <2>5. CASE Reject
      <3>1. DS!FallThrough  BY <2>2, <2>3, <2>5 DEF Reject
      <3> QED  BY <3>1 DEF DS!Next
    <2>6. CASE SomeTrap
      <3>1. DS!FallThrough
        BY <2>2, <2>3, <2>6 DEF SomeTrap, TrapStep, Sequential
      <3> QED  BY <3>1 DEF DS!Next
    <2>7. CASE SomeResult
      <3>1. DS!FallThrough
        BY <2>3, <2>7 DEF SomeResult, Sequential
      <3> QED  BY <3>1 DEF DS!Next
    <2>8. CASE SomeDelayed
      <3>1. PICK t \in Word, r \in {regs, LinkedRegs} : Delayed(t, r)
        BY <2>8 DEF SomeDelayed
      <3>2. NextFetch' = t  BY <3>1 DEF Delayed, NextFetch
      <3>3. regs'[RA] \in {regs[RA], NextFetch}
        BY <3>1, LinkedRA DEF Delayed
      <3>4. DS!DelayedBranch
        BY <2>2, <3>1, <3>2, <3>3, SameWords DEF Delayed, DS!DelayedBranch
      <3> QED  BY <3>4 DEF DS!Next
    <2>9. CASE SomeCompact
      <3>1. PICK t \in Word, r \in {regs, LinkedRegs} : Compact(t, r)
        BY <2>9 DEF SomeCompact
      <3>2. NextFetch' = Add(pc', 4)  BY <3>1 DEF Compact, NextFetch, Add
      <3>3. regs'[RA] \in {regs[RA], NextFetch}
        BY <3>1, LinkedRA DEF Compact
      <3>4. DS!CompactBranch
        BY <2>2, <3>1, <3>2, <3>3, SameWords DEF Compact, DS!CompactBranch
      <3> QED  BY <3>4 DEF DS!Next
    <2> QED
      BY <2>1, <2>4, <2>5, <2>6, <2>7, <2>8, <2>9 DEF StepForm
  <1> QED  BY <1>1, <1>2

\* The executor with its single program counter, flag and target implements
\* the machine with two program counters, delay slots, compact branches and
\* links included (register_file.hpp:88-97, executor.hpp:903).
THEOREM ExecutorRefinesDelaySlots == Spec => RefinesDelaySlots
  <1>1. Spec => DS!Init  BY InitDelaySlots DEF Spec
  <1>2. Spec => [][DS!Next]_DS!vars
    BY StepDelaySlots, ExecutorInvariant, PTL DEF Spec
  <1> QED  BY <1>1, <1>2 DEF RefinesDelaySlots, DS!Spec
=============================================================================
