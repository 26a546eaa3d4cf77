--------------------------- MODULE Emulator_proofs ---------------------------
(***************************************************************************)
(* Theorems about Emulator: the composition is an Executor and a Memory,   *)
(* for every word width, program, buffer, offset and device, so that what  *)
(* Executor_proofs shows holds of the emulator; and what a program counter *)
(* outside the memory means.                                               *)
(***************************************************************************)
EXTENDS Emulator, Executor_proofs

\* Memory_proofs under the parameters of RAM.
MP == INSTANCE Memory_proofs

\* What Memory_proofs assumes of its parameters holds of those of the emulator.
LEMMA MemoryParameters ==
  /\ WORD_BITS \in Nat \ {0}
  /\ SIGN_BIT \in Nat \ {0}
  /\ SIGN_BIT = 2 ^ (WORD_BITS - 1)
  /\ \A k \in 0 .. WORD_BITS - 1 : 2 ^ (k + 1) = 2 * 2 ^ k
  /\ OFFSET \in MP!Word
  /\ SIZE \in MP!Word
  /\ BYTE_BITS \in Nat \ {0}
  /\ WORD_BITS = 4 * BYTE_BITS
  /\ SIZE_T_MODULUS \in Nat /\ SIZE_T_MODULUS > MP!MODULUS + 4
  /\ ALIGNED_ACCESS \in BOOLEAN
  /\ DEVICES \subseteq MP!Word
  <1>1. MP!Word = Word /\ MP!MODULUS = MODULUS
    BY DEF MP!Word, MP!MODULUS, Word, MODULUS
  <1> QED  BY <1>1, WordAssumption, PowerAssumption, AluAssumption, EmulatorAssumption

LEMMA SameWeights ==
  /\ RAM!BYTE \in Nat \ {0}
  /\ RAM!Weight(0) = 1
  /\ \A k \in 0 .. 4 : RAM!Weight(k) \in 1 .. MODULUS
  /\ \A k \in 0 .. 3 : RAM!Weight(k + 1) = RAM!BYTE * RAM!Weight(k)
  <1>1. /\ MP!BYTE \in Nat \ {0}
        /\ MP!Weight(0) = 1
        /\ \A k \in 0 .. 4 : MP!Weight(k) \in 1 .. MP!MODULUS
        /\ \A k \in 0 .. 3 : MP!Weight(k + 1) = MP!BYTE * MP!Weight(k)
    BY MP!Weights, MemoryParameters
  <1>2. RAM!BYTE = MP!BYTE /\ MP!MODULUS = MODULUS
    BY DEF RAM!BYTE, MP!BYTE, MP!MODULUS, MODULUS
  <1>3. \A k : RAM!Weight(k) = MP!Weight(k)  BY DEF RAM!Weight, MP!Weight
  <1> QED  BY <1>1, <1>2, <1>3

LEMMA SameWord == RAM!Word = Word
  BY DEF RAM!Word, Word, RAM!MODULUS, MODULUS

LEMMA SameWrap == ASSUME NEW n PROVE RAM!Wrap(n) = Wrap(n)
  BY DEF RAM!Wrap, Wrap, RAM!MODULUS, MODULUS

\* Values of at most four bytes are words.
LEMMA ValueWord == ASSUME NEW n \in RAM!Sizes PROVE RAM!Value(n) \subseteq Word
  <1>1. n \in 0 .. 4  BY DEF RAM!Sizes
  <1>2. RAM!Weight(n) \in 1 .. MODULUS  BY <1>1, SameWeights
  <1>3. MODULUS \in Int  BY WordAssumption DEF MODULUS
  <1>4. \A k \in 1 .. MODULUS : 0 .. k - 1 \subseteq 0 .. MODULUS - 1  BY <1>3
  <1> QED  BY <1>2, <1>4 DEF RAM!Value, Word

LEMMA DecodeProgram == ASSUME NEW w \in Word PROVE Decode[w] \in Program
  BY EmulatorAssumption

LEMMA NoInstrType == ASSUME NEW i \in Program PROVE i # NoInstr
  <1>1. i.type \in Type  BY ExecutorAssumption DEF Instruction
  <1>2. i.type # "none"  BY <1>1 DEF Type
  <1> QED  BY <1>2 DEF NoInstr

\* What an access leaves in reply.
LEMMA Replies ==
  ASSUME NEW n \in RAM!Sizes, NEW a, RAM!ReadNoMmio(n, a)
  PROVE  /\ reply'.status \in {"loaded", "out_of_bounds_access", "unaligned_access"}
         /\ reply'.value \in Word
         /\ bytes' = bytes
  <1>0. 0 \in Word  BY WordInt
  <1>1. CASE RAM!Unaligned(n, a)
    BY <1>0, <1>1 DEF RAM!Unaligned, RAM!Reply
  <1>2. CASE RAM!OutOfBounds(n, a)
    BY <1>0, <1>2 DEF RAM!OutOfBounds, RAM!Reply
  <1>3. CASE RAM!ReadBuffer(n, a)
    <2>1. PICK v \in RAM!Value(n) : reply' = RAM!Reply("loaded", a, n, v)
      BY <1>3 DEF RAM!ReadBuffer
    <2>2. v \in Word  BY ValueWord
    <2>3. bytes' = bytes  BY <1>3 DEF RAM!ReadBuffer
    <2> QED  BY <2>1, <2>2, <2>3 DEF RAM!Reply
  <1> QED  BY <1>1, <1>2, <1>3 DEF RAM!ReadNoMmio

LEMMA MmioReply ==
  ASSUME NEW n, NEW a, RAM!Mmio(n, a)
  PROVE  reply'.status = "mmio" /\ bytes' = bytes
  BY DEF RAM!Mmio, RAM!Reply

LEMMA DeliveredWord ==
  ASSUME NEW n \in RAM!Sizes, NEW a, RAM!Read(n, a)
  PROVE  Delivered(n) \subseteq Word /\ bytes' = bytes
  <1>1. CASE RAM!Mmio(n, a)
    <2>1. reply'.status = "mmio" /\ bytes' = bytes  BY <1>1, MmioReply
    <2>2. Delivered(n) = RAM!Value(n)  BY <2>1 DEF Delivered
    <2> QED  BY <2>1, <2>2, ValueWord
  <1>2. CASE RAM!ReadNoMmio(n, a)
    <2>1. /\ reply'.status # "mmio"
          /\ reply'.value \in Word /\ bytes' = bytes
      BY <1>2, Replies
    <2>2. CASE reply'.status = "loaded"
      <3>1. Delivered(n) = {reply'.value}  BY <2>2 DEF Delivered
      <3> QED  BY <2>1, <3>1
    <2>3. CASE reply'.status # "loaded"
      <3>1. Delivered(n) = {}  BY <2>1, <2>3 DEF Delivered
      <3> QED  BY <2>1, <3>1
    <2> QED  BY <2>2, <2>3
  <1> QED  BY <1>1, <1>2 DEF RAM!Read

LEMMA AccessSizes ==
  ASSUME NEW op \in LoadOps \cup StoreOps
  PROVE  AccessSize[op] \in RAM!Sizes /\ AccessSize[op] \in 0 .. 4
  BY DEF LoadOps, StoreOps, AccessSize, RAM!Sizes

-----------------------------------------------------------------------------
(* The composition is an executor *)

FetchedOK == fetched \in Program \cup {NoInstr}

LEMMA StepFetched == FetchedOK /\ [Step]_emulatorVars => FetchedOK'
  <1> SUFFICES ASSUME FetchedOK, [Step]_emulatorVars PROVE FetchedOK'
    OBVIOUS
  <1>1. CASE Fetch
    <2>1. CASE RAM!ReadBuffer(4, FetchAddress) /\ fetched' = Decode[reply'.value]
      <3>1. 4 \in RAM!Sizes  BY DEF RAM!Sizes
      <3>2. reply'.value \in Word
        BY <2>1, <3>1, Replies DEF RAM!ReadNoMmio
      <3> QED  BY <2>1, <3>2, DecodeProgram DEF FetchedOK
    <2>2. CASE \E w \in Word : fetched' = Decode[w]
      BY <2>2, DecodeProgram DEF FetchedOK
    <2> QED  BY <1>1, <2>1, <2>2 DEF Fetch
  <1>2. CASE FetchFails  BY <1>2 DEF FetchFails, FetchedOK
  <1>3. CASE Execute \/ Load \/ LoadPcRelative \/ Store
    BY <1>3 DEF Execute, Load, LoadPcRelative, Store, FetchedOK
  <1>4. CASE UNCHANGED emulatorVars  BY <1>4 DEF emulatorVars, FetchedOK
  <1> QED  BY <1>1, <1>2, <1>3, <1>4 DEF Step

LEMMA FetchedAlways == EmulatorSpec => []FetchedOK
  <1>1. EmulatorInit => FetchedOK  BY DEF EmulatorInit, FetchedOK
  <1> QED  BY <1>1, StepFetched, PTL DEF EmulatorSpec

LEMMA ExecuteIsHandler ==
  ASSUME fetched \in Program, Execute PROVE Next
  BY DEF Execute, Next

LEMMA LoadIsHandler ==
  ASSUME fetched \in Program, Load PROVE LoadStore(fetched)
  <1>1. /\ Running /\ fetched.type = "itype" /\ fetched.op \in LoadOps
        /\ RAM!Read(AccessSize[fetched.op], DataAddress(fetched))
    BY DEF Load
  <1>2. Delivered(AccessSize[fetched.op]) \subseteq MemoryData
    BY <1>1, AccessSizes, DeliveredWord, EmulatorAssumption
  <1>3. CASE \E v \in Delivered(AccessSize[fetched.op]) :
               Sequential(Written(fetched.rt, LoadedValue(fetched.op, v)))
    BY <1>1, <1>2, <1>3 DEF LoadStore
  <1>4. CASE Reject  BY <1>1, <1>4 DEF LoadStore
  <1> QED  BY <1>3, <1>4 DEF Load

LEMMA LwpcIsHandler ==
  ASSUME fetched \in Program, LoadPcRelative PROVE PcRelative1(fetched)
  <1>1. /\ Running /\ fetched.type = "pcrel1" /\ fetched.op = "lwpc"
        /\ RAM!Read(4, PcrelAddress(fetched))
    BY DEF LoadPcRelative
  <1>2. 4 \in RAM!Sizes  BY DEF RAM!Sizes
  <1>3. Delivered(4) \subseteq MemoryData
    BY <1>1, <1>2, DeliveredWord, EmulatorAssumption
  <1>4. CASE \E v \in Delivered(4) : Sequential(Written(fetched.rs, v))
    BY <1>1, <1>3, <1>4 DEF PcRelative1
  <1>5. CASE Reject  BY <1>1, <1>5 DEF PcRelative1
  <1> QED  BY <1>4, <1>5 DEF LoadPcRelative

LEMMA StoreIsHandler ==
  ASSUME fetched \in Program, Store PROVE LoadStore(fetched)
  <1>1. /\ Running /\ fetched.type = "itype" /\ fetched.op \in StoreOps
        /\ Sequential(regs) \/ Reject
    BY DEF Store, StoreEnds
  <1> QED  BY <1>1 DEF LoadStore

LEMMA StepNext == FetchedOK /\ [Step]_emulatorVars => [Next]_vars
  <1> SUFFICES ASSUME FetchedOK, [Step]_emulatorVars PROVE [Next]_vars
    OBVIOUS
  <1>0. fetched # NoInstr => fetched \in Program  BY DEF FetchedOK
  <1>1. CASE Fetch  BY <1>1 DEF Fetch
  <1>2. CASE FetchFails  BY <1>2 DEF FetchFails, Next
  <1>3. CASE Execute  BY <1>0, <1>3, ExecuteIsHandler DEF Execute
  <1>4. CASE Load
    <2>1. fetched \in Program  BY <1>0, <1>4 DEF Load, NoInstr
    <2> QED  BY <1>4, <2>1, LoadIsHandler DEF Next
  <1>5. CASE LoadPcRelative
    <2>1. fetched \in Program  BY <1>0, <1>5 DEF LoadPcRelative, NoInstr
    <2> QED  BY <1>5, <2>1, LwpcIsHandler DEF Next
  <1>6. CASE Store
    <2>1. fetched \in Program  BY <1>0, <1>6 DEF Store, NoInstr
    <2> QED  BY <1>6, <2>1, StoreIsHandler DEF Next
  <1>7. CASE UNCHANGED emulatorVars  BY <1>7 DEF emulatorVars
  <1> QED  BY <1>1, <1>2, <1>3, <1>4, <1>5, <1>6, <1>7 DEF Step

\* The register file of an emulator goes through the steps of an Executor
\* (emulator.hpp:20-22).
THEOREM EmulatorRefinesExecutor == EmulatorSpec => RefinesExecutor
  <1>1. EmulatorInit => Init  BY DEF EmulatorInit
  <1> QED
    BY <1>1, StepNext, FetchedAlways, PTL DEF EmulatorSpec, Spec, RefinesExecutor

\* So that the emulator implements the machine with two program counters,
\* $0 is zero, and failing steps and traps are what Executor_proofs shows,
\* whatever the memory holds (executor.hpp:892-948).
THEOREM EmulatorInherits ==
  EmulatorSpec => /\ []TypeOK /\ []ZeroRegister
                  /\ RefinesDelaySlots /\ FailedStepAtomic /\ TrapsPrecise
  BY EmulatorRefinesExecutor, ExecutorTypeOK, ExecutorZeroRegister,
     ExecutorRefinesDelaySlots, ExecutorFailedStepAtomic, ExecutorTrapsPrecise
     DEF RefinesExecutor

-----------------------------------------------------------------------------
(* The composition is a memory *)

LEMMA StoredValueFits ==
  ASSUME IInv, NEW i \in Program, i.op \in StoreOps
  PROVE  StoredValue(i) \in RAM!Value(AccessSize[i.op])
  <1> DEFINE k == RAM!Weight(AccessSize[i.op])
  <1>1. T(i) \in Int  BY InvFacts, OperandWords, WordInt
  <1>2. k \in 1 .. MODULUS
    <2>1. AccessSize[i.op] \in 0 .. 4  BY AccessSizes DEF RAM!Sizes
    <2> QED  BY <2>1, SameWeights
  <1>3. MODULUS \in Int  BY WordAssumption DEF MODULUS
  <1>4. k \in Nat \ {0}  BY <1>2, <1>3
  <1>5. \A x \in Int, m \in Nat \ {0} : x % m \in 0 .. m - 1  OBVIOUS
  <1> HIDE DEF k
  <1>6. T(i) % k \in 0 .. k - 1  BY <1>1, <1>4, <1>5
  <1> QED  BY <1>6 DEF k, StoredValue, RAM!Value

LEMMA DataAddressWord ==
  ASSUME IInv, NEW i \in Program PROVE DataAddress(i) \in Word
  <1>1. S(i) \in Int  BY InvFacts, OperandWords, WordInt
  <1>2. i.imm \in Int  BY InstructionFields, WordInt
  <1>3. IMM_SIZE \in Nat  BY AluAssumption
  <1>4. SignExt(i.imm, IMM_SIZE) \in Int
    BY <1>2, <1>3, SignExtWord, WordInt
  <1>5. S(i) + SignExt(i.imm, IMM_SIZE) \in Int  BY <1>1, <1>4
  <1> QED  BY <1>5, WrapWord DEF DataAddress

LEMMA PcrelAddressWord ==
  ASSUME IInv, NEW i \in Program PROVE PcrelAddress(i) \in Word
  <1> DEFINE address == i.imm * 4
             bit21   == (address \div (4 * PCREL_SIZE)) % 2
  <1>1. i.imm \in Int /\ NextPc \in Int
    BY InvFacts, InstructionFields, WordInt
  <1>2. PCREL_SIZE \in Nat \ {0} /\ PCREL_EXT \in Nat  BY ExecutorAssumption
  <1>3. address \in Int  BY <1>1
  <1>4. bit21 \in Int
    <2>1. 4 * PCREL_SIZE \in Nat \ {0}  BY <1>2
    <2>2. address \div (4 * PCREL_SIZE) \in Int  BY <1>3, <2>1
    <2> QED  BY <2>2
  <1> HIDE DEF address, bit21
  <1>5. PCREL_EXT * bit21 \in Int  BY <1>2, <1>4
  <1>6. address + PCREL_EXT * bit21 + NextPc \in Int  BY <1>1, <1>3, <1>5
  <1>7. Wrap(address + PCREL_EXT * bit21 + NextPc) \in Word  BY <1>6, WrapWord
  <1> QED  BY <1>7 DEF PcrelAddress, address, bit21

LEMMA PcWord == ASSUME IInv PROVE pc \in Word
  BY InvFacts DEF RegisterTypeOK

LEMMA StepMemory ==
  FetchedOK /\ IInv /\ [Step]_emulatorVars => [RAM!Next]_RAM!vars
  <1> SUFFICES ASSUME FetchedOK, IInv, [Step]_emulatorVars
               PROVE  RAM!Next \/ UNCHANGED RAM!vars
    OBVIOUS
  <1>0. /\ fetched # NoInstr => fetched \in Program
        /\ 4 \in RAM!Sizes
        /\ pc \in RAM!Word
    BY PcWord, SameWord DEF FetchedOK, RAM!Sizes
  <1>1. CASE Fetch
    <2>1. RAM!ReadBuffer(4, pc) \/ RAM!Mmio(4, pc)
      BY <1>1 DEF Fetch, FetchAddress
    <2>2. RAM!Read(4, pc)  BY <2>1 DEF RAM!Read, RAM!ReadNoMmio
    <2> QED  BY <1>0, <2>2 DEF RAM!Next
  <1>2. CASE FetchFails
    <2>1. RAM!Unaligned(4, pc) \/ RAM!OutOfBounds(4, pc)
      BY <1>2 DEF FetchFails, FetchAddress
    <2>2. RAM!Read(4, pc)  BY <2>1 DEF RAM!Read, RAM!ReadNoMmio
    <2> QED  BY <1>0, <2>2 DEF RAM!Next
  <1>3. CASE Execute  BY <1>3 DEF Execute, ramVars, RAM!vars
  <1>4. CASE Load
    <2>1. /\ fetched \in Program /\ fetched.op \in LoadOps
          /\ RAM!Read(AccessSize[fetched.op], DataAddress(fetched))
      BY <1>0, <1>4 DEF Load, NoInstr
    <2>2. DataAddress(fetched) \in RAM!Word  BY <2>1, DataAddressWord, SameWord
    <2>3. AccessSize[fetched.op] \in RAM!Sizes  BY <2>1, AccessSizes
    <2> QED  BY <2>1, <2>2, <2>3 DEF RAM!Next
  <1>5. CASE LoadPcRelative
    <2>1. /\ fetched \in Program
          /\ RAM!Read(4, PcrelAddress(fetched))
      BY <1>0, <1>5 DEF LoadPcRelative, NoInstr
    <2>2. PcrelAddress(fetched) \in RAM!Word  BY <2>1, PcrelAddressWord, SameWord
    <2> QED  BY <1>0, <2>1, <2>2 DEF RAM!Next
  <1>6. CASE Store
    <2>1. /\ fetched \in Program /\ fetched.op \in StoreOps
          /\ RAM!Store(AccessSize[fetched.op], DataAddress(fetched),
                       StoredValue(fetched))
      BY <1>0, <1>6 DEF Store, NoInstr
    <2>2. DataAddress(fetched) \in RAM!Word  BY <2>1, DataAddressWord, SameWord
    <2>3. AccessSize[fetched.op] \in RAM!Sizes  BY <2>1, AccessSizes
    <2>4. StoredValue(fetched) \in RAM!Value(AccessSize[fetched.op])
      BY <2>1, StoredValueFits
    <2> QED  BY <2>1, <2>2, <2>3, <2>4 DEF RAM!Next
  <1>7. CASE UNCHANGED emulatorVars
    BY <1>7 DEF emulatorVars, ramVars, RAM!vars
  <1> QED  BY <1>1, <1>2, <1>3, <1>4, <1>5, <1>6, <1>7 DEF Step

\* The registers stay well typed and $0 zero.
LEMMA RegistersAlways == EmulatorSpec => []IInv
  BY EmulatorRefinesExecutor, ExecutorInvariant DEF RefinesExecutor

\* The memory of an emulator goes through the steps of a Memory that its
\* program calls (emulator.hpp:20-22, executor.hpp:892-948).
THEOREM EmulatorRefinesMemory == EmulatorSpec => RefinesMemory
  <1>1. EmulatorInit => RAM!Init  BY DEF EmulatorInit
  <1> QED
    BY <1>1, StepMemory, FetchedAlways, RegistersAlways, PTL
       DEF EmulatorSpec, RAM!Spec, RefinesMemory

\* RAM and MP are one module under one substitution: the same formulas.
LEMMA SameMemory ==
  /\ RAM!Init <=> MP!Init
  /\ [RAM!Next]_RAM!vars <=> [MP!Next]_MP!vars
  /\ RAM!TypeOK <=> MP!TypeOK
  /\ RAM!AccessesInsideBuffer <=> MP!AccessesInsideBuffer
  BY DEF RAM!TypeOK, MP!TypeOK, RAM!Init, MP!Init,
         RAM!Next, MP!Next, RAM!vars, MP!vars,
         RAM!AccessesInsideBuffer, MP!AccessesInsideBuffer,
         RAM!Read, MP!Read, RAM!ReadNoMmio, MP!ReadNoMmio,
         RAM!Store, MP!Store, RAM!StoreNoMmio, MP!StoreNoMmio,
         RAM!PtrFromAddress, MP!PtrFromAddress, RAM!HostWrite, MP!HostWrite,
         RAM!Mmio, MP!Mmio, RAM!ReadBuffer, MP!ReadBuffer,
         RAM!StoreBuffer, MP!StoreBuffer, RAM!Unaligned, MP!Unaligned,
         RAM!OutOfBounds, MP!OutOfBounds, RAM!Misaligned, MP!Misaligned,
         RAM!IsAligned, MP!IsAligned, RAM!IsInBounds, MP!IsInBounds,
         RAM!Access, MP!Access, RAM!Dereferenced, MP!Dereferenced,
         RAM!Digit, MP!Digit, RAM!Weight, MP!Weight, RAM!Reply, MP!Reply, RAM!Status, MP!Status,
         RAM!Sizes, MP!Sizes, RAM!Value, MP!Value, RAM!Byte, MP!Byte,
         RAM!BYTE, MP!BYTE, RAM!Position, MP!Position,
         RAM!Word, MP!Word, RAM!Wrap, MP!Wrap, RAM!MODULUS, MP!MODULUS

\* What the emulator holds is well typed: registers, buffer and the
\* instruction between its fetch and its handler.
THEOREM EmulatorTypes == EmulatorSpec => []EmulatorTypeOK
  <1>1. MP!Spec => []MP!TypeOK
    BY MP!MemoryTypeOK, MemoryParameters
  <1>2. EmulatorSpec => []RAM!TypeOK
    <2>1. RAM!Spec => []RAM!TypeOK
      BY <1>1, SameMemory, PTL DEF RAM!Spec, MP!Spec
    <2> QED  BY <2>1, EmulatorRefinesMemory DEF RefinesMemory
  <1> QED
    BY <1>2, EmulatorInherits, FetchedAlways, PTL DEF EmulatorTypeOK, FetchedOK

\* No program reaches a byte outside the buffer (memory.hpp:154-159).
THEOREM EmulatorStaysInsideBuffer == EmulatorSpec => []RAM!AccessesInsideBuffer
  <1>1. MP!Spec => []MP!AccessesInsideBuffer
    BY MP!MemoryAccessesInsideBuffer, MemoryParameters
  <1>2. RAM!Spec => []RAM!AccessesInsideBuffer
    BY <1>1, SameMemory, PTL DEF RAM!Spec, MP!Spec
  <1> QED  BY <1>2, EmulatorRefinesMemory DEF RefinesMemory

-----------------------------------------------------------------------------
(* Steps that return false *)

\* How a handler that returns false leaves the registers.
LEMMA HandlerFailure ==
  ASSUME Execute, result' = "failed" PROVE regs' = regs
  <1>1. \A r : Sequential(r) => result' # "failed"  BY DEF Sequential
  <1>2. \A t, r : Delayed(t, r) => result' # "failed"  BY DEF Delayed
  <1>3. \A t, r : Compact(t, r) => result' # "failed"  BY DEF Compact
  <1>4. Reject => regs' = regs  BY DEF Reject
  <1>5. Kill => result' # "failed"  BY DEF Kill
  <1>6. \A d, t : Branch(d, t) => result' # "failed"
    BY <1>1, <1>2, <1>3 DEF Branch
  <1>7. \A d, O : WriteBack(d, O) => result' # "failed" \/ regs' = regs
    BY <1>1, <1>4 DEF WriteBack
  <1>8. CASE RType(fetched)
    <2>1. TrapStep(fetched) => result' # "failed" \/ regs' = regs
      BY <1>1 DEF TrapStep
    <2> QED  BY <1>2, <1>4, <1>5, <1>7, <1>8, <2>1 DEF RType
  <1>9. CASE IType(fetched)
    BY <1>3, <1>6, <1>7, <1>9 DEF IType, Jialc
  <1>10. CASE JType(fetched)  BY <1>2, <1>3, <1>10 DEF JType
  <1>11. CASE Special3(fetched)  BY <1>4, <1>7, <1>11 DEF Special3
  <1>12. CASE Regimm(fetched)  BY <1>4, <1>6, <1>12 DEF Regimm
  <1>13. CASE PcRelative1(fetched)  BY <1>1, <1>4, <1>13 DEF PcRelative1
  <1>14. CASE PcRelative2(fetched)  BY <1>1, <1>4, <1>14 DEF PcRelative2
  <1>15. CASE Unhandled(fetched)  BY <1>4, <1>15 DEF Unhandled
  <1> QED
    BY <1>8, <1>9, <1>10, <1>11, <1>12, <1>13, <1>14, <1>15 DEF Execute

\* A read changes no byte, and neither does a store that is refused.
LEMMA ReadKeepsBytes == ASSUME NEW n, NEW a, RAM!Read(n, a) PROVE bytes' = bytes
  BY DEF RAM!Read, RAM!Mmio, RAM!ReadNoMmio, RAM!Unaligned, RAM!OutOfBounds,
         RAM!ReadBuffer

LEMMA StoreRefused ==
  ASSUME NEW n, NEW a, NEW v, RAM!Store(n, a, v),
         reply'.status \notin {"stored", "mmio"}
  PROVE  bytes' = bytes
  <1>1. RAM!StoreBuffer(n, a, v) => reply'.status = "stored"
    BY DEF RAM!StoreBuffer, RAM!Reply
  <1> QED
    BY <1>1 DEF RAM!Store, RAM!Mmio, RAM!StoreNoMmio, RAM!Unaligned,
                RAM!OutOfBounds

\* A step that returns false has changed neither a register nor a byte of the
\* memory (executor.hpp:576-578, 892-948).
THEOREM EmulatorFailureHarmless == EmulatorSpec => FailureHarmless
  <1> DEFINE Harmless == result' = "failed" => UNCHANGED <<regs, bytes>>
  <1>1. [Step]_emulatorVars => [Harmless]_emulatorVars
    <2> SUFFICES ASSUME Step, result' = "failed"
                 PROVE  regs' = regs /\ bytes' = bytes
      OBVIOUS
    <2>0. \A r : Sequential(r) => result' # "failed"  BY DEF Sequential
    <2>1. CASE Fetch
      BY <2>1 DEF Fetch, vars, rfVars, RAM!ReadBuffer, RAM!Mmio
    <2>2. CASE FetchFails
      BY <2>2 DEF FetchFails, FetchFault, rfVars, RAM!Unaligned, RAM!OutOfBounds
    <2>3. CASE Execute
      <3>1. bytes' = bytes  BY <2>3 DEF Execute, ramVars
      <3> QED  BY <2>3, <3>1, HandlerFailure
    <2>4. CASE Load
      <3>1. Reject  BY <2>0, <2>4 DEF Load
      <3>2. regs' = regs  BY <3>1 DEF Reject
      <3> QED  BY <2>4, <3>2, ReadKeepsBytes DEF Load
    <2>5. CASE LoadPcRelative
      <3>1. Reject  BY <2>0, <2>5 DEF LoadPcRelative
      <3>2. regs' = regs  BY <3>1 DEF Reject
      <3> QED  BY <2>5, <3>2, ReadKeepsBytes DEF LoadPcRelative
    <2>6. CASE Store
      <3>1. reply'.status \notin {"stored", "mmio"} /\ Reject
        BY <2>0, <2>6 DEF Store, StoreEnds
      <3>2. regs' = regs  BY <3>1 DEF Reject
      <3> QED  BY <2>6, <3>1, <3>2, StoreRefused DEF Store
    <2> QED  BY <2>1, <2>2, <2>3, <2>4, <2>5, <2>6 DEF Step
  <1> QED  BY <1>1, PTL DEF EmulatorSpec, FailureHarmless

-----------------------------------------------------------------------------
(* The exception record *)

\* A handler of an instruction that is no firing trap leaves the record alone,
\* and a trap that fires writes it.
LEMMA HandlerRecord ==
  ASSUME Execute
  PROVE  /\ TrapFires => /\ bad_instr' = fetched /\ cause_register' = "tr"
                          /\ result' = "failed"
         /\ ~TrapFires => UNCHANGED <<bad_instr, cause_register>>
  <1> DEFINE Kept == bad_instr' = bad_instr /\ cause_register' = cause_register
  <1>1. \A r : Sequential(r) => Kept  BY DEF Sequential
  <1>2. \A t, r : Delayed(t, r) => Kept  BY DEF Delayed
  <1>3. \A t, r : Compact(t, r) => Kept  BY DEF Compact
  <1>4. Reject => Kept  BY DEF Reject
  <1>5. Kill => Kept  BY DEF Kill, rfVars
  <1>6. \A d, t : Branch(d, t) => Kept  BY <1>1, <1>2, <1>3 DEF Branch
  <1>7. \A d, O : WriteBack(d, O) => Kept  BY <1>1, <1>4 DEF WriteBack
  <1>8. CASE RType(fetched)
    <2>1. CASE fetched.op \in TrapOps /\ TrapStep(fetched)
      <3>1. TrapFires <=> TrapCondition(fetched.op, S(fetched), T(fetched))
        BY <1>8, <2>1 DEF TrapFires, RType
      <3>2. CASE TrapFires
        BY <2>1, <3>1, <3>2 DEF TrapStep
      <3>3. CASE ~TrapFires
        <4>1. Sequential(regs)  BY <2>1, <3>1, <3>3 DEF TrapStep
        <4> QED  BY <1>1, <3>3, <4>1
      <3> QED  BY <3>2, <3>3
    <2>2. CASE fetched.op \notin TrapOps
      <3>1. ~TrapFires  BY <2>2 DEF TrapFires
      <3>2. Kept  BY <1>2, <1>4, <1>5, <1>7, <1>8, <2>2 DEF RType
      <3> QED  BY <3>1, <3>2
    <2>3. CASE fetched.op \in TrapOps /\ ~TrapStep(fetched)
      <3>1. FALSE
        BY <1>8, <2>3 DEF RType, TrapOps, RTypeDataOps, DivisionOps,
                          HostMayTrap
      <3> QED  BY <3>1
    <2> QED  BY <2>1, <2>2, <2>3
  <1>9. CASE fetched.type # "rtype"
    <2>1. ~TrapFires  BY <1>9 DEF TrapFires
    <2>2. ~RType(fetched)  BY <1>9 DEF RType
    <2>3. CASE IType(fetched)
      <3>1. Kept  BY <1>3, <1>6, <1>7, <2>3 DEF IType, Jialc
      <3> QED  BY <2>1, <3>1
    <2>4. CASE JType(fetched)
      <3>1. Kept  BY <1>2, <1>3, <2>4 DEF JType
      <3> QED  BY <2>1, <3>1
    <2>5. CASE Special3(fetched)
      <3>1. Kept  BY <1>4, <1>7, <2>5 DEF Special3
      <3> QED  BY <2>1, <3>1
    <2>6. CASE Regimm(fetched)
      <3>1. Kept  BY <1>4, <1>6, <2>6 DEF Regimm
      <3> QED  BY <2>1, <3>1
    <2>7. CASE fetched.op = "addiupc" /\ PcRelative1(fetched)
      <3>1. Kept  BY <1>1, <1>4, <2>7 DEF PcRelative1
      <3> QED  BY <2>1, <3>1
    <2>8. CASE PcRelative2(fetched)
      <3>1. Kept  BY <1>1, <1>4, <2>8 DEF PcRelative2
      <3> QED  BY <2>1, <3>1
    <2>9. CASE Unhandled(fetched)
      <3>1. Kept  BY <1>4, <2>9 DEF Unhandled
      <3> QED  BY <2>1, <3>1
    <2> QED
      BY <2>2, <2>3, <2>4, <2>5, <2>6, <2>7, <2>8, <2>9 DEF Execute
  <1>10. fetched.type # "rtype" \/ RType(fetched)
    BY DEF Execute, IType, JType, Special3, Regimm, PcRelative1, PcRelative2,
           Unhandled
  <1> QED  BY <1>8, <1>9, <1>10

\* The exception record names the trap that fired last, as it was fetched: no
\* firing trap is left out and nothing else writes it (executor.hpp:34-40).
THEOREM EmulatorTrapsRecorded == EmulatorSpec => TrapsRecorded
  <1> DEFINE Recorded ==
        IF TrapFires
        THEN bad_instr' = fetched /\ cause_register' = "tr" /\ result' = "failed"
        ELSE UNCHANGED <<bad_instr, cause_register>>
  <1>1. [Step]_emulatorVars => [Recorded]_emulatorVars
    <2> SUFFICES ASSUME Step PROVE Recorded
      OBVIOUS
    <2>0. /\ \A r : Sequential(r) => UNCHANGED <<bad_instr, cause_register>>
          /\ Reject => UNCHANGED <<bad_instr, cause_register>>
      BY DEF Sequential, Reject
    <2>1. CASE Fetch \/ FetchFails
      <3>1. ~TrapFires  BY <2>1 DEF Fetch, FetchFails, TrapFires, NoInstr
      <3>2. UNCHANGED <<bad_instr, cause_register>>
        BY <2>1 DEF Fetch, FetchFails, FetchFault, vars, rfVars
      <3> QED  BY <3>1, <3>2
    <2>2. CASE Execute  BY <2>2, HandlerRecord
    <2>3. CASE Load \/ LoadPcRelative \/ Store
      <3>1. ~TrapFires  BY <2>3 DEF Load, LoadPcRelative, Store, TrapFires
      <3>2. UNCHANGED <<bad_instr, cause_register>>
        BY <2>0, <2>3 DEF Load, LoadPcRelative, Store, StoreEnds
      <3> QED  BY <3>1, <3>2
    <2> QED  BY <2>1, <2>2, <2>3 DEF Step
  <1> QED  BY <1>1, PTL DEF EmulatorSpec, TrapsRecorded

-----------------------------------------------------------------------------
(* Program counters outside the memory *)

LEMMA StuckStep ==
  ASSUME Stuck, Step
  PROVE  Stuck' /\ UNCHANGED <<regs, bytes, pc>>
  <1>1. ~Fetch
    BY DEF Stuck, NoMemoryAt, Fetch, FetchAddress, RAM!ReadBuffer, RAM!Mmio
  <1>2. ~Execute /\ ~Load /\ ~LoadPcRelative /\ ~Store
    BY DEF Stuck, NoMemoryAt, Execute, Load, LoadPcRelative, Store, NoInstr
  <1>3. FetchFails  BY <1>1, <1>2 DEF Step
  <1>4. UNCHANGED <<regs, bytes, pc, fetched>>
    BY <1>3 DEF FetchFails, FetchFault, rfVars, RAM!Unaligned, RAM!OutOfBounds
  <1> QED
    BY <1>4 DEF Stuck, NoMemoryAt, RAM!Misaligned, RAM!IsAligned, RAM!IsInBounds,
                RAM!Wrap

LEMMA StuckStutter ==
  ASSUME Stuck, UNCHANGED emulatorVars PROVE Stuck'
  BY DEF Stuck, NoMemoryAt, emulatorVars, vars, rfVars, RAM!Misaligned,
         RAM!IsAligned, RAM!IsInBounds, RAM!Wrap

\* Once no fetch can succeed every later step is the same failing fetch: the
\* class offers no other way to move the program counter (emulator.hpp:9-28).
THEOREM EmulatorStuckForever == EmulatorSpec => StuckForever
  <1>1. [Step]_emulatorVars
          => [Stuck => Stuck' /\ UNCHANGED <<regs, bytes, pc>>]_emulatorVars
    BY StuckStep
  <1> QED  BY <1>1, PTL DEF EmulatorSpec, StuckForever

\* An emulator whose memory begins above address 0, with no device there, is in
\* that state when it is constructed: pc starts at 0 and Emulator has no
\* set_pc, so that it never executes an instruction (register_file.hpp:113).
THEOREM OffsetNeverStarts ==
  ASSUME OFFSET > 0, 0 \notin DEVICES PROVE EmulatorSpec => []Stuck
  <1>1. EmulatorInit => Stuck
    <2> SUFFICES ASSUME EmulatorInit PROVE Stuck  OBVIOUS
    <2>1. pc = 0 /\ fetched = NoInstr
      BY DEF EmulatorInit, Init, RegisterInit
    <2>2. OFFSET \in Int  BY EmulatorAssumption, WordInt
    <2>3. ~ (0 >= OFFSET)  BY <2>2
    <2> QED  BY <2>1, <2>3 DEF Stuck, NoMemoryAt, RAM!IsInBounds
  <1>2. Stuck /\ [Step]_emulatorVars => Stuck'
    BY StuckStep, StuckStutter
  <1> QED  BY <1>1, <1>2, PTL DEF EmulatorSpec

-----------------------------------------------------------------------------
(* The executed instruction is the current word *)

\* Quotient and remainder.
LEMMA QuotientAndRemainder ==
  ASSUME NEW b \in Nat \ {0}, NEW x \in Nat
  PROVE  /\ x \div b \in Nat /\ x % b \in Nat
         /\ x = b * (x \div b) + (x % b)
  <1>1. x \div b \in Nat /\ x = b * (x \div b) + (x % b) /\ x % b \in 0 .. b - 1
    OBVIOUS
  <1>2. \A y \in 0 .. b - 1 : y \in Nat  OBVIOUS
  <1> QED  BY <1>1, <1>2, Zenon

\* Horner's rule for four digits.
LEMMA Horner ==
  ASSUME NEW b \in Int, NEW q0 \in Int, NEW q1 \in Int, NEW q2 \in Int,
         NEW e0 \in Int, NEW e1 \in Int, NEW e2 \in Int, NEW e3 \in Int,
         q0 = b * q1 + e0, q1 = b * q2 + e1, q2 = b * e3 + e2
  PROVE  q0 = e0 + e1 * b + e2 * (b * b) + e3 * (b * (b * b))
  OBVIOUS

\* A value of four bytes is the sum of its bytes.
LEMMA FourDigits ==
  ASSUME NEW v \in RAM!Value(4)
  PROVE  LET d(k) == RAM!Digit(v, k) * RAM!Weight(k)
         IN  v = d(0) + d(1) + d(2) + d(3)
  <1> DEFINE B    == RAM!BYTE
             W(k) == RAM!Weight(k)
  <1>1. B \in Nat \ {0}  BY SameWeights
  <1>2. \A k \in 0 .. 4 : W(k) \in Nat \ {0}
    <2>1. MODULUS \in Int  BY WordAssumption DEF MODULUS
    <2> QED  BY <2>1, SameWeights
  <1>3. W(0) = 1 /\ \A k \in 0 .. 3 : W(k + 1) = B * W(k)
    BY SameWeights
  <1>4. W(1) = B * W(0) /\ W(2) = B * W(1) /\ W(3) = B * W(2) /\ W(4) = B * W(3)
    <2>1. 0 \in 0 .. 3 /\ 1 \in 0 .. 3 /\ 2 \in 0 .. 3 /\ 3 \in 0 .. 3  OBVIOUS
    <2>2. 0 + 1 = 1 /\ 1 + 1 = 2 /\ 2 + 1 = 3 /\ 3 + 1 = 4  OBVIOUS
    <2> QED  BY <1>3, <2>1, <2>2
  <1>5. v \in Nat /\ v < W(4)
    <2>1. W(4) \in Nat \ {0}  BY <1>2
    <2> QED  BY <2>1 DEF RAM!Value
  <1> HIDE DEF B, W
  <1> DEFINE b1 == W(1)  b2 == W(2)  b3 == W(3)  b4 == W(4)
  <1>6. /\ b1 = B /\ b2 = B * b1 /\ b3 = B * b2 /\ b4 = B * b3
        /\ b1 \in Nat \ {0} /\ b2 \in Nat \ {0} /\ b3 \in Nat \ {0}
        /\ b4 \in Nat \ {0}
    BY <1>1, <1>2, <1>3, <1>4
  <1>7. v \div W(0) = v  BY <1>3, <1>5
  <1> HIDE DEF b1, b2, b3, b4
  <1>8. /\ v \div b2 = (v \div b1) \div B
        /\ v \div b3 = (v \div b2) \div B
        /\ v \div b4 = (v \div b3) \div B
    <2>0. /\ v \in Int /\ B \in Nat \ {0} /\ b1 \in Nat \ {0}
          /\ b2 \in Nat \ {0} /\ b3 \in Nat \ {0}
      BY <1>1, <1>5, <1>6
    <2>1. b2 = b1 * B /\ b3 = b2 * B /\ b4 = b3 * B  BY <1>1, <1>6
    <2>2. (v \div b1) \div B = v \div (b1 * B)  BY <2>0, DivOfDiv
    <2>3. (v \div b2) \div B = v \div (b2 * B)  BY <2>0, DivOfDiv
    <2>4. (v \div b3) \div B = v \div (b3 * B)  BY <2>0, DivOfDiv
    <2> QED  BY <2>1, <2>2, <2>3, <2>4
  <1>9. v \div b4 = 0
    <2>1. v < b4  BY <1>5 DEF b4
    <2>2. \A m \in Nat \ {0}, x \in Nat : x < m => x \div m = 0  OBVIOUS
    <2> QED  BY <1>5, <1>6, <2>1, <2>2
  <1>10. \A x \in Nat : /\ x \div B \in Nat /\ x % B \in Nat
                        /\ x = B * (x \div B) + (x % B)
    BY <1>1, QuotientAndRemainder
  <1>11. /\ v = B * (v \div b1) + (v % B)
         /\ v \div b1 = B * (v \div b2) + ((v \div b1) % B)
         /\ v \div b2 = B * (v \div b3) + ((v \div b2) % B)
         /\ v \div b3 = (v \div b3) % B
    <2>1. v \div b1 = v \div B  BY <1>6
    <2>2. v \div b1 \in Nat /\ v \div b2 \in Nat /\ v \div b3 \in Nat
      BY <1>5, <1>8, <1>10, <2>1
    <2>3. v = B * (v \div b1) + (v % B)  BY <1>5, <1>10, <2>1
    <2>4. v \div b1 = B * (v \div b2) + ((v \div b1) % B)
      BY <1>8, <1>10, <2>2
    <2>5. v \div b2 = B * (v \div b3) + ((v \div b2) % B)
      BY <1>8, <1>10, <2>2
    <2>6. v \div b3 = (v \div b3) % B
      <3>1. v \div b3 = B * (v \div b4) + ((v \div b3) % B)
        BY <1>8, <1>10, <2>2
      <3>2. B * 0 = 0 /\ (v \div b3) % B \in Nat  BY <1>1, <1>10, <2>2
      <3> QED  BY <1>9, <3>1, <3>2
    <2> QED  BY <2>3, <2>4, <2>5, <2>6
  <1> DEFINE e0 == v % B  e1 == (v \div b1) % B  e2 == (v \div b2) % B
             e3 == (v \div b3) % B
  <1>12. v = e0 + e1 * b1 + e2 * b2 + e3 * b3
    <2>1. e0 \in Nat /\ e1 \in Nat /\ e2 \in Nat /\ e3 \in Nat
      BY <1>5, <1>6, <1>10
    <2>2. v \div b1 \in Nat /\ v \div b2 \in Nat
      BY <1>5, <1>6, <1>8, <1>10
    <2>3. /\ v = B * (v \div b1) + e0
          /\ v \div b1 = B * (v \div b2) + e1
          /\ v \div b2 = B * (v \div b3) + e2
          /\ v \div b3 = e3
      BY <1>11
    <2> HIDE DEF e0, e1, e2, e3
    <2>4. v \div b2 = B * e3 + e2  BY <2>3
    <2>5. v = e0 + e1 * B + e2 * (B * B) + e3 * (B * (B * B))
      BY <1>1, <1>5, <2>1, <2>2, <2>3, <2>4, Horner
    <2>6. b1 = B /\ b2 = B * B /\ b3 = B * (B * B)  BY <1>6
    <2> QED  BY <2>5, <2>6, Zenon
  <1>13. /\ RAM!Digit(v, 0) = e0 /\ RAM!Digit(v, 1) = e1
         /\ RAM!Digit(v, 2) = e2 /\ RAM!Digit(v, 3) = e3
    BY <1>7 DEF RAM!Digit, B, W, b1, b2, b3
  <1>14. e0 * W(0) = e0
    <2>1. e0 \in Nat  BY <1>5, <1>10
    <2> QED  BY <1>3, <2>1
  <1> QED  BY <1>12, <1>13, <1>14 DEF W, b1, b2, b3

\* What a read of four bytes from the buffer delivers.
LEMMA BufferRead ==
  ASSUME NEW a \in Word, RAM!ReadBuffer(4, a)
  PROVE  reply'.value = BufferWord(a) /\ bytes' = bytes
  <1>1. RAM!IsInBounds(4, a) /\ bytes' = bytes  BY DEF RAM!ReadBuffer
  <1>2. 4 \in MP!Sizes /\ a \in MP!Word /\ MP!IsInBounds(4, a)
    BY <1>1 DEF MP!Sizes, MP!Word, Word, MP!MODULUS, MODULUS, RAM!IsInBounds,
                MP!IsInBounds, RAM!Wrap, MP!Wrap, RAM!MODULUS
  <1>3. MP!Dereferenced(4, a) \subseteq MP!Position
    BY <1>2, MP!DereferencedInside, MemoryParameters
  <1>4. \A k \in 0 .. 3 : a - OFFSET + k \in RAM!Position
    <2>1. 4 - 1 = 3  OBVIOUS
    <2> QED  BY <1>3, <2>1 DEF MP!Dereferenced, MP!Position, RAM!Position
  <1>5. PICK v \in RAM!Value(4) :
          /\ \A k \in 0 .. 4 - 1 :
               a - OFFSET + k \in RAM!Position =>
                 RAM!Digit(v, k) = bytes[a - OFFSET + k]
          /\ reply' = RAM!Reply("loaded", a, 4, v)
    BY Zenon DEF RAM!ReadBuffer
  <1>6. \A k \in 0 .. 3 : RAM!Digit(v, k) = bytes[a - OFFSET + k]
    <2>1. 4 - 1 = 3  OBVIOUS
    <2> QED  BY <1>4, <1>5, <2>1
  <1>7. /\ RAM!Digit(v, 0) = bytes[a - OFFSET + 0]
        /\ RAM!Digit(v, 1) = bytes[a - OFFSET + 1]
        /\ RAM!Digit(v, 2) = bytes[a - OFFSET + 2]
        /\ RAM!Digit(v, 3) = bytes[a - OFFSET + 3]
    <2>1. 0 \in 0 .. 3 /\ 1 \in 0 .. 3 /\ 2 \in 0 .. 3 /\ 3 \in 0 .. 3  OBVIOUS
    <2> QED  BY <1>6, <2>1, Zenon
  <1>8. v = BufferWord(a)
    BY <1>7, FourDigits, Zenon DEF BufferWord
  <1>9. reply'.value = v  BY <1>5 DEF RAM!Reply
  <1> QED  BY <1>1, <1>8, <1>9

\* The word that is executed is the one at the program counter
\* (executor.hpp:897-901): the fetch read it and nothing ran since.
THEOREM EmulatorExecutesCurrentWord == EmulatorSpec => []ExecutesCurrentWord
  <1>1. EmulatorInit => ExecutesCurrentWord
    BY DEF EmulatorInit, ExecutesCurrentWord
  <1>2. IInv /\ ExecutesCurrentWord /\ [Step]_emulatorVars => ExecutesCurrentWord'
    <2> SUFFICES ASSUME IInv, ExecutesCurrentWord, [Step]_emulatorVars
                 PROVE  ExecutesCurrentWord'
      OBVIOUS
    <2>1. CASE Fetch
      <3>1. CASE RAM!ReadBuffer(4, FetchAddress) /\ fetched' = Decode[reply'.value]
        <4>1. reply'.value = BufferWord(pc) /\ bytes' = bytes
          BY <3>1, PcWord, BufferRead DEF FetchAddress
        <4>2. pc' = pc  BY <2>1 DEF Fetch, vars, rfVars
        <4>3. BufferWord(pc)' = BufferWord(pc)  BY <4>1, <4>2 DEF BufferWord
        <4> QED  BY <3>1, <4>1, <4>3 DEF ExecutesCurrentWord
      <3>2. CASE RAM!Mmio(4, FetchAddress)
        <4>1. reply'.status = "mmio"  BY <3>2, MmioReply
        <4> QED  BY <4>1 DEF ExecutesCurrentWord
      <3> QED  BY <2>1, <3>1, <3>2 DEF Fetch
    <2>2. CASE fetched' = NoInstr  BY <2>2 DEF ExecutesCurrentWord
    <2>3. CASE FetchFails
      BY <2>2, <2>3 DEF FetchFails
    <2>4. CASE Execute \/ Load \/ LoadPcRelative \/ Store
      BY <2>2, <2>4 DEF Execute, Load, LoadPcRelative, Store
    <2>5. CASE UNCHANGED emulatorVars
      BY <2>5 DEF ExecutesCurrentWord, BufferWord, emulatorVars, vars, rfVars,
                  ramVars
    <2> QED  BY <2>1, <2>3, <2>4, <2>5 DEF Step
  <1> QED
    BY <1>1, <1>2, RegistersAlways, PTL DEF EmulatorSpec

-----------------------------------------------------------------------------
(* A store that is reported has happened *)

\* The buffer's bounds, as Memory_proofs shows them of every access it admits.
LEMMA AdmittedInside ==
  ASSUME NEW n \in RAM!Sizes, NEW a \in Word, RAM!IsInBounds(n, a)
  PROVE  RAM!Dereferenced(n, a) \subseteq RAM!Position
  <1>1. n \in MP!Sizes /\ a \in MP!Word /\ MP!IsInBounds(n, a)
    BY DEF RAM!Sizes, MP!Sizes, MP!Word, Word, MP!MODULUS, MODULUS,
           RAM!IsInBounds, MP!IsInBounds, RAM!Wrap, MP!Wrap, RAM!MODULUS
  <1>2. MP!Dereferenced(n, a) \subseteq MP!Position
    BY <1>1, MP!DereferencedInside, MemoryParameters
  <1> QED
    BY <1>2 DEF MP!Dereferenced, RAM!Dereferenced, MP!Position, RAM!Position

\* The bytes of an access are consecutive.
LEMMA DereferencedRange ==
  ASSUME NEW n \in RAM!Sizes, NEW a \in Word
  PROVE  /\ RAM!Dereferenced(n, a) = a - OFFSET .. a - OFFSET + n - 1
         /\ \A k \in 0 .. n - 1 :
              /\ a - OFFSET + k \in RAM!Dereferenced(n, a)
              /\ (a - OFFSET + k) - (a - OFFSET) = k
  <1> DEFINE d == a - OFFSET
  <1>1. n \in Int  BY DEF RAM!Sizes
  <1>2. d \in Int  BY EmulatorAssumption, WordInt
  <1>3. RAM!Dereferenced(n, a) = {d + k : k \in 0 .. n - 1}
    BY DEF RAM!Dereferenced
  <1> HIDE DEF d
  <1>4. {d + k : k \in 0 .. n - 1} = d .. d + n - 1
    <2>1. \A k \in 0 .. n - 1 : d + k \in d .. d + n - 1  BY <1>1, <1>2
    <2>2. \A p \in d .. d + n - 1 : p - d \in 0 .. n - 1 /\ p = d + (p - d)
      BY <1>1, <1>2
    <2> QED  BY <2>1, <2>2
  <1>5. \A k \in 0 .. n - 1 : (d + k) - d = k  BY <1>1, <1>2
  <1> QED  BY <1>3, <1>4, <1>5 DEF d

\* Cutting a number at a multiple of w * b leaves the digit of weight w.
LEMMA LowPart ==
  ASSUME NEW x \in Nat, NEW w \in Nat \ {0}, NEW b \in Nat \ {0},
         NEW u \in Nat \ {0}
  PROVE  ((x % (w * (b * u))) \div w) % b = (x \div w) % b
  <1> DEFINE m == w * (b * u)
  <1>0. m \in Nat \ {0} /\ m = w * (b * u) /\ x \in Int  OBVIOUS
  <1> HIDE DEF m
  <1> DEFINE y == x \div w  z == x % w  q == x \div m
             h == y \div b  r == y % b
  <1>1. y \in Int /\ z \in 0 .. w - 1 /\ x = w * y + z  BY DivMod
  <1> DEFINE c == x % m
  <1>2. q \in Int /\ c \in 0 .. m - 1 /\ x = m * q + c  BY <1>0, DivMod, Zenon
  <1>3. h \in Int /\ r \in 0 .. b - 1 /\ y = b * h + r  BY <1>1, DivMod
  <1>4. c \in Int /\ x = m * q + c  BY <1>2
  <1> HIDE DEF y, z, q, h, r, c
  <1>5. c = w * (y - b * (u * q)) + z
    <2>1. m * q = w * (b * (u * q))
      <3>1. \A e, f, g, j \in Int : (e * (f * g)) * j = e * (f * (g * j))  OBVIOUS
      <3> QED  BY <1>0, <1>2, <3>1
    <2>2. \A e, f, g \in Int : e * (f - g) = e * f - e * g  OBVIOUS
    <2>3. b * (u * q) \in Int  BY <1>2
    <2>4. w * (y - b * (u * q)) = w * y - w * (b * (u * q))
      BY <1>1, <2>2, <2>3
    <2> DEFINE P == w * y  Q == w * (b * (u * q))
    <2>5. P \in Int /\ Q \in Int  BY <1>1, <2>3
    <2>6. z \in Int  BY <1>1
    <2> HIDE DEF P, Q
    <2>7. x = P + z /\ x = Q + c  BY <1>1, <1>4, <2>1 DEF P, Q
    <2>8. c = (P - Q) + z  BY <1>4, <2>5, <2>6, <2>7
    <2> QED  BY <2>4, <2>8, Zenon DEF P, Q
  <1>6. c \div w = y - b * (u * q)
    <2>1. y - b * (u * q) \in Int  BY <1>1, <1>2
    <2> QED  BY <1>1, <1>5, <2>1, DivUnique
  <1>7. y - b * (u * q) = b * (h - u * q) + r
    <2>1. \A e, f, g \in Int : e * (f - g) = e * f - e * g  OBVIOUS
    <2>2. u * q \in Int  BY <1>2
    <2>3. b * (h - u * q) = b * h - b * (u * q)  BY <1>3, <2>1, <2>2
    <2> DEFINE P == b * h  Q == b * (u * q)
    <2>4. P \in Int /\ Q \in Int  BY <1>3, <2>2
    <2>5. r \in Int  BY <1>3
    <2> HIDE DEF P, Q
    <2>6. y = P + r  BY <1>3 DEF P
    <2>7. y - Q = (P - Q) + r  BY <2>4, <2>5, <2>6
    <2> QED  BY <2>3, <2>7, Zenon DEF P, Q
  <1>8. (c \div w) % b = r
    <2>1. h - u * q \in Int  BY <1>2, <1>3
    <2>2. \A g \in Int : (b * g + r) % b = r  BY <1>3, DivUnique
    <2> QED  BY <1>6, <1>7, <2>1, <2>2, Zenon
  <1> QED  BY <1>8, Zenon DEF c, r, y, m

\* The digits of a number are those of what is left when it is cut to n bytes.
LEMMA CutDigits ==
  ASSUME NEW x \in Nat, NEW n \in RAM!Sizes, NEW k \in 0 .. n - 1
  PROVE  RAM!Digit(x % RAM!Weight(n), k) = RAM!Digit(x, k)
  <1> DEFINE B    == RAM!BYTE
             W(m) == RAM!Weight(m)
  <1>1. B \in Nat \ {0}  BY SameWeights
  <1>2. \A m \in 0 .. 4 : W(m) \in Nat \ {0}
    <2>1. MODULUS \in Int  BY WordAssumption DEF MODULUS
    <2> QED  BY <2>1, SameWeights
  <1>3. W(0) = 1 /\ \A m \in 0 .. 3 : W(m + 1) = B * W(m)  BY SameWeights
  <1>4. W(1) = B * W(0) /\ W(2) = B * W(1) /\ W(3) = B * W(2) /\ W(4) = B * W(3)
    <2>1. 0 \in 0 .. 3 /\ 1 \in 0 .. 3 /\ 2 \in 0 .. 3 /\ 3 \in 0 .. 3  OBVIOUS
    <2>2. 0 + 1 = 1 /\ 1 + 1 = 2 /\ 2 + 1 = 3 /\ 3 + 1 = 4  OBVIOUS
    <2> QED  BY <1>3, <2>1, <2>2
  <1>5. \/ n = 1 /\ k = 0
        \/ n = 2 /\ k \in {0, 1}
        \/ n = 4 /\ k \in {0, 1, 2, 3}
    BY DEF RAM!Sizes
  <1>6. W(k) \in Nat \ {0} /\ W(n) \in Nat \ {0}
    BY <1>2, <1>5
  <1> HIDE DEF B, W
  <1>7. \E u \in Nat \ {0} : W(n) = W(k) * (B * u)
    <2>1. /\ W(1) = W(0) * (B * 1) /\ W(2) = W(1) * (B * 1)
          /\ W(4) = W(3) * (B * 1)
      BY <1>1, <1>2, <1>4
    <2>2. W(2) = W(0) * (B * B) /\ W(4) = W(2) * (B * B)
      BY <1>1, <1>2, <1>3, <1>4
    <2>3. W(4) = W(1) * (B * (B * B)) /\ B * B \in Nat \ {0}
      BY <1>1, <1>2, <1>4
    <2>4. W(4) = W(0) * (B * (B * (B * B))) /\ B * (B * B) \in Nat \ {0}
      BY <1>1, <1>3, <1>4, <2>3
    <2>5. 1 \in Nat \ {0}  OBVIOUS
    <2> QED  BY <1>1, <1>5, <2>1, <2>2, <2>3, <2>4, <2>5
  <1>8. PICK u \in Nat \ {0} : W(n) = W(k) * (B * u)  BY <1>7
  <1>9. ((x % W(n)) \div W(k)) % B = (x \div W(k)) % B
    <2>1. \A w \in Nat \ {0} :
            ((x % (w * (B * u))) \div w) % B = (x \div w) % B
      BY <1>1, LowPart, Zenon
    <2> QED  BY <1>6, <1>8, <2>1, Zenon
  <1> QED  BY <1>9 DEF RAM!Digit, B, W

LEMMA StoredByBuffer ==
  ASSUME IInv, NEW i \in Program, i.op \in StoreOps,
         RAM!StoreBuffer(AccessSize[i.op], DataAddress(i), StoredValue(i))
  PROVE  StoredInBuffer(i)
  <1> DEFINE n == AccessSize[i.op]
             a == DataAddress(i)
             v == StoredValue(i)
             d == a - OFFSET
             W == d .. d + n - 1
  <1>1. n \in RAM!Sizes /\ a \in Word  BY AccessSizes, DataAddressWord
  <1>2. /\ RAM!IsInBounds(n, a)
        /\ bytes' = [p \in RAM!Position |->
                       IF p \in RAM!Dereferenced(n, a)
                       THEN RAM!Digit(v, p - d) ELSE bytes[p]]
    BY DEF RAM!StoreBuffer
  <1>3. T(i) \in Nat
    BY InvFacts, OperandWords DEF Word
  <1>4. \A k \in 0 .. n - 1 : RAM!Digit(v, k) = RAM!Digit(T(i), k)
    BY <1>1, <1>3, CutDigits DEF StoredValue
  <1> HIDE DEF n, a, v
  <1>5. /\ RAM!Dereferenced(n, a) = W
        /\ \A k \in 0 .. n - 1 : d + k \in W /\ (d + k) - d = k
    BY <1>1, DereferencedRange
  <1>6. W \subseteq RAM!Position  BY <1>1, <1>2, <1>5, AdmittedInside
  <1> HIDE DEF d, W
  <1>7. \A k \in 0 .. n - 1 : bytes'[d + k] = RAM!Digit(v, k)
    BY <1>2, <1>5, <1>6
  <1>8. \A p \in RAM!Position \ W : bytes'[p] = bytes[p]
    BY <1>2, <1>5
  <1> QED  BY <1>4, <1>6, <1>7, <1>8, Zenon DEF StoredInBuffer, n, a, d, W

\* A step that reports success of a store has stored rt, in the buffer or in a
\* device, and nothing else (executor.hpp:532-538, memory.hpp:78-105).
THEOREM EmulatorStoreReported == EmulatorSpec => StoreReported
  <1> DEFINE Reported ==
        fetched.type = "itype" /\ fetched.op \in StoreOps /\ result' = "ok" =>
          \/ StoredInBuffer(fetched)
          \/ /\ DataAddress(fetched) \in DEVICES
             /\ reply'.status = "mmio"
             /\ UNCHANGED bytes
  <1>1. FetchedOK /\ IInv /\ [Step]_emulatorVars => [Reported]_emulatorVars
    <2> SUFFICES ASSUME FetchedOK, IInv, Step,
                        fetched.type = "itype", fetched.op \in StoreOps,
                        result' = "ok"
                 PROVE  \/ StoredInBuffer(fetched)
                        \/ /\ DataAddress(fetched) \in DEVICES
                           /\ reply'.status = "mmio"
                           /\ UNCHANGED bytes
      OBVIOUS
    <2>1. fetched \in Program  BY DEF FetchedOK, NoInstr
    <2>2. Store
      <3>1. ~Fetch /\ ~FetchFails /\ ~Load /\ ~LoadPcRelative
        BY DEF Fetch, FetchFails, Load, LoadPcRelative, NoInstr, LoadOps, StoreOps
      <3>2. ~Execute
        BY DEF Execute, RType, IType, Jialc, JType, Special3, Regimm,
               PcRelative1, PcRelative2, Unhandled, StoreOps, ITypeDataOps,
               ImmBranchOps
      <3> QED  BY <3>1, <3>2 DEF Step
    <2>3. reply'.status \in {"stored", "mmio"}
      <3>1. Reject => result' # "ok"  BY DEF Reject
      <3> QED  BY <2>2, <3>1 DEF Store, StoreEnds
    <2>4. RAM!Store(AccessSize[fetched.op], DataAddress(fetched),
                    StoredValue(fetched))
      BY <2>2 DEF Store
    <2>5. CASE RAM!Mmio(AccessSize[fetched.op], DataAddress(fetched))
      BY <2>5, MmioReply DEF RAM!Mmio
    <2>6. CASE RAM!StoreNoMmio(AccessSize[fetched.op], DataAddress(fetched),
                               StoredValue(fetched))
      <3>1. RAM!StoreBuffer(AccessSize[fetched.op], DataAddress(fetched),
                            StoredValue(fetched))
        BY <2>3, <2>6 DEF RAM!StoreNoMmio, RAM!Unaligned, RAM!OutOfBounds,
                          RAM!Reply
      <3> QED  BY <2>1, <3>1, StoredByBuffer
    <2> QED  BY <2>4, <2>5, <2>6 DEF RAM!Store
  <1> QED
    BY <1>1, FetchedAlways, RegistersAlways, PTL DEF EmulatorSpec, StoreReported
=============================================================================
