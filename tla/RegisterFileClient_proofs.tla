--------------------- MODULE RegisterFileClient_proofs ----------------------
(***************************************************************************)
(* Theorems about RegisterFile under any sequence of calls, for words of   *)
(* any width and any number of registers.                                  *)
(***************************************************************************)
EXTENDS RegisterFileClient, RegisterFile_proofs

IInv == TypeOK /\ ZeroRegister

LEMMA InitIInv == Init => IInv
  <1> SUFFICES ASSUME Init PROVE IInv  OBVIOUS
  <1>1. regs \in [Index -> Word] /\ regs[0] = 0
    BY IndexInt, WordInt DEF Init, RegisterInit
  <1>2. bad_instr \in RawInstr  BY RegisterAssumption DEF Init, RegisterInit
  <1> QED
    BY <1>1, <1>2, WordInt
    DEF Init, RegisterInit, IInv, TypeOK, RegisterTypeOK, ZeroRegister, CauseValue

LEMMA StepIInv == IInv /\ [Next]_rfVars => IInv'
  <1> SUFFICES ASSUME IInv, [Next]_rfVars PROVE IInv'  OBVIOUS
  <1> USE DEF IInv, TypeOK, RegisterTypeOK, ZeroRegister
  <1>1. ASSUME NEW w \in Word, SetPc(w) PROVE IInv'
    BY <1>1 DEF SetPc
  <1>2. CASE IncPc
    <2>1. pc + 4 \in Int  BY WordInt
    <2>2. Wrap(pc + 4) \in Word  BY <2>1, WrapWord
    <2> QED  BY <1>2, <2>2 DEF IncPc
  <1>3. ASSUME NEW i \in CallerIndex, NEW v \in Word, SetRegister(i, v)
        PROVE  IInv'
    <2>1. i \in Int /\ v \in Int
      BY RegisterAssumption, WordInt DEF CallerIndex
    <2>2. Written(i, v) \in GoodRegs  BY <2>1, WrittenGood
    <2> QED  BY <1>3, <2>2 DEF SetRegister, GoodRegs
  <1>4. CASE ZeroAll  BY <1>4, WordInt, IndexInt DEF ZeroAll
  <1>5. ASSUME NEW w \in Word, DelayedBranch(w) PROVE IInv'
    BY <1>5 DEF DelayedBranch
  <1>6. CASE UpdatePc
    <2>1. NextPc \in Word  BY NextPcValue
    <2> QED  BY <1>6, <2>1 DEF UpdatePc
  <1>7. ASSUME NEW c \in Exception, NEW r \in RawInstr, SignalException(c, r)
        PROVE  IInv'
    BY <1>7 DEF SignalException, CauseValue
  <1>8. CASE UNCHANGED rfVars  BY <1>8 DEF rfVars
  <1> QED
    BY <1>1, <1>2, <1>3, <1>4, <1>5, <1>6, <1>7, <1>8 DEF Next

\* Every sequence of public calls leaves the fields well typed and $0 zero
\* (register_file.hpp:45-105).
THEOREM ClientInvariant == Spec => []IInv
  BY InitIInv, StepIInv, PTL DEF Spec

\* Every sequence of public calls leaves the registers, the pc and the branch
\* target words and the cause one of its values, with an index up to twice the
\* size of the array (register_file.hpp:45-105).
THEOREM ClientTypeOK == Spec => []TypeOK
  <1>1. IInv => TypeOK  BY DEF IInv
  <1> QED  BY <1>1, ClientInvariant, PTL

\* No call and no argument takes $0 from zero (register_file.hpp:58-86).
THEOREM ClientZeroRegister == Spec => []ZeroRegister
  <1>1. IInv => ZeroRegister  BY DEF IInv
  <1> QED  BY <1>1, ClientInvariant, PTL

\* The branchless sum of update_pc is the two-way choice in every reachable
\* state (register_file.hpp:93-97).
THEOREM ClientBranchlessUpdate == Spec => []BranchlessUpdate
  <1>1. IInv => BranchlessUpdate
    BY NextPcValue DEF IInv, TypeOK, BranchlessUpdate
  <1> QED  BY <1>1, ClientInvariant, PTL

\* An armed branch stays armed until update_pc lands on it or a later branch
\* replaces it, whatever is called in between (register_file.hpp:45-47, 88-97).
THEOREM ClientPendingBranchKept == Spec => PendingBranchKept
  <1> DEFINE Kept ==
        branch_flag =>
          \/ branch_flag' /\ branch_target' = branch_target
          \/ \E w \in Word : DelayedBranch(w)
          \/ ~branch_flag' /\ pc' = branch_target
  <1>1. ASSUME IInv, Next PROVE Kept
    <2>1. NextPc = IF branch_flag THEN branch_target ELSE Wrap(pc + 4)
      BY <1>1, NextPcValue DEF IInv, TypeOK
    <2>2. CASE UpdatePc  BY <2>1, <2>2 DEF UpdatePc
    <2>3. CASE \E w \in Word : DelayedBranch(w)  BY <2>3
    <2>4. CASE UNCHANGED <<branch_flag, branch_target>>  BY <2>4
    <2> QED
      BY <1>1, <2>2, <2>3, <2>4
      DEF Next, SetPc, IncPc, SetRegister, ZeroAll, SignalException
  <1>2. IInv /\ [Next]_rfVars => [Kept]_rfVars  BY <1>1
  <1> HIDE DEF Kept
  <1>3. Spec => [][Kept]_rfVars  BY <1>2, ClientInvariant, PTL DEF Spec
  <1> QED  BY <1>3 DEF PendingBranchKept, Kept
=============================================================================
