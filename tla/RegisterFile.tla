---------------------------- MODULE RegisterFile ----------------------------
(***************************************************************************)
(* class RegisterFile (register_file.hpp): the general registers, the      *)
(* program counter, the pending delayed branch and the exception record.   *)
(*                                                                         *)
(* This module has the state and the values the methods compute, of which  *)
(* Executor builds whole instructions; RegisterFileClient is the class     *)
(* under a client that calls its public methods in any order.              *)
(***************************************************************************)
EXTENDS MachineWord

CONSTANTS REGISTER_COUNT,  \* 32 in the code
          RawInstr,        \* the raw instruction words signal_exception is given
          ZERO_INSTR       \* the raw word 0, the initial value of bad_instr

ASSUME RegisterAssumption ==
    /\ REGISTER_COUNT \in Nat \ {0}
    /\ ZERO_INSTR \in RawInstr

VARIABLES pc, regs, branch_flag, branch_target, bad_instr, cause_register

rfVars == <<pc, regs, branch_flag, branch_target, bad_instr, cause_register>>

Index == 0 .. REGISTER_COUNT - 1

Exception == {"int", "ad_el", "ad_es", "sys", "bp", "ri", "cpu", "ov", "tr",
              "fpe"}

\* cause_register has no initializer: until the first exception it holds what
\* the memory held, which one value that is no enumerator stands for (no method
\* of the class and no instruction reads it).
CauseValue == Exception \cup {"indeterminate"}

RegisterTypeOK ==
    /\ pc \in Word
    /\ regs \in [Index -> Word]
    /\ branch_flag \in BOOLEAN
    /\ branch_target \in Word
    /\ bad_instr \in RawInstr
    /\ cause_register \in CauseValue

RegisterInit ==
    /\ pc = 0
    /\ regs = [i \in Index |-> 0]
    /\ branch_flag = FALSE
    /\ branch_target = 0
    /\ bad_instr = ZERO_INSTR
    /\ cause_register = "indeterminate"

-----------------------------------------------------------------------------
(* What the methods compute *)

\* get: the index is masked, so that no index leaves the array.
Masked(i) == i % REGISTER_COUNT
Read(i)   == regs[Masked(i)]

\* Mutant of Written: $0 is reset before the write.
WrittenZeroFirst(i, v) == [[regs EXCEPT ![0] = 0] EXCEPT ![Masked(i)] = Wrap(v)]

\* set_unsigned, set_signed: $0 is reset after every write.
Written(i, v) ==
    [[regs EXCEPT ![Masked(i)] = Wrap(v)] EXCEPT ![0] = 0]

\* Mutant of NextPc: the difference is taken from the old program counter.
NextPcStaleBase ==
    LET inc == Wrap(pc + 4)
    IN  Wrap(inc + Flag(branch_flag) * Wrap(branch_target - pc))

\* Mutant of NextPc: the sum is kept in more bits than the register has.
NextPcUnwrapped == pc + 4 + Flag(branch_flag) * (branch_target - pc - 4)

\* update_pc: inc_pc, then pc += branch_flag * (branch_target - pc).
NextPc ==
    LET inc == Wrap(pc + 4)
    IN  Wrap(inc + Flag(branch_flag) * Wrap(branch_target - inc))
=============================================================================
