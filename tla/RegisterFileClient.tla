------------------------- MODULE RegisterFileClient -------------------------
(***************************************************************************)
(* RegisterFile under an arbitrary client: its public methods, called in   *)
(* any order.  RegisterFile is the only guard of its own consistency: the  *)
(* executor, the tests and a debugger all call it directly.                *)
(***************************************************************************)
EXTENDS RegisterFile

Init == RegisterInit

\* Mutant of SetPc: an immediate jump cancels the armed branch.
SetPcCancels(new_pc) ==
    /\ pc' = new_pc
    /\ branch_flag' = FALSE
    /\ UNCHANGED <<regs, branch_target, bad_instr, cause_register>>

SetPc(new_pc) ==
    /\ pc' = new_pc
    /\ UNCHANGED <<regs, branch_flag, branch_target, bad_instr, cause_register>>

IncPc ==
    /\ pc' = Wrap(pc + 4)
    /\ UNCHANGED <<regs, branch_flag, branch_target, bad_instr, cause_register>>

\* set_unsigned and set_signed differ in the C++ type of the value only.
SetRegister(i, v) ==
    /\ regs' = Written(i, v)
    /\ UNCHANGED <<pc, branch_flag, branch_target, bad_instr, cause_register>>

ZeroAll ==
    /\ regs' = [i \in Index |-> 0]
    /\ UNCHANGED <<pc, branch_flag, branch_target, bad_instr, cause_register>>

DelayedBranch(target) ==
    /\ branch_flag' = TRUE
    /\ branch_target' = target
    /\ UNCHANGED <<pc, regs, bad_instr, cause_register>>

UpdatePc ==
    /\ pc' = NextPc
    /\ branch_flag' = FALSE
    /\ UNCHANGED <<regs, branch_target, bad_instr, cause_register>>

SignalException(cause, instr) ==
    /\ bad_instr' = instr
    /\ cause_register' = cause
    /\ UNCHANGED <<pc, regs, branch_flag, branch_target>>

\* The index parameter of the setters is a uint8_t: it may exceed the array.
CallerIndex == 0 .. 2 * REGISTER_COUNT - 1

Next ==
    \/ \E w \in Word : SetPc(w)
    \/ IncPc
    \/ \E i \in CallerIndex, v \in Word : SetRegister(i, v)
    \/ ZeroAll
    \/ \E w \in Word : DelayedBranch(w)
    \/ UpdatePc
    \/ \E c \in Exception, r \in RawInstr : SignalException(c, r)

Spec == Init /\ [][Next]_rfVars

-----------------------------------------------------------------------------
(* Properties *)

TypeOK == RegisterTypeOK

\* Register $0 holds zero after every call, the setters given an index that
\* masks to 0 included (register_file.hpp:67, "Register $0 should always be
\* set to zero").
ZeroRegister == regs[0] = 0

\* The branchless sum of update_pc is the two-way choice a reader takes it for:
\* the armed target, exactly, or else the following instruction, also where
\* the subtraction, the sum or the increment wraps.
BranchlessUpdate ==
    NextPc = IF branch_flag THEN branch_target ELSE Wrap(pc + 4)

\* A delayed branch that was armed is neither lost nor redirected by any other
\* call: it stays armed with its target until a later delayed_branch replaces
\* the target or update_pc lands on it exactly, whatever happened to the pc in
\* between.  The branchless sum in update_pc has to wrap back to the target.
PendingBranchKept ==
    [][ branch_flag =>
          \/ branch_flag' /\ branch_target' = branch_target
          \/ \E w \in Word : DelayedBranch(w)
          \/ ~branch_flag' /\ pc' = branch_target ]_rfVars
=============================================================================
