----------------------------- MODULE DelaySlots -----------------------------
(***************************************************************************)
(* What a program sees of the control flow of the emulator: a machine with *)
(* two program counters.  pc is the address of the next instruction, npc   *)
(* the address of the one after it.  A delayed branch replaces npc, so     *)
(* that the instruction in the delay slot is executed exactly once between *)
(* the branch and its target, also when the slot holds a branch itself; a  *)
(* compact branch replaces both.  A call leaves the address that follows   *)
(* it in program order in $31.                                             *)
(*                                                                         *)
(* Executor implements this machine with one counter, a flag and a target  *)
(* (RegisterFile): the refinement is Executor!RefinesDelaySlots.           *)
(***************************************************************************)
EXTENDS MachineWord

VARIABLES pc,   \* the instruction fetched next
          npc,  \* the instruction fetched after it
          ra    \* $31

vars == <<pc, npc, ra>>

Init == pc = 0 /\ npc = Add(pc, 4) /\ ra = 0

\* An instruction that does not branch, or fails: it may write any value to $31.
FallThrough ==
    /\ pc' = npc
    /\ npc' = Add(npc, 4)
    /\ ra' \in Word

\* A branch with a delay slot, with or without link.
DelayedBranch ==
    /\ pc' = npc
    /\ npc' \in Word
    /\ ra' \in {ra, npc}

\* A branch without delay slot, with or without link.
CompactBranch ==
    /\ pc' \in Word
    /\ npc' = Add(pc', 4)
    /\ ra' \in {ra, npc}

Next == FallThrough \/ DelayedBranch \/ CompactBranch

\* Steps that leave the three counters alone are a fetch that fails and the
\* end of the process.
Spec == Init /\ [][Next]_vars
=============================================================================
