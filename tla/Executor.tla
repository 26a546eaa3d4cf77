------------------------------ MODULE Executor ------------------------------
(***************************************************************************)
(* Executor::step (executor.hpp): fetch, update_pc, decode, one handler.   *)
(*                                                                         *)
(* A step is one action: the caller sees its whole effect or none of it.   *)
(* The memory is the environment: any instruction of Program may be        *)
(* fetched at any address, and a read or a store may fail or may deliver   *)
(* any of MemoryData, because the memory may hold anything, may be written *)
(* by the program itself and may be answered by an MMIO handler.           *)
(*                                                                         *)
(* update_pc runs before the handler, so that every pc a handler reads is  *)
(* NextPc: the following address, or the target of a branch whose delay    *)
(* slot the instruction occupies.                                          *)
(***************************************************************************)
EXTENDS RegisterFile, Alu, Branches

CONSTANTS Program,     \* the instructions the memory may hold
          MemoryData,  \* the data a read may deliver
          ADDR_SIZE,   \* 2^26: values of the address field of J and JAL
          PCREL_SIZE,  \* 2^19: values of the immediate of ADDIUPC and LWPC
          PCREL_EXT    \* 1023: the factor of their sign extension

Type == {"rtype", "itype", "jtype", "fpu", "bshfl", "ext", "ins", "regimm",
         "pcrel1", "pcrel2", "undecodable"}

\* One record for the overlapping views of the Instruction union: rs, rt, rd
\* are register numbers, sa the shamt field, imm the immediate or address.
\* ext and ins keep msbd and msb in rd and lsb in sa.  op is the enumerator of
\* the function or opcode field, "other" for a value outside the enum.
Instruction ==
    [type : Type, op : STRING, rs : Index, rt : Index, rd : Index,
     sa : BitIndex, imm : Word]

ASSUME ExecutorAssumption ==
    /\ Program \subseteq Instruction
    /\ Program \subseteq RawInstr
    /\ MemoryData \subseteq Word
    /\ {ADDR_SIZE, PCREL_SIZE, PCREL_EXT} \subseteq Nat \ {0}

VARIABLE result  \* what step returned: "ok" for true, "failed" for false;
                 \* "killed" when the host process ended inside it

vars == <<rfVars, result>>

Init == RegisterInit /\ result = "ok"

TypeOK == RegisterTypeOK /\ result \in {"ok", "failed", "killed"}

RA == REGISTER_COUNT - 1  \* RegisterName::e_ra

S(i) == Read(i.rs)
T(i) == Read(i.rt)

-----------------------------------------------------------------------------
(* How an instruction ends.  r is the register array it leaves. *)

\* step returns true after update_pc, the handler changed no control state.
Sequential(r) ==
    /\ pc' = NextPc
    /\ branch_flag' = FALSE
    /\ regs' = r
    /\ result' = "ok"
    /\ UNCHANGED <<branch_target, bad_instr, cause_register>>

\* The handler called delayed_branch.
Delayed(target, r) ==
    /\ pc' = NextPc
    /\ branch_flag' = TRUE
    /\ branch_target' = target
    /\ regs' = r
    /\ result' = "ok"
    /\ UNCHANGED <<bad_instr, cause_register>>

\* Mutant of Compact: the branch in whose delay slot it sits stays armed.
CompactKeepsBranch(target, r) ==
    /\ pc' = target
    /\ regs' = r
    /\ result' = "ok"
    /\ UNCHANGED <<branch_flag, branch_target, bad_instr, cause_register>>

\* The handler called set_pc.
Compact(target, r) ==
    /\ pc' = target
    /\ branch_flag' = FALSE
    /\ regs' = r
    /\ result' = "ok"
    /\ UNCHANGED <<branch_target, bad_instr, cause_register>>

\* Mutant of Reject: a failing handler leaves the pending branch armed.
RejectKeepsBranch ==
    /\ pc' = NextPc
    /\ result' = "failed"
    /\ UNCHANGED <<branch_flag, branch_target, regs, bad_instr, cause_register>>

\* The handler (or get_type) returned false: update_pc has already run.
Reject ==
    /\ pc' = NextPc
    /\ branch_flag' = FALSE
    /\ result' = "failed"
    /\ UNCHANGED <<branch_target, regs, bad_instr, cause_register>>

\* The host process ended inside a handler.
Kill ==
    /\ result' = "killed"
    /\ UNCHANGED rfVars

\* One outcome of an instruction that writes register d; none: it is rejected.
WriteBack(d, outcomes) ==
    \/ \E v \in outcomes : Sequential(Written(d, v))
    \/ outcomes = {} /\ Reject

\* A branch with the given decision (see Branches) to the given target.
Branch(decision, target) ==
    \/ ~decision.taken /\ Sequential(regs)
    \/ decision.taken /\ decision.how = "delayed" /\ Delayed(target, regs)
    \/ decision.taken /\ decision.how = "compact" /\ Compact(target, regs)
    \/ decision.taken /\ decision.how = "link"
                      /\ Compact(target, Written(RA, NextPc))

-----------------------------------------------------------------------------
(* The targets.  The pc in each of them is NextPc. *)

BranchTarget(i) == Wrap(NextPc + SignExt(i.imm, IMM_SIZE) * 4)

\* longimm_itype.imm is the rt field followed by the immediate.
LONG_SIZE == REGISTER_COUNT * IMM_SIZE
LongTarget(i) ==
    Wrap(NextPc + SignExt(i.rt * IMM_SIZE + i.imm, LONG_SIZE) * 4)

\* J and JAL stay in the 256 MB region of the pc; BC and BALC are relative.
RegionTarget(i) ==
    LET region == 4 * ADDR_SIZE
    IN  Wrap(i.imm * 4 + (NextPc - (NextPc % region)))

\* Mutant of FarTarget: the sum is kept in more bits than the register has.
FarTargetUnwrapped(i) == NextPc + SignExt(i.imm, ADDR_SIZE) * 4

FarTarget(i) == Wrap(NextPc + SignExt(i.imm, ADDR_SIZE) * 4)

\* The address of ADDIUPC and LWPC: imm << 2, |= 1023 * bit 21, += pc.  The
\* or-ed bits are added: bit 21 is the one above the shifted immediate.
PcrelAddress(i) ==
    LET address == i.imm * 4
        bit21   == (address \div (4 * PCREL_SIZE)) % 2
    IN  Wrap(address + PCREL_EXT * bit21 + NextPc)

-----------------------------------------------------------------------------
(* The handlers, one action each *)

\* The process that hosts the emulator has not been killed.
Running == result # "killed"

\* Mutant of TrapStep: the exception is signalled before the condition is known.
TrapStepEager(i) ==
    /\ pc' = NextPc
    /\ branch_flag' = FALSE
    /\ bad_instr' = i
    /\ cause_register' = "tr"
    /\ result' = IF TrapCondition(i.op, S(i), T(i)) THEN "failed" ELSE "ok"
    /\ UNCHANGED <<branch_target, regs>>

TrapStep(i) ==
    IF TrapCondition(i.op, S(i), T(i))
    THEN /\ pc' = NextPc
         /\ branch_flag' = FALSE
         /\ bad_instr' = i          \* signal_exception(e_tr, instr.raw)
         /\ cause_register' = "tr"
         /\ result' = "failed"
         /\ UNCHANGED <<branch_target, regs>>
    ELSE Sequential(regs)

RType(i) ==
    /\ Running /\ i.type = "rtype"
    /\ \/ i.op = "jr"   /\ Delayed(S(i), regs)
       \/ i.op = "jalr" /\ Delayed(S(i), Written(RA, NextPc))
       \/ i.op \in TrapOps /\ TrapStep(i)
       \/ i.op \in RTypeDataOps
            /\ WriteBack(i.rd, RTypeOutcomes(i, S(i), T(i)))
       \/ HostMayTrap(i, S(i), T(i)) /\ Kill
       \/ i.op = "other" /\ Reject

LoadOps  == {"lb", "lh", "lw", "lbu", "lhu"}
StoreOps == {"sb", "sh", "sw"}

\* What a load leaves in rt of the word v at its address: the low byte or half
\* of it, sign extended by the conversion to int32_t or zero extended.
LoadedValue(op, v) ==
    CASE op = "lb"  -> SignExt(v % BYTE_SIZE, BYTE_SIZE)
      [] op = "lh"  -> SignExt(v % IMM_SIZE, IMM_SIZE)
      [] op = "lw"  -> v
      [] op = "lbu" -> v % BYTE_SIZE
      [] op = "lhu" -> v % IMM_SIZE

\* handle_itype_instr with the memory: loads and stores.
LoadStore(i) ==
    /\ Running /\ i.type = "itype"
    /\ \/ i.op \in LoadOps /\ \E v \in MemoryData :
                                 Sequential(Written(i.rt, LoadedValue(i.op, v)))
       \/ i.op \in StoreOps /\ Sequential(regs)
       \/ i.op \in LoadOps \cup StoreOps /\ Reject

\* JIALC writes $31 before it reads rt.
IndirectTarget(i, r) ==
    Wrap(r[Masked(i.rt)] + SignExt(i.imm, IMM_SIZE))

Jialc(i) ==
    LET linked == Written(RA, NextPc)
    IN  i.op = "pop76" /\ i.rs = 0 /\ Compact(IndirectTarget(i, linked), linked)

\* handle_itype_instr without the memory.
IType(i) ==
    /\ Running /\ i.type = "itype"
    /\ \/ i.op \in ITypeDataOps /\ WriteBack(i.rt, ITypeOutcomes(i, S(i)))
       \/ i.op \in ImmBranchOps
            /\ Branch(ImmDecision(i, S(i), T(i)), BranchTarget(i))
       \/ i.op = "pop66" /\ i.rs = 0
            /\ Compact(IndirectTarget(i, regs), regs)             \* JIC
       \/ Jialc(i)
       \/ i.op \in {"pop66", "pop76"} /\ i.rs # 0
            /\ Branch(LongDecision(i, S(i)), LongTarget(i))

JType(i) ==
    /\ Running /\ i.type = "jtype"
    /\ \/ i.op = "j"    /\ Delayed(RegionTarget(i), regs)
       \/ i.op = "jal"  /\ Delayed(RegionTarget(i), Written(RA, NextPc))
       \/ i.op = "bc"   /\ Compact(FarTarget(i), regs)
       \/ i.op = "balc" /\ Compact(FarTarget(i), Written(RA, NextPc))

Special3(i) ==
    /\ Running
    /\ \/ i.type = "bshfl" /\ i.op \in BshflOps
            /\ WriteBack(i.rd, BshflOutcomes(i, S(i), T(i)))
       \/ i.type = "bshfl" /\ i.op = "other" /\ Reject
       \/ i.type = "ext" /\ WriteBack(i.rt, ExtOutcomes(i, S(i)))
       \/ i.type = "ins" /\ WriteBack(i.rt, InsOutcomes(i, S(i), T(i)))

Regimm(i) ==
    /\ Running /\ i.type = "regimm"
    /\ \/ i.op \in RegimmOps /\ Branch(RegimmDecision(i, S(i)), BranchTarget(i))
       \/ i.op = "other" /\ Reject

\* The register written is called rs in both views.
PcRelative1(i) ==
    /\ Running /\ i.type = "pcrel1"
    /\ \/ i.op = "addiupc" /\ Sequential(Written(i.rs, PcrelAddress(i)))
       \/ i.op = "lwpc" /\ \E v \in MemoryData : Sequential(Written(i.rs, v))
       \/ i.op = "lwpc" /\ Reject

PcRelative2(i) ==
    LET address == Wrap(i.imm * IMM_SIZE + NextPc)
    IN  /\ Running /\ i.type = "pcrel2"
        /\ \/ i.op = "aluipc"
                 /\ Sequential(Written(i.rs, address - (address % IMM_SIZE)))
           \/ i.op = "auipc" /\ Sequential(Written(i.rs, address))
           \/ i.op = "other" /\ Reject

\* get_type fails, or the type is one of the three FPU types.
Unhandled(i) == Running /\ i.type \in {"undecodable", "fpu"} /\ Reject

\* step returns before it has touched the register file.
FetchFault ==
    /\ Running
    /\ result' = "failed"
    /\ UNCHANGED rfVars

Next ==
    \/ FetchFault
    \/ \E i \in Program : RType(i)
    \/ \E i \in Program : LoadStore(i)
    \/ \E i \in Program : IType(i)
    \/ \E i \in Program : JType(i)
    \/ \E i \in Program : Special3(i)
    \/ \E i \in Program : Regimm(i)
    \/ \E i \in Program : PcRelative1(i)
    \/ \E i \in Program : PcRelative2(i)
    \/ \E i \in Program : Unhandled(i)

Spec == Init /\ [][Next]_vars

-----------------------------------------------------------------------------
(* Properties *)

\* $0 holds zero whatever instruction names it as its destination
\* (register_file.hpp:67).
ZeroRegister == regs[0] = 0

\* The one program counter, flag and target of RegisterFile behave as the two
\* program counters of DelaySlots: whatever is executed in a delay slot (a
\* branch, a trap, an instruction that fails), the branch takes effect exactly
\* one instruction later, and a stale target never does.
NextFetch == IF branch_flag THEN branch_target ELSE Add(pc, 4)

DS == INSTANCE DelaySlots WITH npc <- NextFetch, ra <- regs[RA]

RefinesDelaySlots == DS!Spec

\* A step that returns false is all or nothing: either the fetch failed and
\* nothing changed, so that the step can be repeated with a branch still
\* pending, or the instruction is skipped as a whole, its registers unwritten
\* and no branch left behind.
FailedStepAtomic ==
    [][ result' = "failed" =>
          /\ regs' = regs
          /\ \/ UNCHANGED <<pc, branch_flag, branch_target>>
             \/ pc' = NextFetch /\ ~branch_flag' ]_vars

\* The exception record is written by a failing trap and by nothing else, and
\* it names an instruction whose condition held on the registers of that very
\* step ("bad_instr is set on signalexceptions", register_file.hpp:99).
TrapsPrecise ==
    [][ <<bad_instr', cause_register'>> # <<bad_instr, cause_register>> =>
          /\ result' = "failed"
          /\ cause_register' = "tr"
          /\ bad_instr' \in Program
          /\ bad_instr'.op \in TrapOps
          /\ TrapCondition(bad_instr'.op, S(bad_instr'), T(bad_instr')) ]_vars

\* JIALC jumps to rt + imm for the rt its caller wrote, as the test "JIALC"
\* does (tests/executor/itype.cpp).
JialcTarget ==
    [][ \A i \in Program : i.type = "itype" /\ Jialc(i) =>
          pc' = Add(T(i), SignExt(i.imm, IMM_SIZE)) ]_vars

\* ADDIUPC sign extends its offset: "The 19-bit immediate is shifted left by 2
\* bits, sign- extended, and added to the address of the ADDIUPC instruction"
\* (executor.hpp:814-817).  Either reading of the address is accepted: that of
\* the instruction or, as the handler has it, that of the one after it.
AddiupcSignExtended ==
    [][ \A i \in Program : i.op = "addiupc" /\ i.rs # 0 /\ PcRelative1(i) =>
          LET offset == SignExt(i.imm * 4, 4 * PCREL_SIZE)
          IN  regs'[i.rs] \in {Add(pc, offset), Add(NextPc, offset)} ]_vars
=============================================================================
