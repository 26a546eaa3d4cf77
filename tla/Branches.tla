------------------------------ MODULE Branches ------------------------------
(***************************************************************************)
(* Which branches the executor takes: the decision half of                 *)
(* handle_itype_instr and handle_regimm_itype_instr (executor.hpp).  A     *)
(* Release 6 POP opcode stands for several instructions, told apart by     *)
(* comparing its two register fields; each table below follows the chain   *)
(* of else-ifs of one opcode.                                              *)
(*                                                                         *)
(* A decision says whether the branch is taken and how:                    *)
(*   "delayed"  after the next instruction (delayed_branch),               *)
(*   "compact"  at once (set_pc),                                          *)
(*   "link"     at once, and $31 receives the program counter first.       *)
(* i is the instruction; s and t are the unsigned values of rs and rt.     *)
(***************************************************************************)
EXTENDS MachineWord

Delay(taken) == [how |-> "delayed", taken |-> taken]
AtOnce(taken) == [how |-> "compact", taken |-> taken]
Linked(taken) == [how |-> "link",    taken |-> taken]

\* The end of an else-if chain that no variant matched.
NoVariant == AtOnce(FALSE)

\* pop06: BLEZ, BLEZALC, BGEZALC, BGEUC
Pop06(i, s, t) ==
    CASE i.rt = 0                                  -> Delay(Signed(s) <= 0)
      [] i.rt # 0 /\ i.rs = 0                      -> Linked(Signed(t) <= 0)
      [] i.rt # 0 /\ i.rs = i.rt                   -> Linked(Signed(t) >= 0)
      [] i.rt # 0 /\ i.rs # 0 /\ i.rs # i.rt       -> AtOnce(s >= t)

\* pop07: BGTZ, BGTZALC, BLTZALC, BLTUC
Pop07(i, s, t) ==
    CASE i.rt = 0                                  -> Delay(Signed(s) > 0)
      [] i.rt # 0 /\ i.rs = 0                      -> Linked(Signed(t) > 0)
      [] i.rt # 0 /\ i.rs = i.rt                   -> Linked(Signed(t) < 0)
      [] i.rt # 0 /\ i.rs # 0 /\ i.rs # i.rt       -> AtOnce(s < t)

\* The overflow test of BOVC and BNVC: carry out of the sum against its sign.
SumOverflow(s, t) ==
    LET carry     == Add(s, t) < s
        is_signed == Add(s, t) >= SIGN_BIT
    IN  carry # is_signed

\* pop10: BEQZALC, BEQC, BOVC
Pop10(i, s, t) ==
    CASE i.rs = 0 /\ i.rs < i.rt                   -> Linked(t = 0)
      [] i.rs # 0 /\ i.rs < i.rt                   -> AtOnce(t = s)
      [] i.rs >= i.rt                              -> AtOnce(SumOverflow(s, t))

\* pop30: BNEZALC, BNEC, BNVC
Pop30(i, s, t) ==
    CASE i.rs = 0 /\ i.rs < i.rt                   -> Linked(t # 0)
      [] i.rs # 0 /\ i.rs < i.rt                   -> AtOnce(t # s)
      [] i.rs >= i.rt                              -> AtOnce(~ SumOverflow(s, t))

\* Mutant of Pop26: BGEC without the equality.
Pop26Strict(i, s, t) ==
    CASE i.rt = 0                                  -> NoVariant
      [] i.rt # 0 /\ i.rs = 0                      -> AtOnce(Signed(t) <= 0)
      [] i.rt # 0 /\ i.rs = i.rt                   -> AtOnce(Signed(t) >= 0)
      [] i.rt # 0 /\ i.rs # 0 /\ i.rs # i.rt       -> AtOnce(Signed(s) > Signed(t))

\* pop26: BLEZC, BGEZC, BGEC; rt = 0 is none of them
Pop26(i, s, t) ==
    CASE i.rt = 0                                  -> NoVariant
      [] i.rt # 0 /\ i.rs = 0                      -> AtOnce(Signed(t) <= 0)
      [] i.rt # 0 /\ i.rs = i.rt                   -> AtOnce(Signed(t) >= 0)
      [] i.rt # 0 /\ i.rs # 0 /\ i.rs # i.rt       -> AtOnce(Signed(s) >= Signed(t))

\* Mutant of Pop27: BLTC compares unsigned values, as its neighbour BLTUC does.
Pop27Unsigned(i, s, t) ==
    CASE i.rt = 0                                  -> NoVariant
      [] i.rt # 0 /\ i.rs = 0                      -> AtOnce(Signed(t) > 0)
      [] i.rt # 0 /\ i.rs = i.rt                   -> AtOnce(Signed(t) < 0)
      [] i.rt # 0 /\ i.rs # 0 /\ i.rs # i.rt       -> AtOnce(s < t)

\* pop27: BGTZC, BLTZC, BLTC; rt = 0 is none of them
Pop27(i, s, t) ==
    CASE i.rt = 0                                  -> NoVariant
      [] i.rt # 0 /\ i.rs = 0                      -> AtOnce(Signed(t) > 0)
      [] i.rt # 0 /\ i.rs = i.rt                   -> AtOnce(Signed(t) < 0)
      [] i.rt # 0 /\ i.rs # 0 /\ i.rs # i.rt       -> AtOnce(Signed(s) < Signed(t))

\* The I-type branches whose target is pc + 4 * imm.
ImmBranchOps == {"beq", "bne", "pop06", "pop07", "pop10", "pop30", "pop26", "pop27"}

ImmDecision(i, s, t) ==
    CASE i.op = "beq"   -> Delay(t = s)
      [] i.op = "bne"   -> Delay(t # s)
      [] i.op = "pop06" -> Pop06(i, s, t)
      [] i.op = "pop07" -> Pop07(i, s, t)
      [] i.op = "pop10" -> Pop10(i, s, t)
      [] i.op = "pop30" -> Pop30(i, s, t)
      [] i.op = "pop26" -> Pop26(i, s, t)
      [] i.op = "pop27" -> Pop27(i, s, t)

\* BEQZC and BNEZC, the variants of pop66 and pop76 with rs # 0.
LongDecision(i, s) ==
    CASE i.op = "pop66" -> AtOnce(s = 0)
      [] i.op = "pop76" -> AtOnce(s # 0)

RegimmOps == {"bgez", "bltz"}

RegimmDecision(i, s) ==
    CASE i.op = "bgez" -> Delay(Signed(s) >= 0)
      [] i.op = "bltz" -> Delay(Signed(s) < 0)
=============================================================================
