----------------------------- MODULE MCExecutor -----------------------------
(***************************************************************************)
(* Executor on 4-bit words (16 addresses, 4 instruction slots) and four    *)
(* registers: $0, the data register 1, the never written register 2 and    *)
(* $31 as register 3.  Program has every branch, jump, trap and failure of *)
(* the executor and one instruction of every data handler.                 *)
(***************************************************************************)
EXTENDS Executor

I(type, op, rs, rt, rd, sa, imm) ==
    [type |-> type, op |-> op, rs |-> rs, rt |-> rt, rd |-> rd, sa |-> sa,
     imm |-> imm]

R(op, rs, rt, rd, sa) == I("rtype", op, rs, rt, rd, sa, 0)
Imm(op, rs, rt, imm)  == I("itype", op, rs, rt, 0, 0, imm)
Jump(op, address)     == I("jtype", op, 0, 0, 0, 0, address)

Nop == R("sll", 0, 0, 0, 0)

Data ==
    {Nop, R("subu", 0, 1, 1, 0), R("sop32", 1, 3, 0, 2), R("sop32", 1, 2, 1, 2),
     R("other", 0, 0, 0, 0),
     Imm("addiu", 0, 1, 3), Imm("aui", 1, 0, 1),
     I("bshfl", "wsbh", 0, 1, 0, 0, 0), I("bshfl", "other", 0, 0, 0, 0, 0),
     I("ext", "ext", 1, 1, 0, 2, 0), I("ext", "ext", 1, 1, 3, 2, 0),
     I("ins", "ins", 1, 1, 2, 3, 0), I("ins", "ins", 3, 0, 2, 2, 0),
     I("pcrel1", "addiupc", 0, 0, 0, 0, 1), I("pcrel1", "lwpc", 1, 0, 0, 0, 0),
     I("pcrel2", "aluipc", 1, 0, 0, 0, 1), I("pcrel2", "auipc", 0, 0, 0, 0, 2),
     I("pcrel2", "other", 0, 0, 0, 0, 0), I("fpu", "other", 0, 0, 0, 0, 0),
     I("undecodable", "other", 0, 0, 0, 0, 0)}

Traps == {R("teq", 1, 0, 0, 0), R("tlt", 1, 3, 0, 0)}

Memory ==
    {Imm("lw", 0, 1, 0), Imm("lb", 1, 1, 0), Imm("lw", 2, 0, 0), Imm("sw", 1, 3, 0)}

Branching ==
    {R("jr", 1, 0, 0, 0), R("jr", 3, 0, 0, 0), R("jalr", 1, 0, 0, 0),
     R("jalr", 3, 0, 0, 0)}
    \cup {Imm("beq", 1, 0, 3), Imm("bne", 1, 0, 2)}
    \cup {Imm(op, f[1], f[2], 2) :
            op \in {"pop06", "pop07", "pop10", "pop30", "pop26", "pop27"},
            f \in {<<1, 0>>, <<0, 1>>, <<1, 1>>, <<1, 3>>}}
    \cup {Imm(op, f[1], f[2], 1) :
            op \in {"pop66", "pop76"}, f \in {<<0, 1>>, <<0, 3>>, <<1, 2>>}}
    \cup {Jump("j", 1), Jump("jal", 1), Jump("bc", 1), Jump("balc", 0)}
    \cup {I("regimm", op, 1, 0, 0, 0, 2) : op \in {"bgez", "bltz", "other"}}

MCProgram == Data \cup Traps \cup Memory \cup Branching

\* A program for the properties that quote the documentation: both registers
\* JIALC may read, both signs of the ADDIUPC immediate.
MCDocProgram ==
    {Nop, Imm("addiu", 1, 1, 1),
     Imm("pop76", 0, 1, 0), Imm("pop76", 0, 3, 1),
     I("pcrel1", "addiupc", 1, 0, 0, 0, 0), I("pcrel1", "addiupc", 1, 0, 0, 0, 1)}
=============================================================================
