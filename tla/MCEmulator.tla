------------------------------ MODULE MCEmulator ------------------------------
(***************************************************************************)
(* Emulator on 4-bit words with 1-bit bytes, $0 and one register that is   *)
(* $31 too, a buffer of 9 bytes and a device above it, under a decoder     *)
(* with one instruction for each of the 16 words.                          *)
(***************************************************************************)
EXTENDS Emulator

I(type, op, rs, rt, imm) ==
    [type |-> type, op |-> op, rs |-> rs, rt |-> rt, rd |-> rt, sa |-> 0,
     imm |-> imm]

MCDecode ==
    [w \in 0 .. 15 |->
      CASE w = 0  -> I("rtype", "sll", 0, 0, 0)         \* nop
        [] w = 1  -> I("itype", "addiu", 1, 1, 1)
        [] w = 2  -> I("itype", "lw", 0, 1, 0)
        [] w = 3  -> I("itype", "sb", 1, 1, 0)
        [] w = 4  -> I("itype", "beq", 0, 0, 2)         \* to itself
        [] w = 5  -> I("jtype", "j", 0, 0, 1)
        [] w = 6  -> I("rtype", "jalr", 1, 0, 0)
        [] w = 7  -> I("itype", "lb", 1, 1, 3)
        [] w = 8  -> I("itype", "sw", 1, 1, 0)
        [] w = 9  -> I("itype", "pop66", 1, 1, 3)       \* BEQZC, back by one
        [] w = 10 -> I("rtype", "teq", 1, 0, 0)
        [] w = 11 -> I("pcrel1", "lwpc", 1, 0, 1)
        [] w = 12 -> I("undecodable", "other", 0, 0, 0)
        [] w = 13 -> I("itype", "addiu", 0, 1, 2)       \* $1 = -2
        [] w = 14 -> I("itype", "lhu", 0, 1, 1)
        [] w = 15 -> I("rtype", "sop32", 1, 1, 0)]

MCProgram  == {MCDecode[w] : w \in 0 .. 15}
MCZero     == MCDecode[0]
MCWord     == 0 .. 15

MCImages == [0 .. SIZE - 1 -> {0, 1}]
=============================================================================
