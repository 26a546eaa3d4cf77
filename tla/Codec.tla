-------------------------------- MODULE Codec --------------------------------
(***************************************************************************)
(* union Instruction (instruction.hpp): the layouts of its views, its      *)
(* constructors, get_type, and the fields each handler of the executor     *)
(* reads of a word.  The views overlap: a constructor writes through one,  *)
(* get_type looks at another, a handler reads through a third.             *)
(*                                                                         *)
(* A word is the set of the positions of its one bits, and so is the value *)
(* of a field, counted from the field's first bit.  The widths are the     *)
(* real ones.                                                              *)
(***************************************************************************)
EXTENDS Integers

CONSTANTS Registers,   \* register numbers tried, of 0 .. 31
          Bytes,       \* uint8_t arguments tried, of 0 .. 255
          Immediates,  \* uint16_t and uint32_t arguments tried, as bit sets
          RawWords     \* uint32_t values tried, as bit sets

ASSUME CodecAssumption ==
    /\ Registers \subseteq 0 .. 31
    /\ Bytes \subseteq 0 .. 255
    /\ Immediates \subseteq SUBSET (0 .. 31)
    /\ RawWords \subseteq SUBSET (0 .. 31)

Position == 0 .. 31

-----------------------------------------------------------------------------
(* The views: <<first bit, width>> of each field *)

General  == [op |-> <<26, 6>>]
RType    == [func |-> <<0, 6>>, shamt |-> <<6, 5>>, rd |-> <<11, 5>>,
             rt |-> <<16, 5>>, rs |-> <<21, 5>>, zero |-> <<26, 6>>]
IType    == [imm |-> <<0, 16>>, rt |-> <<16, 5>>, rs |-> <<21, 5>>,
             op |-> <<26, 6>>]
JType    == [address |-> <<0, 26>>, op |-> <<26, 6>>]
FPURType == [func |-> <<0, 6>>, fd |-> <<6, 5>>, fs |-> <<11, 5>>,
             ft |-> <<16, 5>>, fmt |-> <<21, 5>>, cop1 |-> <<26, 6>>]
FPUBType == [offset |-> <<0, 16>>, ft |-> <<16, 5>>, bc |-> <<21, 5>>,
             cop1 |-> <<26, 6>>]
FPUTType == [zero |-> <<0, 11>>, fs |-> <<11, 5>>, rt |-> <<16, 5>>,
             op |-> <<21, 5>>, cop1 |-> <<26, 6>>]
Special3Type ==
    [func |-> <<0, 6>>, extra |-> <<6, 5>>, rd |-> <<11, 5>>,
     rt |-> <<16, 5>>, rs |-> <<21, 5>>, special3 |-> <<26, 6>>]
Special3TypeBSHFL ==
    [bshfl |-> <<0, 6>>, func |-> <<6, 5>>, rd |-> <<11, 5>>,
     rt |-> <<16, 5>>, rs |-> <<21, 5>>, special3 |-> <<26, 6>>]
Special3TypeEXT == [lsb |-> <<6, 5>>, msbd |-> <<11, 5>>]
Special3TypeINS == [lsb |-> <<6, 5>>, msb |-> <<11, 5>>]
RegimmIType  == [imm |-> <<0, 16>>, op |-> <<16, 5>>, rs |-> <<21, 5>>,
                 regimm |-> <<26, 6>>]
\* Mutant of PCRelType1: the immediate is as wide as that of LongimmIType.
PCRelType1Wide == [imm |-> <<0, 21>>, func |-> <<19, 2>>, rs |-> <<21, 5>>,
                   pcrel |-> <<26, 6>>]

PCRelType1   == [imm |-> <<0, 19>>, func |-> <<19, 2>>, rs |-> <<21, 5>>,
                 pcrel |-> <<26, 6>>]
PCRelType2   == [imm |-> <<0, 16>>, func |-> <<16, 5>>, rs |-> <<21, 5>>,
                 pcrel |-> <<26, 6>>]
LongimmIType == [imm |-> <<0, 21>>, rs |-> <<21, 5>>, op |-> <<26, 6>>]

\* The bits of a field, and its value where it is an opcode or a function.
Get(w, f) == {k \in 0 .. f[2] - 1 : f[1] + k \in w}

Val(w, f) ==
    LET weight(k, v) == IF k \in Get(w, f) THEN v ELSE 0
    IN  weight(0, 1) + weight(1, 2) + weight(2, 4) + weight(3, 8)
        + weight(4, 16) + weight(5, 32)

\* The bits of an uint8_t.
Weight  == <<1, 2, 4, 8, 16, 32, 64, 128>>
Bits(n) == {k \in 0 .. 7 : (n \div Weight[k + 1]) % 2 = 1}

\* Mutant of At: the value is not cut to the width of the field.
AtUncut(f, B) == {f[1] + k : k \in B}

\* What an assignment to a field of a zero word sets: the bits beyond its width
\* are lost.
At(f, B) == {f[1] + k : k \in B \cap (0 .. f[2] - 1)}

\* Mutant of Put: the old bits of the field stay.
PutMerged(w, f, B) == w \cup At(f, B)

\* An assignment to a field of any word.
Put(w, f, B) == (w \ (f[1] .. f[1] + f[2] - 1)) \cup At(f, B)

-----------------------------------------------------------------------------
(* The enumerations, under the names Executor uses *)

Func ==
    [add |-> 32, addu |-> 33, sub |-> 34, subu |-> 35, sop30 |-> 24,
     sop31 |-> 25, sop32 |-> 26, sop33 |-> 27, seleqz |-> 53, selnez |-> 55,
     and |-> 36, nor |-> 39, or |-> 37, xor |-> 38, jr |-> 8, jalr |-> 9,
     slt |-> 42, sltu |-> 43, sll |-> 0, sllv |-> 4, sra |-> 3, srav |-> 7,
     srl |-> 2, srlv |-> 6, clz |-> 16, clo |-> 11, teq |-> 52, tge |-> 48,
     tgeu |-> 49, tlt |-> 50, tltu |-> 51, tne |-> 54]

ITypeOpcode ==
    [beq |-> 4, bne |-> 5, addiu |-> 9, aui |-> 15, slti |-> 10, sltiu |-> 11,
     andi |-> 12, ori |-> 13, xori |-> 14, lb |-> 32, lbu |-> 36, lw |-> 35,
     sb |-> 40, sw |-> 43, lh |-> 33, lhu |-> 37, sh |-> 41, pop06 |-> 6,
     pop07 |-> 7, pop10 |-> 8, pop26 |-> 22, pop27 |-> 23, pop30 |-> 24,
     pop66 |-> 54, pop76 |-> 62]

JTypeOpcode == [j |-> 2, jal |-> 3, bc |-> 50, balc |-> 58]

FPUFunc ==
    {0, 1, 2, 3, 4, 5, 6, 7, 8, 9, 10, 11, 12, 13, 14, 15, 16, 20, 21, 22, 23,
     24, 25, 26, 27, 28, 29, 30, 31, 32, 33, 36, 37}
FPURTypeOp == [s |-> 16, d |-> 17, w |-> 20, l |-> 21, cmp_s |-> 24, cmp_d |-> 25]
FPUBTypeOp == [bc1eqz |-> 9, bc1nez |-> 13]
FPUTTypeOp == [mf |-> 0, cf |-> 2, mfh |-> 3, mt |-> 4, ct |-> 6, mth |-> 7]

Special3Func      == [ext |-> 0, ins |-> 4, bshfl |-> 32]
Special3BSHFLFunc ==
    [bitswap |-> 0, wsbh |-> 2, align_0 |-> 8, align_1 |-> 9, align_2 |-> 10,
     align_3 |-> 11, seh |-> 24, seb |-> 16]

RegimmITypeOp == [bgez |-> 1, bltz |-> 0]
PCRelFunc1    == [addiupc |-> 0, lwpc |-> 1]
PCRelFunc2    == [auipc |-> 30, aluipc |-> 31]

RTYPE_OPCODE    == 0
REGIMM_OPCODE   == 1
COP1_OPCODE     == 17
SPECIAL3_OPCODE == 31
PCREL_OPCODE    == 59

\* The enumerator a value is cast to; "other" takes the default of a switch.
Enumerator(enum, n) ==
    IF \E e \in DOMAIN enum : enum[e] = n
    THEN CHOOSE e \in DOMAIN enum : enum[e] = n
    ELSE "other"

-----------------------------------------------------------------------------
(* get_type *)

Type == {"rtype", "itype", "longimm", "jtype", "fpu_rtype", "fpu_btype",
         "fpu_ttype", "bshfl", "ext", "ins", "regimm", "pcrel1", "pcrel2",
         "undecodable"}

ITypeCodes == (4 .. 15) \cup {22, 23, 24, 32, 33, 35, 36, 37, 40, 41, 43}
JTypeCodes == {2, 3, 50, 58}
LongCodes  == {54, 62}

Special3TypeOf(func) ==
    CASE func = 32 -> "bshfl"
      [] func = 0  -> "ext"
      [] func = 4  -> "ins"
      [] OTHER     -> "undecodable"

\* Mutant of PcrelTypeOf: the low bit of func tells the types apart.
PcrelTypeOfLowBit(w) == IF 0 \in Get(w, PCRelType1.func) THEN "pcrel2"
                                                         ELSE "pcrel1"

PcrelTypeOf(w) == IF 1 \in Get(w, PCRelType1.func) THEN "pcrel2" ELSE "pcrel1"

FpuTypeOf(w) ==
    LET fmt == Get(w, FPURType.fmt)
    IN  CASE 4 \in fmt                -> "fpu_rtype"
          [] 4 \notin fmt /\ 3 \in fmt -> "fpu_btype"
          [] OTHER                    -> "fpu_ttype"

GetType(w) ==
    LET op == Val(w, General.op)
    IN  CASE op = RTYPE_OPCODE    -> "rtype"
          [] op \in JTypeCodes    -> "jtype"
          [] op \in ITypeCodes    -> "itype"
          [] op = REGIMM_OPCODE   -> "regimm"
          [] op = SPECIAL3_OPCODE -> Special3TypeOf(Val(w, Special3Type.func))
          [] op = PCREL_OPCODE    -> PcrelTypeOf(w)
          [] op = COP1_OPCODE     -> FpuTypeOf(w)
          [] op \in LongCodes     -> IF Get(w, IType.rs) # {} THEN "longimm"
                                                             ELSE "itype"
          [] OTHER                -> "undecodable"

-----------------------------------------------------------------------------
(* What the handlers of the executor read *)

\* The operation a handler switches on.
OpOf(w) ==
    LET type == GetType(w)
    IN  CASE type = "rtype"  -> Enumerator(Func, Val(w, RType.func))
          [] type \in {"itype", "longimm"} ->
               Enumerator(ITypeOpcode, Val(w, IType.op))
          [] type = "jtype"  -> Enumerator(JTypeOpcode, Val(w, JType.op))
          [] type = "bshfl"  ->
               Enumerator(Special3BSHFLFunc, Val(w, Special3TypeBSHFL.func))
          [] type = "regimm" -> Enumerator(RegimmITypeOp, Val(w, RegimmIType.op))
          [] type = "pcrel1" -> Enumerator(PCRelFunc1, Val(w, PCRelType1.func))
          [] type = "pcrel2" -> Enumerator(PCRelFunc2, Val(w, PCRelType2.func))
          [] OTHER           -> type   \* nothing left to switch on

\* The operands, each with every field its handler reads it from: the I-type
\* handlers take register values through the R-type view and compare register
\* numbers through their own, BGEZ and BLTZ take the immediate of the I-type
\* view, EXT and INS the registers of the common special3 view.
Reads ==
    [rtype   |-> {<<"rs", RType.rs>>, <<"rt", RType.rt>>, <<"rd", RType.rd>>,
                  <<"sa", RType.shamt>>},
     itype   |-> {<<"rs", RType.rs>>, <<"rs", IType.rs>>, <<"rt", RType.rt>>,
                  <<"rt", IType.rt>>, <<"imm", IType.imm>>},
     longimm |-> {<<"rs", IType.rs>>, <<"rs", LongimmIType.rs>>,
                  <<"imm", LongimmIType.imm>>},
     jtype   |-> {<<"imm", JType.address>>},
     bshfl   |-> {<<"rs", Special3TypeBSHFL.rs>>, <<"rt", Special3TypeBSHFL.rt>>,
                  <<"rd", Special3TypeBSHFL.rd>>},
     ext     |-> {<<"rs", Special3Type.rs>>, <<"rt", Special3Type.rt>>,
                  <<"rd", Special3TypeEXT.msbd>>, <<"sa", Special3TypeEXT.lsb>>},
     ins     |-> {<<"rs", Special3Type.rs>>, <<"rt", Special3Type.rt>>,
                  <<"rd", Special3TypeINS.msb>>, <<"sa", Special3TypeINS.lsb>>},
     regimm  |-> {<<"rs", RegimmIType.rs>>, <<"imm", IType.imm>>},
     pcrel1  |-> {<<"rs", PCRelType1.rs>>, <<"imm", PCRelType1.imm>>},
     pcrel2  |-> {<<"rs", PCRelType2.rs>>, <<"imm", PCRelType2.imm>>},
     fpu_rtype |-> {}, fpu_btype |-> {}, fpu_ttype |-> {}, undecodable |-> {}]

\* The case labels of each handler's own switch; both I-type views go to the
\* I-type handler and, for loads and stores, the memory handler.
IHandled ==
    {"beq", "bne", "addiu", "aui", "slti", "sltiu", "andi", "ori", "xori",
     "pop06", "pop07", "pop10", "pop30", "pop26", "pop27", "pop66", "pop76"}
     \cup {"lb", "lh", "lw", "lbu", "lhu", "sb", "sh", "sw"}

Handled ==
    [rtype   |-> {"add", "addu", "sub", "subu", "sop30", "sop31", "sop32",
                  "sop33", "and", "nor", "or", "xor", "jr", "slt", "sltu",
                  "jalr", "sll", "sllv", "sra", "srav", "srl", "srlv", "seleqz",
                  "selnez", "clz", "clo", "teq", "tge", "tgeu", "tlt", "tltu",
                  "tne"},
     itype   |-> IHandled,
     longimm |-> IHandled,
     jtype   |-> {"j", "jal", "bc", "balc"},
     bshfl   |-> {"bitswap", "wsbh", "align_0", "align_1", "align_2", "align_3",
                  "seb", "seh"},
     regimm  |-> {"bgez", "bltz"},
     pcrel1  |-> {"addiupc", "lwpc"},
     pcrel2  |-> {"aluipc", "auipc"}]

-----------------------------------------------------------------------------
(* Release 6 packs several instructions into one opcode: the handler tells    *)
(* them apart by an operand                                                   *)

\* The else-if chains of pop06, pop07, pop26 and pop27.
ByRegisters(rs, rt, without_rt, without_rs, same, two) ==
    CASE rt = {}                               -> without_rt
      [] rt # {} /\ rs = {}                    -> without_rs
      [] rt # {} /\ rs = rt                    -> same
      [] rt # {} /\ rs # {} /\ rs # rt         -> two

\* Those of pop10 and pop30: rs < rt, as register numbers.
ByOrder(rs, rt, overflow, zero, equal) ==
    LET below == \E k \in rt \ rs : \A j \in rs \ rt : j < k
    IN  CASE ~below            -> overflow
          [] below /\ rs = {}  -> zero
          [] below /\ rs # {}  -> equal

\* The instruction the executor carries out for a word.
Mnemonic(w) ==
    LET op == OpOf(w)
        rs == Get(w, IType.rs)
        rt == Get(w, IType.rt)
        sa == Get(w, RType.shamt)
        sop(shamt2, shamt3) == IF sa = {1} THEN shamt2 ELSE shamt3
    IN  CASE op = "pop06" -> ByRegisters(rs, rt, "blez", "blezalc", "bgezalc", "bgeuc")
          [] op = "pop07" -> ByRegisters(rs, rt, "bgtz", "bgtzalc", "bltzalc", "bltuc")
          [] op = "pop26" -> ByRegisters(rs, rt, "none", "blezc", "bgezc", "bgec")
          [] op = "pop27" -> ByRegisters(rs, rt, "none", "bgtzc", "bltzc", "bltc")
          [] op = "pop10" -> ByOrder(rs, rt, "bovc", "beqzalc", "beqc")
          [] op = "pop30" -> ByOrder(rs, rt, "bnvc", "bnezalc", "bnec")
          [] op = "pop66" -> IF rs = {} THEN "jic" ELSE "beqzc"
          [] op = "pop76" -> IF rs = {} THEN "jialc" ELSE "bnezc"
          [] op = "sop30" -> sop("mul", "muh")
          [] op = "sop31" -> sop("mulu", "muhu")
          [] op = "sop32" -> sop("div", "mod")
          [] op = "sop33" -> sop("divu", "modu")
          [] op = "srl"   -> IF 0 \in rs THEN "rotr" ELSE "srl"
          [] op = "srlv"  -> IF 0 \in sa THEN "rotrv" ELSE "srlv"
          [] OTHER        -> op

\* The operands that do select the instruction.
Selectors(op) ==
    CASE op \in {"pop06", "pop07", "pop10", "pop30", "pop26", "pop27"} -> {"rs", "rt"}
      [] op \in {"pop66", "pop76", "srl"}                   -> {"rs"}
      [] op \in {"sop30", "sop31", "sop32", "sop33", "srlv"} -> {"sa"}
      [] OTHER                                              -> {}

-----------------------------------------------------------------------------
(* The constructors *)

VARIABLES word,    \* the instruction
          intent   \* what its caller asked for; of type "none" for a raw word

vars == <<word, intent>>

Intent(type, op, args) ==
    [type |-> type, op |-> op, args |-> args, patched |-> FALSE]

Raw == Intent("none", "none", <<>>)

\* What a field of f's width keeps of an argument.
Fit(f, B) == B \cap (0 .. f[2] - 1)

Init == word = {} /\ intent = Raw

MakeRaw ==
    /\ word' \in RawWords
    /\ intent' = Raw

MakeRType ==
    \E func \in DOMAIN Func, rd \in Registers, rs \in Registers, rt \in Registers,
       shift_amount \in Bytes :
      /\ word' = At(RType.zero, Bits(RTYPE_OPCODE))
                 \cup At(RType.func, Bits(Func[func]))
                 \cup At(RType.rd, Bits(rd)) \cup At(RType.rs, Bits(rs))
                 \cup At(RType.rt, Bits(rt)) \cup At(RType.shamt, Bits(shift_amount))
      /\ intent' = Intent("rtype", func,
                          [rs |-> Bits(rs), rt |-> Bits(rt), rd |-> Bits(rd),
                           sa |-> Fit(RType.shamt, Bits(shift_amount))])

\* BEQZC and BNEZC have no constructor of their own: they are written as an
\* I-type with a register, and the rt field is the top of their immediate.
ITypeIntent(op, rt, rs, imm) ==
    IF op \in {"pop66", "pop76"} /\ rs # {}
    THEN Intent("longimm", op, [rs |-> rs, imm |-> imm \cup {16 + k : k \in rt}])
    ELSE Intent("itype", op, [rs |-> rs, rt |-> rt, imm |-> imm])

\* The constructor without rt writes 0 there.
MakeIType ==
    \E op \in DOMAIN ITypeOpcode, rt \in Registers \cup {0}, rs \in Registers,
       immediate \in Immediates :
      /\ word' = At(IType.op, Bits(ITypeOpcode[op])) \cup At(IType.rt, Bits(rt))
                 \cup At(IType.rs, Bits(rs)) \cup At(IType.imm, immediate)
      /\ intent' = ITypeIntent(op, Bits(rt), Bits(rs), Fit(IType.imm, immediate))

MakeJType ==
    \E op \in DOMAIN JTypeOpcode, address \in Immediates :
      /\ word' = At(JType.op, Bits(JTypeOpcode[op])) \cup At(JType.address, address)
      /\ intent' = Intent("jtype", op, [imm |-> Fit(JType.address, address)])

MakeFpuRType ==
    \E op \in DOMAIN FPURTypeOp, ft \in Bytes, fs \in Bytes, fd \in Bytes,
       func \in FPUFunc :
      /\ word' = At(FPURType.cop1, Bits(COP1_OPCODE))
                 \cup At(FPURType.fmt, Bits(FPURTypeOp[op]))
                 \cup At(FPURType.ft, Bits(ft)) \cup At(FPURType.fs, Bits(fs))
                 \cup At(FPURType.fd, Bits(fd)) \cup At(FPURType.func, Bits(func))
      /\ intent' = Intent("fpu_rtype", "fpu_rtype", <<>>)

MakeFpuBType ==
    \E op \in DOMAIN FPUBTypeOp, ft \in Bytes, offset \in Immediates :
      /\ word' = At(FPUBType.cop1, Bits(COP1_OPCODE))
                 \cup At(FPUBType.bc, Bits(FPUBTypeOp[op]))
                 \cup At(FPUBType.ft, Bits(ft)) \cup At(FPUBType.offset, offset)
      /\ intent' = Intent("fpu_btype", "fpu_btype", <<>>)

MakeFpuTType ==
    \E op \in DOMAIN FPUTTypeOp, rt \in Registers, fs \in Bytes :
      /\ word' = At(FPUTType.cop1, Bits(COP1_OPCODE))
                 \cup At(FPUTType.op, Bits(FPUTTypeOp[op]))
                 \cup At(FPUTType.rt, Bits(rt)) \cup At(FPUTType.fs, Bits(fs))
      /\ intent' = Intent("fpu_ttype", "fpu_ttype", <<>>)

\* The three special3 constructors: extra is the operation of a bshfl
\* instruction, the lsb of EXT and INS, and rd their msbd or msb.
MakeSpecial3 ==
    \E func \in DOMAIN Special3Func, rd \in Bytes, rs \in Registers \cup {0},
       rt \in Registers,
       extra \in Bytes \cup {Special3BSHFLFunc[op] : op \in DOMAIN Special3BSHFLFunc} :
      /\ word' = At(Special3Type.func, Bits(Special3Func[func]))
                 \cup At(Special3Type.extra, Bits(extra))
                 \cup At(Special3Type.rd, Bits(rd)) \cup At(Special3Type.rt, Bits(rt))
                 \cup At(Special3Type.rs, Bits(rs))
                 \cup At(Special3Type.special3, Bits(SPECIAL3_OPCODE))
      /\ intent' = Intent(func,
                          IF func = "bshfl"
                          THEN Enumerator(Special3BSHFLFunc, extra % 32) ELSE func,
                          [rs |-> Bits(rs), rt |-> Bits(rt),
                           rd |-> Fit(Special3Type.rd, Bits(rd)),
                           sa |-> Fit(Special3Type.extra, Bits(extra))])

MakeRegimm ==
    \E op \in DOMAIN RegimmITypeOp, rs \in Registers, immediate \in Immediates :
      /\ word' = At(RegimmIType.op, Bits(RegimmITypeOp[op]))
                 \cup At(RegimmIType.rs, Bits(rs)) \cup At(RegimmIType.imm, immediate)
                 \cup At(RegimmIType.regimm, Bits(REGIMM_OPCODE))
      /\ intent' = Intent("regimm", op, [rs |-> Bits(rs),
                                         imm |-> Fit(RegimmIType.imm, immediate)])

MakePcrel1 ==
    \E func \in DOMAIN PCRelFunc1, rs \in Registers, immediate \in Immediates :
      /\ word' = At(PCRelType1.pcrel, Bits(PCREL_OPCODE))
                 \cup At(PCRelType1.rs, Bits(rs))
                 \cup At(PCRelType1.func, Bits(PCRelFunc1[func]))
                 \cup At(PCRelType1.imm, immediate)
      /\ intent' = Intent("pcrel1", func, [rs |-> Bits(rs),
                                           imm |-> Fit(PCRelType1.imm, immediate)])

MakePcrel2 ==
    \E func \in DOMAIN PCRelFunc2, rs \in Registers, immediate \in Immediates :
      /\ word' = At(PCRelType2.pcrel, Bits(PCREL_OPCODE))
                 \cup At(PCRelType2.rs, Bits(rs))
                 \cup At(PCRelType2.func, Bits(PCRelFunc2[func]))
                 \cup At(PCRelType2.imm, immediate)
      /\ intent' = Intent("pcrel2", func, [rs |-> Bits(rs),
                                           imm |-> Fit(PCRelType2.imm, immediate)])

\* What the caller intends once operand n is B: the rs of pop66 and pop76 also
\* says whether the word has an rt or a long immediate.
Overwritten(i, n, B) ==
    LET args == [m \in DOMAIN i.args |-> IF m = n THEN B ELSE i.args[m]]
        rt   == IF i.type = "longimm" THEN {k \in 0 .. 4 : 16 + k \in args.imm}
                                      ELSE args.rt
    IN  IF i.type \in {"itype", "longimm"} /\ i.op \in {"pop66", "pop76"}
        THEN ITypeIntent(i.op, rt, args.rs, args.imm \cap (0 .. 15))
        ELSE Intent(i.type, i.op, args)

\* The views are public: a user overwrites any operand where a handler reads it,
\* the offset of a branch for instance.  One patch an instruction bounds the run.
Patch ==
    /\ ~intent.patched
    /\ \E r \in Reads[GetType(word)], B \in Immediates :
         /\ word' = Put(word, r[2], B)
         /\ intent' = [Overwritten(intent, r[1], Fit(r[2], B)) EXCEPT !.patched = TRUE]

Make ==
    \/ MakeRaw \/ MakeRType \/ MakeIType \/ MakeJType
    \/ MakeFpuRType \/ MakeFpuBType \/ MakeFpuTType
    \/ MakeSpecial3 \/ MakeRegimm \/ MakePcrel1 \/ MakePcrel2

\* The instruction goes out of scope.
Discard == word' = {} /\ intent' = Raw

Next ==
    \/ word = {} /\ Make
    \/ Patch
    \/ Discard

Spec == Init /\ [][Next]_vars

-----------------------------------------------------------------------------
(* Properties *)

\* Every word has 32 bits and a type.
TypeOK ==
    /\ word \subseteq Position
    /\ GetType(word) \in Type
    /\ intent.type \in Type \cup {"none"}
    /\ intent.patched \in BOOLEAN

\* What a constructor was asked for is what get_type and the handler find in the
\* word, through whatever view they look, also after an operand was overwritten
\* through one of the views; an argument too wide for its field touches no
\* other (instruction.hpp:388-519).
IntentDecoded ==
    intent.type # "none" =>
      /\ GetType(word) = intent.type
      /\ OpOf(word) = intent.op
      /\ \A r \in Reads[intent.type] : Get(word, r[2]) = intent.args[r[1]]

\* get_type, the enumerations and the handlers agree on every word: no word
\* reaches the default of handle_itype_instr, handle_jtype_instr or
\* handle_pcrel_type1_instr, and one that names an enumerator has a case in its
\* handler.  What is rejected is an open function field, of the FPU, or
\* undecodable.
OpcodesHandled ==
    LET type == GetType(word)
        op   == OpOf(word)
    IN  /\ op = "other" => type \in {"rtype", "bshfl", "regimm", "pcrel2"}
        /\ type \in DOMAIN Handled /\ op # "other" => op \in Handled[type]

\* Overwriting an operand, of any word and through any view it is read through,
\* keeps the opcode the handler switches on, and turns the word into another
\* type or another instruction only if the operand is one that selects among the
\* instructions of that opcode: rt of BLEZ, shamt of MUL, rs of SRL or JIC, but
\* never the offset of a branch or a destination register.
PatchKeepsInstruction ==
    [][Patch =>
         \A r \in Reads[GetType(word)], B \in Immediates :
           word' = Put(word, r[2], B) =>
             /\ OpOf(word') = OpOf(word)
             /\ r[1] \notin Selectors(OpOf(word)) =>
                  /\ GetType(word') = GetType(word)
                  /\ Mnemonic(word') = Mnemonic(word)]_vars
=============================================================================
