---------------------------- MODULE Codec_proofs ----------------------------
(***************************************************************************)
(* Theorems about Codec for every word, every immediate and every argument *)
(* of a constructor.                                                       *)
(*                                                                         *)
(* The argument: an assignment to a field leaves every field apart from it *)
(* as it is; the fields get_type and the switches of the handlers look at  *)
(* are apart from the operands of the type they decide; so a constructor   *)
(* or an assignment decides each field on its own.                         *)
(***************************************************************************)
EXTENDS Codec, TLAPS

-----------------------------------------------------------------------------
(* Fields *)

LEMMA AtMember ==
  ASSUME NEW lo \in Nat, NEW width \in Nat, NEW B, NEW x \in Int
  PROVE  x \in At(<<lo, width>>, B) <=> x - lo \in B /\ x - lo \in 0 .. width - 1
  BY DEF At

LEMMA GetPutSame ==
  ASSUME NEW w, NEW lo \in Nat, NEW width \in Nat, NEW B
  PROVE  Get(Put(w, <<lo, width>>, B), <<lo, width>>) = Fit(<<lo, width>>, B)
  BY DEF Get, Put, At, Fit

LEMMA GetPutOther ==
  ASSUME NEW w, NEW lo \in Nat, NEW width \in Nat, NEW B,
         NEW glo \in Nat, NEW gwidth \in Nat,
         glo + gwidth <= lo \/ lo + width <= glo
  PROVE  Get(Put(w, <<lo, width>>, B), <<glo, gwidth>>) = Get(w, <<glo, gwidth>>)
  BY DEF Get, Put, At

LEMMA ValOfGet ==
  ASSUME NEW v, NEW w, NEW f, NEW g, Get(v, f) = Get(w, g)
  PROVE  Val(v, f) = Val(w, g)
  BY DEF Val

\* A number in a field wide enough for it is read back.
LEMMA BitsBelow ==
  /\ \A n \in 0 .. 63 : Bits(n) \subseteq 0 .. 5
  /\ \A n \in 0 .. 31 : Bits(n) \subseteq 0 .. 4
  /\ \A n \in 0 .. 3 : Bits(n) \subseteq 0 .. 1
  <1>1. \A n \in 0 .. 63 : Bits(n) \subseteq 0 .. 5  BY DEF Bits, Weight
  <1>2. \A n \in 0 .. 31 : Bits(n) \subseteq 0 .. 4  BY DEF Bits, Weight
  <1>3. \A n \in 0 .. 3 : Bits(n) \subseteq 0 .. 1  BY DEF Bits, Weight
  <1> QED  BY <1>1, <1>2, <1>3

LEMMA BitsFit ==
  ASSUME NEW lo
  PROVE  /\ \A n \in 0 .. 63 : Fit(<<lo, 6>>, Bits(n)) = Bits(n)
         /\ \A n \in 0 .. 31 : Fit(<<lo, 5>>, Bits(n)) = Bits(n)
         /\ \A n \in 0 .. 3 : Fit(<<lo, 2>>, Bits(n)) = Bits(n)
  BY BitsBelow DEF Fit

LEMMA WeightTable ==
  /\ Weight[1] = 1 /\ Weight[2] = 2 /\ Weight[3] = 4
  /\ Weight[4] = 8 /\ Weight[5] = 16 /\ Weight[6] = 32
  BY DEF Weight

LEMMA BitsTable ==
  ASSUME NEW n \in Int
  PROVE  /\ 0 \in Bits(n) <=> (n \div 1) % 2 = 1
         /\ 1 \in Bits(n) <=> (n \div 2) % 2 = 1
         /\ 2 \in Bits(n) <=> (n \div 4) % 2 = 1
         /\ 3 \in Bits(n) <=> (n \div 8) % 2 = 1
         /\ 4 \in Bits(n) <=> (n \div 16) % 2 = 1
         /\ 5 \in Bits(n) <=> (n \div 32) % 2 = 1
  <1>1. \A k \in 0 .. 5 : k \in Bits(n) <=> (n \div Weight[k + 1]) % 2 = 1
    BY DEF Bits
  <1> QED  BY <1>1, WeightTable

LEMMA ValTable ==
  ASSUME NEW w, NEW f
  PROVE  Val(w, f) =
           (IF 0 \in Get(w, f) THEN 1 ELSE 0) + (IF 1 \in Get(w, f) THEN 2 ELSE 0)
           + (IF 2 \in Get(w, f) THEN 4 ELSE 0) + (IF 3 \in Get(w, f) THEN 8 ELSE 0)
           + (IF 4 \in Get(w, f) THEN 16 ELSE 0) + (IF 5 \in Get(w, f) THEN 32 ELSE 0)
  BY DEF Val

LEMMA ValOfBits ==
  ASSUME NEW w, NEW f, NEW n \in 0 .. 63, Get(w, f) = Bits(n)
  PROVE  Val(w, f) = n
  BY BitsTable, ValTable

\* A byte cut to a field of five bits.
LEMMA ValOfCutBits ==
  ASSUME NEW w, NEW f, NEW lo, NEW n \in 0 .. 255,
         Get(w, f) = Fit(<<lo, 5>>, Bits(n))
  PROVE  Val(w, f) = n % 32
  <1>1. /\ 0 \in Get(w, f) <=> (n \div 1) % 2 = 1
        /\ 1 \in Get(w, f) <=> (n \div 2) % 2 = 1
        /\ 2 \in Get(w, f) <=> (n \div 4) % 2 = 1
        /\ 3 \in Get(w, f) <=> (n \div 8) % 2 = 1
        /\ 4 \in Get(w, f) <=> (n \div 16) % 2 = 1
        /\ 5 \notin Get(w, f)
    BY BitsTable DEF Fit
  <1> QED  BY <1>1, ValTable

-----------------------------------------------------------------------------
(* Enumerations *)

LEMMA EnumeratorOf ==
  ASSUME NEW enum, NEW e \in DOMAIN enum,
         \A d \in DOMAIN enum : enum[d] = enum[e] => d = e
  PROVE  Enumerator(enum, enum[e]) = e
  BY DEF Enumerator

LEMMA FuncEnum ==
  ASSUME NEW e \in DOMAIN Func
  PROVE  Func[e] \in 0 .. 63 /\ Enumerator(Func, Func[e]) = e
  <1>1. Func[e] \in 0 .. 63  BY SMTT(60) DEF Func
  <1>2. \A d \in DOMAIN Func : Func[d] = Func[e] => d = e  BY SMTT(60) DEF Func
  <1> QED  BY <1>1, <1>2, EnumeratorOf

LEMMA ITypeEnum ==
  ASSUME NEW e \in DOMAIN ITypeOpcode
  PROVE  /\ ITypeOpcode[e] \in 0 .. 63
         /\ ITypeOpcode[e] \in ITypeCodes \cup LongCodes
         /\ ITypeOpcode[e] \in LongCodes <=> e \in {"pop66", "pop76"}
         /\ Enumerator(ITypeOpcode, ITypeOpcode[e]) = e
  <1>1. ITypeOpcode[e] \in 0 .. 63  BY SMTT(60) DEF ITypeOpcode
  <1>2. ITypeOpcode[e] \in ITypeCodes \cup LongCodes
    BY SMTT(60) DEF ITypeOpcode, ITypeCodes, LongCodes
  <1>3. ITypeOpcode[e] \in LongCodes <=> e \in {"pop66", "pop76"}
    BY SMTT(60) DEF ITypeOpcode, LongCodes
  <1>4. \A d \in DOMAIN ITypeOpcode : ITypeOpcode[d] = ITypeOpcode[e] => d = e
    BY SMTT(60) DEF ITypeOpcode
  <1> QED  BY <1>1, <1>2, <1>3, <1>4, EnumeratorOf

LEMMA JTypeEnum ==
  ASSUME NEW e \in DOMAIN JTypeOpcode
  PROVE  /\ JTypeOpcode[e] \in 0 .. 63
         /\ JTypeOpcode[e] \in JTypeCodes
         /\ Enumerator(JTypeOpcode, JTypeOpcode[e]) = e
  <1>1. JTypeOpcode[e] \in JTypeCodes /\ JTypeOpcode[e] \in 0 .. 63
    BY DEF JTypeOpcode, JTypeCodes
  <1>2. \A d \in DOMAIN JTypeOpcode : JTypeOpcode[d] = JTypeOpcode[e] => d = e
    BY DEF JTypeOpcode
  <1> QED  BY <1>1, <1>2, EnumeratorOf

LEMMA RegimmEnum ==
  ASSUME NEW e \in DOMAIN RegimmITypeOp
  PROVE  /\ RegimmITypeOp[e] \in 0 .. 31
         /\ Enumerator(RegimmITypeOp, RegimmITypeOp[e]) = e
  <1>1. RegimmITypeOp[e] \in 0 .. 31  BY DEF RegimmITypeOp
  <1>2. \A d \in DOMAIN RegimmITypeOp : RegimmITypeOp[d] = RegimmITypeOp[e] => d = e
    BY DEF RegimmITypeOp
  <1> QED  BY <1>1, <1>2, EnumeratorOf

LEMMA PcrelEnums ==
  /\ \A e \in DOMAIN PCRelFunc1 : /\ PCRelFunc1[e] \in 0 .. 1
                                  /\ Enumerator(PCRelFunc1, PCRelFunc1[e]) = e
  /\ \A e \in DOMAIN PCRelFunc2 : /\ PCRelFunc2[e] \in 30 .. 31
                                  /\ Enumerator(PCRelFunc2, PCRelFunc2[e]) = e
  <1>1. \A e \in DOMAIN PCRelFunc1 : PCRelFunc1[e] \in 0 .. 1
    BY DEF PCRelFunc1
  <1>2. \A d, e \in DOMAIN PCRelFunc1 : PCRelFunc1[d] = PCRelFunc1[e] => d = e
    BY DEF PCRelFunc1
  <1>3. \A e \in DOMAIN PCRelFunc2 : PCRelFunc2[e] \in 30 .. 31
    BY DEF PCRelFunc2
  <1>4. \A d, e \in DOMAIN PCRelFunc2 : PCRelFunc2[d] = PCRelFunc2[e] => d = e
    BY DEF PCRelFunc2
  <1> QED  BY <1>1, <1>2, <1>3, <1>4, EnumeratorOf

-----------------------------------------------------------------------------
(* Types *)

LEMMA NestedTypes ==
  /\ \A n : Special3TypeOf(n) \in {"bshfl", "ext", "ins", "undecodable"}
  /\ \A w : PcrelTypeOf(w) \in {"pcrel1", "pcrel2"}
  /\ \A w : FpuTypeOf(w) \in {"fpu_rtype", "fpu_btype", "fpu_ttype"}
  <1>1. \A n : Special3TypeOf(n) \in {"bshfl", "ext", "ins", "undecodable"}
    BY DEF Special3TypeOf
  <1>2. \A w : PcrelTypeOf(w) \in {"pcrel1", "pcrel2"}  BY DEF PcrelTypeOf
  <1>3. \A w : FpuTypeOf(w) \in {"fpu_rtype", "fpu_btype", "fpu_ttype"}
    BY DEF FpuTypeOf
  <1> QED  BY <1>1, <1>2, <1>3

NestedCodes == {0, 1, 17, 31, 59}
LongType(w) == IF Get(w, IType.rs) # {} THEN "longimm" ELSE "itype"

\* The arms of get_type exclude each other, so that their order is no matter.
LEMMA TypeOfOpcode ==
  ASSUME NEW w, NEW op, op = Val(w, General.op)
  PROVE  /\ op = 0 => GetType(w) = "rtype"
         /\ op = 1 => GetType(w) = "regimm"
         /\ op = 17 => GetType(w) = FpuTypeOf(w)
         /\ op = 31 => GetType(w) = Special3TypeOf(Val(w, Special3Type.func))
         /\ op = 59 => GetType(w) = PcrelTypeOf(w)
         /\ op \in JTypeCodes => GetType(w) = "jtype"
         /\ op \in ITypeCodes => GetType(w) = "itype"
         /\ op \in LongCodes => GetType(w) = LongType(w)
         /\ op \notin NestedCodes \cup JTypeCodes \cup ITypeCodes \cup LongCodes
              => GetType(w) = "undecodable"
  <1>1. op \in JTypeCodes => op \notin NestedCodes \cup ITypeCodes \cup LongCodes
    BY DEF NestedCodes, JTypeCodes, ITypeCodes, LongCodes
  <1>2. op \in ITypeCodes => op \notin NestedCodes \cup LongCodes
    BY DEF NestedCodes, ITypeCodes, LongCodes
  <1>3. op \in LongCodes => op \notin NestedCodes
    BY DEF NestedCodes, LongCodes
  <1> QED
    BY <1>1, <1>2, <1>3
       DEF GetType, LongType, NestedCodes, RTYPE_OPCODE, REGIMM_OPCODE,
           SPECIAL3_OPCODE, PCREL_OPCODE, COP1_OPCODE

LEMMA OpcodeOfType ==
  ASSUME NEW w, NEW op, op = Val(w, General.op)
  PROVE  /\ GetType(w) = "rtype" => op = 0
         /\ GetType(w) = "jtype" => op \in JTypeCodes
         /\ GetType(w) = "regimm" => op = 1
         /\ GetType(w) = "longimm" => op \in LongCodes
         /\ GetType(w) = "itype" => op \in ITypeCodes \cup LongCodes
         /\ GetType(w) \in {"bshfl", "ext", "ins"} => op = 31
         /\ GetType(w) \in {"pcrel1", "pcrel2"} => op = 59
         /\ GetType(w) \in Type
  <1>1. CASE op \in NestedCodes
    BY <1>1, TypeOfOpcode, NestedTypes DEF Type, NestedCodes
  <1>2. CASE op \in JTypeCodes \cup ITypeCodes \cup LongCodes
    BY <1>2, TypeOfOpcode DEF Type, LongType
  <1>3. CASE op \notin NestedCodes \cup JTypeCodes \cup ITypeCodes \cup LongCodes
    BY <1>3, TypeOfOpcode DEF Type
  <1> QED  BY <1>1, <1>2, <1>3

-----------------------------------------------------------------------------
(* The defaults of the switches *)

LEMMA EnumeratorKnown ==
  ASSUME NEW enum, "other" \notin DOMAIN enum, NEW n,
         \E e \in DOMAIN enum : enum[e] = n
  PROVE  Enumerator(enum, n) # "other"
  BY DEF Enumerator

LEMMA SameOpcodeField ==
  /\ IType.op = General.op /\ JType.op = General.op
  BY DEF IType, JType, General

\* The two values the first PC-relative function can have.
LEMMA PcrelFunc1Value ==
  ASSUME NEW w, PcrelTypeOf(w) = "pcrel1"
  PROVE  Val(w, PCRelType1.func) \in 0 .. 1
  <1>1. 1 \notin Get(w, PCRelType1.func)  BY DEF PcrelTypeOf
  <1>2. Get(w, PCRelType1.func) \subseteq 0 .. 1  BY DEF Get, PCRelType1
  <1> QED  BY <1>1, <1>2, ValTable

LEMMA OpcodesKnown ==
  ASSUME NEW w, OpOf(w) = "other"
  PROVE  GetType(w) \in {"rtype", "bshfl", "regimm", "pcrel2"}
  <1> DEFINE op == Val(w, General.op)
  <1>1. GetType(w) \in Type  BY OpcodeOfType
  <1>2. ASSUME GetType(w) \in {"itype", "longimm"} PROVE FALSE
    <2>1. op \in ITypeCodes \cup LongCodes  BY <1>2, OpcodeOfType
    <2>2. \A n \in ITypeCodes \cup LongCodes :
            \E e \in DOMAIN ITypeOpcode : ITypeOpcode[e] = n
      BY SMTT(60) DEF ITypeOpcode, ITypeCodes, LongCodes
    <2>3. "other" \notin DOMAIN ITypeOpcode  BY DEF ITypeOpcode
    <2>4. Enumerator(ITypeOpcode, op) # "other"
      BY <2>1, <2>2, <2>3, EnumeratorKnown
    <2>5. OpOf(w) = Enumerator(ITypeOpcode, op)
      BY <1>2, SameOpcodeField DEF OpOf
    <2> QED  BY <2>4, <2>5
  <1>3. ASSUME GetType(w) = "jtype" PROVE FALSE
    <2>1. op \in JTypeCodes  BY <1>3, OpcodeOfType
    <2>2. \A n \in JTypeCodes : \E e \in DOMAIN JTypeOpcode : JTypeOpcode[e] = n
      BY DEF JTypeOpcode, JTypeCodes
    <2>3. "other" \notin DOMAIN JTypeOpcode  BY DEF JTypeOpcode
    <2>4. Enumerator(JTypeOpcode, op) # "other"
      BY <2>1, <2>2, <2>3, EnumeratorKnown
    <2>5. OpOf(w) = Enumerator(JTypeOpcode, op)
      BY <1>3, SameOpcodeField DEF OpOf
    <2> QED  BY <2>4, <2>5
  <1>4. ASSUME GetType(w) = "pcrel1" PROVE FALSE
    <2>1. op = 59  BY <1>4, OpcodeOfType
    <2>2. PcrelTypeOf(w) = "pcrel1"  BY <1>4, <2>1, TypeOfOpcode
    <2>3. Val(w, PCRelType1.func) \in 0 .. 1  BY <2>2, PcrelFunc1Value
    <2>4. \A n \in 0 .. 1 : \E e \in DOMAIN PCRelFunc1 : PCRelFunc1[e] = n
      BY DEF PCRelFunc1
    <2>5. "other" \notin DOMAIN PCRelFunc1  BY DEF PCRelFunc1
    <2>6. Enumerator(PCRelFunc1, Val(w, PCRelType1.func)) # "other"
      BY <2>3, <2>4, <2>5, EnumeratorKnown
    <2> QED  BY <1>4, <2>6 DEF OpOf
  <1>5. ASSUME GetType(w) \in {"fpu_rtype", "fpu_btype", "fpu_ttype", "ext",
                               "ins", "undecodable"}
        PROVE  FALSE
    BY <1>5 DEF OpOf
  <1> QED  BY <1>1, <1>2, <1>3, <1>4, <1>5 DEF Type

LEMMA EnumeratorIn ==
  ASSUME NEW enum, NEW n, Enumerator(enum, n) # "other"
  PROVE  Enumerator(enum, n) \in DOMAIN enum
  BY DEF Enumerator

\* A handler has a case for every enumerator of its enumeration.
LEMMA EnumeratorsHandled ==
  /\ DOMAIN Func \subseteq Handled["rtype"]
  /\ DOMAIN ITypeOpcode \subseteq Handled["itype"]
  /\ DOMAIN ITypeOpcode \subseteq Handled["longimm"]
  /\ DOMAIN JTypeOpcode \subseteq Handled["jtype"]
  /\ DOMAIN Special3BSHFLFunc \subseteq Handled["bshfl"]
  /\ DOMAIN RegimmITypeOp \subseteq Handled["regimm"]
  /\ DOMAIN PCRelFunc1 \subseteq Handled["pcrel1"]
  /\ DOMAIN PCRelFunc2 \subseteq Handled["pcrel2"]
  <1>1. DOMAIN Func \subseteq Handled["rtype"]
    BY SMTT(60) DEF Handled, Func
  <1>2. DOMAIN ITypeOpcode \subseteq IHandled  BY SMTT(60) DEF IHandled, ITypeOpcode
  <1>3. Handled["itype"] = IHandled /\ Handled["longimm"] = IHandled  BY DEF Handled
  <1>4. DOMAIN JTypeOpcode \subseteq Handled["jtype"]  BY DEF Handled, JTypeOpcode
  <1>5. DOMAIN Special3BSHFLFunc \subseteq Handled["bshfl"]
    BY DEF Handled, Special3BSHFLFunc
  <1>6. DOMAIN RegimmITypeOp \subseteq Handled["regimm"]
    BY DEF Handled, RegimmITypeOp
  <1>7. /\ DOMAIN PCRelFunc1 \subseteq Handled["pcrel1"]
        /\ DOMAIN PCRelFunc2 \subseteq Handled["pcrel2"]
    BY DEF Handled, PCRelFunc1, PCRelFunc2
  <1> QED  BY <1>1, <1>2, <1>3, <1>4, <1>5, <1>6, <1>7

\* On all 2^32 words: get_type lets no instruction through whose opcode the
\* I-type, J-type and first PC-relative handlers do not know, and every
\* enumerator a handler meets is one of its cases (instruction.hpp:521-606,
\* executor.hpp:42-225, 261-515, 567-580, 597-621, 638-705, 772-886).
THEOREM CodecOpcodesHandled == Spec => []OpcodesHandled
  <1>1. ASSUME NEW w, GetType(w) \in DOMAIN Handled, OpOf(w) # "other"
        PROVE  OpOf(w) \in Handled[GetType(w)]
    <2>1. GetType(w) \in {"rtype", "itype", "longimm", "jtype", "bshfl", "regimm",
                          "pcrel1", "pcrel2"}
      BY <1>1 DEF Handled
    <2>2. /\ GetType(w) = "rtype" => OpOf(w) \in DOMAIN Func
          /\ GetType(w) \in {"itype", "longimm"} => OpOf(w) \in DOMAIN ITypeOpcode
          /\ GetType(w) = "jtype" => OpOf(w) \in DOMAIN JTypeOpcode
          /\ GetType(w) = "bshfl" => OpOf(w) \in DOMAIN Special3BSHFLFunc
          /\ GetType(w) = "regimm" => OpOf(w) \in DOMAIN RegimmITypeOp
          /\ GetType(w) = "pcrel1" => OpOf(w) \in DOMAIN PCRelFunc1
          /\ GetType(w) = "pcrel2" => OpOf(w) \in DOMAIN PCRelFunc2
      BY <1>1, EnumeratorIn DEF OpOf
    <2> QED  BY <2>1, <2>2, EnumeratorsHandled
  <1>2. OpcodesHandled  BY <1>1, OpcodesKnown DEF OpcodesHandled
  <1> QED  BY <1>2, PTL

-----------------------------------------------------------------------------
(* Assignments to operands *)

\* The fields that decide the type and the operation of a word.
Deciding(type) ==
  CASE type = "rtype"   -> {General.op, RType.func}
    [] type = "itype"   -> {General.op}
    [] type = "longimm" -> {General.op}
    [] type = "jtype"   -> {General.op}
    [] type = "bshfl"   -> {General.op, Special3Type.func, Special3TypeBSHFL.func}
    [] type \in {"ext", "ins"} -> {General.op, Special3Type.func}
    [] type = "regimm"  -> {General.op, RegimmIType.op}
    [] type = "pcrel1"  -> {General.op, PCRelType1.func}
    [] type = "pcrel2"  -> {General.op, PCRelType1.func, PCRelType2.func}
    [] OTHER            -> {}

Apart(f, g) ==
  /\ f = <<f[1], f[2]>> /\ f[1] \in Nat /\ f[2] \in Nat
  /\ g = <<g[1], g[2]>> /\ g[1] \in Nat /\ g[2] \in Nat
  /\ f[1] + f[2] <= g[1] \/ g[1] + g[2] <= f[1]

LEMMA GetPutApart ==
  ASSUME NEW w, NEW f, NEW g, NEW B, Apart(f, g)
  PROVE  Get(Put(w, f, B), g) = Get(w, g)
  BY GetPutOther DEF Apart

\* No operand overlaps what decides how it is read.
LEMMA OperandsApart ==
  ASSUME NEW type \in Type, NEW r \in Reads[type], NEW g \in Deciding(type)
  PROVE  Apart(r[2], g)
  <1>1. CASE type = "rtype"
    BY <1>1 DEF Reads, Deciding, Apart, RType, General
  <1>2. CASE type = "itype"
    BY <1>2 DEF Reads, Deciding, Apart, RType, IType, General
  <1>3. CASE type = "longimm"
    BY <1>3 DEF Reads, Deciding, Apart, IType, LongimmIType, General
  <1>4. CASE type = "jtype"
    BY <1>4 DEF Reads, Deciding, Apart, JType, General
  <1>5. CASE type = "bshfl"
    BY <1>5 DEF Reads, Deciding, Apart, Special3Type, Special3TypeBSHFL, General
  <1>6. CASE type \in {"ext", "ins"}
    BY <1>6 DEF Reads, Deciding, Apart, Special3Type, Special3TypeEXT,
                Special3TypeINS, General
  <1>7. CASE type = "regimm"
    BY <1>7 DEF Reads, Deciding, Apart, RegimmIType, IType, General
  <1>8. CASE type = "pcrel1"
    BY <1>8 DEF Reads, Deciding, Apart, PCRelType1, General
  <1>9. CASE type = "pcrel2"
    BY <1>9 DEF Reads, Deciding, Apart, PCRelType1, PCRelType2, General
  <1>10. CASE type \in {"fpu_rtype", "fpu_btype", "fpu_ttype", "undecodable"}
    BY <1>10 DEF Reads
  <1> QED
    BY <1>1, <1>2, <1>3, <1>4, <1>5, <1>6, <1>7, <1>8, <1>9, <1>10 DEF Type

\* Another operand than the register field of the long immediates leaves it.
LEMMA LongPatch ==
  ASSUME NEW w, NEW r \in Reads[GetType(w)], r[1] # "rs",
         Val(w, General.op) \in LongCodes
  PROVE  Apart(r[2], IType.rs)
  <1>1. GetType(w) \in {"longimm", "itype"}  BY TypeOfOpcode DEF LongType
  <1>2. CASE GetType(w) = "longimm"
    BY <1>2 DEF Reads, Apart, IType, LongimmIType
  <1>3. CASE GetType(w) = "itype"
    BY <1>3 DEF Reads, Apart, RType, IType
  <1> QED  BY <1>1, <1>2, <1>3

LEMMA PatchKeeps ==
  ASSUME NEW w, NEW r \in Reads[GetType(w)], NEW B
  PROVE  LET v == Put(w, r[2], B)
         IN  /\ OpOf(v) = OpOf(w)
             /\ r[1] # "rs" \/ Val(w, General.op) \notin LongCodes =>
                  GetType(v) = GetType(w)
             /\ Val(w, General.op) \in LongCodes =>
                  Val(v, General.op) = Val(w, General.op)
  <1> DEFINE v  == Put(w, r[2], B)
             op == Val(w, General.op)
  <1>1. r \in Reads[GetType(w)] /\ GetType(w) \in Type
    BY OpcodeOfType
  <1>2. \A g \in Deciding(GetType(w)) : Get(v, g) = Get(w, g)
    BY <1>1, OperandsApart, GetPutApart
  <1>3. \A g \in Deciding(GetType(w)) : Val(v, g) = Val(w, g)
    BY <1>2, ValOfGet
  <1> HIDE DEF v, op
  <1>4. GetType(w) \notin {"fpu_rtype", "fpu_btype", "fpu_ttype", "undecodable"}
    BY <1>1 DEF Reads
  <1>5. General.op \in Deciding(GetType(w))  BY <1>1, <1>4 DEF Deciding, Type
  <1>6. Val(v, General.op) = op  BY <1>3, <1>5 DEF op
  <1>7. CASE GetType(w) = "rtype"
    <2>1. GetType(v) = "rtype"  BY <1>6, <1>7, OpcodeOfType, TypeOfOpcode DEF op
    <2>2. Val(v, RType.func) = Val(w, RType.func)  BY <1>3, <1>7 DEF Deciding
    <2> QED  BY <1>6, <1>7, <2>1, <2>2 DEF OpOf, v, op
  <1>8. CASE GetType(w) \in {"itype", "longimm"}
    <2>1. op \in ITypeCodes \cup LongCodes  BY <1>8, OpcodeOfType DEF op
    <2>2. op \in LongCodes /\ r[1] # "rs" => Get(v, IType.rs) = Get(w, IType.rs)
      BY LongPatch, GetPutApart DEF op, v
    <2>3. r[1] # "rs" \/ op \notin LongCodes => GetType(v) = GetType(w)
      BY <1>6, <2>1, <2>2, TypeOfOpcode DEF op, LongType
    <2>4. Val(v, IType.op) = Val(w, IType.op)  BY <1>6, SameOpcodeField DEF op
    <2>5. GetType(v) \in {"itype", "longimm"}
      BY <1>6, <2>1, TypeOfOpcode DEF op, LongType
    <2>6. OpOf(v) = OpOf(w)  BY <1>8, <2>4, <2>5 DEF OpOf
    <2> QED  BY <1>6, <2>3, <2>6 DEF v, op
  <1>9. CASE GetType(w) = "jtype"
    <2>1. GetType(v) = "jtype"  BY <1>6, <1>9, OpcodeOfType, TypeOfOpcode DEF op
    <2>2. Val(v, JType.op) = Val(w, JType.op)  BY <1>6, SameOpcodeField DEF op
    <2> QED  BY <1>6, <1>9, <2>1, <2>2 DEF OpOf, v, op
  <1>10. CASE GetType(w) \in {"bshfl", "ext", "ins"}
    <2>1. op = 31  BY <1>10, OpcodeOfType DEF op
    <2>2. Val(v, Special3Type.func) = Val(w, Special3Type.func)
      BY <1>3, <1>10 DEF Deciding
    <2>3. GetType(v) = GetType(w)  BY <1>6, <2>1, <2>2, TypeOfOpcode DEF op
    <2>4. GetType(w) = "bshfl" =>
            Val(v, Special3TypeBSHFL.func) = Val(w, Special3TypeBSHFL.func)
      BY <1>3 DEF Deciding
    <2> QED  BY <1>6, <1>10, <2>3, <2>4 DEF OpOf, v, op
  <1>11. CASE GetType(w) = "regimm"
    <2>1. GetType(v) = "regimm"  BY <1>6, <1>11, OpcodeOfType, TypeOfOpcode DEF op
    <2>2. Val(v, RegimmIType.op) = Val(w, RegimmIType.op)
      BY <1>3, <1>11 DEF Deciding
    <2> QED  BY <1>6, <1>11, <2>1, <2>2 DEF OpOf, v, op
  <1>12. CASE GetType(w) \in {"pcrel1", "pcrel2"}
    <2>1. op = 59  BY <1>12, OpcodeOfType DEF op
    <2>2. Get(v, PCRelType1.func) = Get(w, PCRelType1.func)
      BY <1>2, <1>12 DEF Deciding
    <2>3. GetType(v) = GetType(w)
      BY <1>6, <2>1, <2>2, TypeOfOpcode DEF op, PcrelTypeOf
    <2>4. Val(v, PCRelType1.func) = Val(w, PCRelType1.func)  BY <2>2, ValOfGet
    <2>5. GetType(w) = "pcrel2" => Val(v, PCRelType2.func) = Val(w, PCRelType2.func)
      BY <1>3 DEF Deciding
    <2> QED  BY <1>6, <1>12, <2>3, <2>4, <2>5 DEF OpOf, v, op
  <1> QED
    BY <1>1, <1>4, <1>7, <1>8, <1>9, <1>10, <1>11, <1>12 DEF Type, v, op

\* The opcodes with several instructions, by the type of their words.
PopOps == {"pop06", "pop07", "pop10", "pop30", "pop26", "pop27"}

LEMMA SelectedTypes ==
  ASSUME NEW w
  PROVE  /\ OpOf(w) \in PopOps => GetType(w) = "itype"
         /\ OpOf(w) \in {"pop66", "pop76"} =>
              GetType(w) \in {"itype", "longimm"} /\ Val(w, General.op) \in LongCodes
         /\ OpOf(w) \in {"sop30", "sop31", "sop32", "sop33", "srl", "srlv"} =>
              GetType(w) = "rtype"
  <1> DEFINE op == Val(w, General.op)
             several == PopOps \cup {"pop66", "pop76", "sop30", "sop31", "sop32",
                                     "sop33", "srl", "srlv"}
  <1>1. GetType(w) \in Type  BY OpcodeOfType
  <1>2. OpOf(w) \in several => GetType(w) \in {"rtype", "itype", "longimm"}
    <2> SUFFICES ASSUME OpOf(w) \in several,
                        GetType(w) \notin {"rtype", "itype", "longimm"}
                 PROVE  FALSE
      OBVIOUS
    <2>1. OpOf(w) \notin (DOMAIN JTypeOpcode) \cup (DOMAIN Special3BSHFLFunc)
                         \cup (DOMAIN RegimmITypeOp) \cup (DOMAIN PCRelFunc1)
                         \cup (DOMAIN PCRelFunc2) \cup Type \cup {"other"}
      BY DEF PopOps, JTypeOpcode, Special3BSHFLFunc, RegimmITypeOp, PCRelFunc1,
             PCRelFunc2, Type
    <2> QED  BY <1>1, <2>1, EnumeratorIn DEF OpOf, Type
  <1>3. GetType(w) = "rtype" =>
          OpOf(w) \notin PopOps \cup {"pop66", "pop76"}
    <2>1. (DOMAIN Func) \cap (PopOps \cup {"pop66", "pop76"}) = {}
      BY SMTT(60) DEF Func, PopOps
    <2>2. "other" \notin PopOps \cup {"pop66", "pop76"}  BY DEF PopOps
    <2> QED  BY <2>1, <2>2, EnumeratorIn DEF OpOf
  <1>4. GetType(w) \in {"itype", "longimm"} =>
          /\ OpOf(w) = Enumerator(ITypeOpcode, op)
          /\ OpOf(w) \in DOMAIN ITypeOpcode
          /\ ITypeOpcode[OpOf(w)] = op
    <2> SUFFICES ASSUME GetType(w) \in {"itype", "longimm"}
                 PROVE  /\ OpOf(w) = Enumerator(ITypeOpcode, op)
                        /\ OpOf(w) \in DOMAIN ITypeOpcode
                        /\ ITypeOpcode[OpOf(w)] = op
      OBVIOUS
    <2>1. OpOf(w) = Enumerator(ITypeOpcode, op)  BY SameOpcodeField DEF OpOf
    <2>2. OpOf(w) # "other"  BY OpcodesKnown
    <2>3. \E e \in DOMAIN ITypeOpcode : ITypeOpcode[e] = op
      BY <2>1, <2>2 DEF Enumerator
    <2>4. PICK e \in DOMAIN ITypeOpcode : ITypeOpcode[e] = op  BY <2>3
    <2>5. Enumerator(ITypeOpcode, op) = e  BY <2>4, ITypeEnum
    <2> QED  BY <2>1, <2>4, <2>5
  <1>5. GetType(w) = "longimm" => op \in LongCodes  BY OpcodeOfType
  <1>6. GetType(w) \in {"itype", "longimm"} =>
          (op \in LongCodes <=> OpOf(w) \in {"pop66", "pop76"})
    BY <1>4, ITypeEnum
  <1>7. (DOMAIN ITypeOpcode)
          \cap {"sop30", "sop31", "sop32", "sop33", "srl", "srlv"} = {}
    BY SMTT(60) DEF ITypeOpcode
  <1>8. "pop66" \notin PopOps /\ "pop76" \notin PopOps  BY DEF PopOps
  <1> QED  BY <1>2, <1>3, <1>4, <1>5, <1>6, <1>7, <1>8

LEMMA LongOps ==
  ASSUME NEW w, Val(w, General.op) \in LongCodes
  PROVE  /\ GetType(w) = LongType(w)
         /\ OpOf(w) = Enumerator(ITypeOpcode, Val(w, General.op))
         /\ OpOf(w) \in {"pop66", "pop76"}
  <1> DEFINE op == Val(w, General.op)
  <1>1. GetType(w) = LongType(w)  BY TypeOfOpcode
  <1>2. OpOf(w) = Enumerator(ITypeOpcode, op)
    BY <1>1, SameOpcodeField DEF OpOf, LongType
  <1>3. op = 54 \/ op = 62  BY DEF LongCodes
  <1>4. /\ "pop66" \in DOMAIN ITypeOpcode /\ ITypeOpcode["pop66"] = 54
        /\ "pop76" \in DOMAIN ITypeOpcode /\ ITypeOpcode["pop76"] = 62
    BY DEF ITypeOpcode
  <1>5. Enumerator(ITypeOpcode, 54) = "pop66" /\ Enumerator(ITypeOpcode, 62) = "pop76"
    BY <1>4, ITypeEnum
  <1> QED  BY <1>1, <1>2, <1>3, <1>5

\* An operand that is not a selector leaves the fields that are.
LEMMA SelectorsKept ==
  ASSUME NEW w, NEW r \in Reads[GetType(w)], NEW B, r[1] \notin Selectors(OpOf(w)),
         NEW v, v = Put(w, r[2], B)
  PROVE  /\ OpOf(w) \in PopOps => /\ Get(v, IType.rs) = Get(w, IType.rs)
                                  /\ Get(v, IType.rt) = Get(w, IType.rt)
         /\ OpOf(w) \in {"pop66", "pop76", "srl"} =>
              Get(v, IType.rs) = Get(w, IType.rs)
         /\ OpOf(w) \in {"sop30", "sop31", "sop32", "sop33", "srlv"} =>
              Get(v, RType.shamt) = Get(w, RType.shamt)
  <1>1. CASE OpOf(w) \in PopOps
    <2>1. GetType(w) = "itype" /\ r[1] \notin {"rs", "rt"}
      BY <1>1, SelectedTypes DEF Selectors, PopOps
    <2>2. Apart(r[2], IType.rs) /\ Apart(r[2], IType.rt)
      BY <2>1 DEF Reads, Apart, IType, RType
    <2>3. /\ Get(v, IType.rs) = Get(w, IType.rs)
          /\ Get(v, IType.rt) = Get(w, IType.rt)
      BY <2>2, GetPutApart
    <2> QED  BY <1>1, <2>3 DEF PopOps
  <1>2. CASE OpOf(w) \in {"pop66", "pop76"}
    <2>1. r[1] # "rs" /\ Val(w, General.op) \in LongCodes
      BY <1>2, SelectedTypes DEF Selectors
    <2>2. Apart(r[2], IType.rs)  BY <2>1, LongPatch
    <2>3. Get(v, IType.rs) = Get(w, IType.rs)  BY <2>2, GetPutApart
    <2> QED  BY <1>2, <2>3 DEF PopOps
  <1>3. CASE OpOf(w) = "srl"
    <2>1. GetType(w) = "rtype" /\ r[1] # "rs"
      BY <1>3, SelectedTypes DEF Selectors
    <2>2. Apart(r[2], IType.rs)  BY <2>1 DEF Reads, Apart, IType, RType
    <2>3. Get(v, IType.rs) = Get(w, IType.rs)  BY <2>2, GetPutApart
    <2> QED  BY <1>3, <2>3 DEF PopOps
  <1>4. CASE OpOf(w) \in {"sop30", "sop31", "sop32", "sop33", "srlv"}
    <2>1. GetType(w) = "rtype" /\ r[1] # "sa"
      BY <1>4, SelectedTypes DEF Selectors
    <2>2. Apart(r[2], RType.shamt)  BY <2>1 DEF Reads, Apart, RType
    <2>3. Get(v, RType.shamt) = Get(w, RType.shamt)  BY <2>2, GetPutApart
    <2> QED  BY <1>4, <2>3 DEF PopOps
  <1> QED  BY <1>1, <1>2, <1>3, <1>4

\* Whatever an operand is overwritten with, the opcode remains; and so do the
\* type and the instruction, unless the operand selects among the instructions
\* of that opcode (instruction.hpp:585-628, executor.hpp:27-32, 158-178,
\* 315-513).
THEOREM CodecPatchKeepsInstruction == Spec => PatchKeepsInstruction
  <1> DEFINE Kept == Patch =>
               \A r \in Reads[GetType(word)], B \in Immediates :
                 word' = Put(word, r[2], B) =>
                   /\ OpOf(word') = OpOf(word)
                   /\ r[1] \notin Selectors(OpOf(word)) =>
                        /\ GetType(word') = GetType(word)
                        /\ Mnemonic(word') = Mnemonic(word)
  <1>1. Kept
    <2> SUFFICES ASSUME NEW r \in Reads[GetType(word)], NEW B,
                        NEW v, v = Put(word, r[2], B)
                 PROVE  /\ OpOf(v) = OpOf(word)
                        /\ r[1] \notin Selectors(OpOf(word)) =>
                             /\ GetType(v) = GetType(word)
                             /\ Mnemonic(v) = Mnemonic(word)
      OBVIOUS
    <2>1. OpOf(v) = OpOf(word)  BY PatchKeeps
    <2> SUFFICES ASSUME r[1] \notin Selectors(OpOf(word))
                 PROVE  GetType(v) = GetType(word) /\ Mnemonic(v) = Mnemonic(word)
      BY <2>1
    <2>2. GetType(v) = GetType(word)
      <3>1. CASE Val(word, General.op) \notin LongCodes  BY <3>1, PatchKeeps
      <3>2. CASE Val(word, General.op) \in LongCodes
        <4>1. OpOf(word) \in {"pop66", "pop76"}  BY <3>2, LongOps
        <4>2. r[1] # "rs"  BY <4>1 DEF Selectors
        <4> QED  BY <4>2, PatchKeeps
      <3> QED  BY <3>1, <3>2
    <2>3. Mnemonic(v) = Mnemonic(word)
      <3> DEFINE op == OpOf(word)
      <3>1. /\ op \in PopOps => /\ Get(v, IType.rs) = Get(word, IType.rs)
                                /\ Get(v, IType.rt) = Get(word, IType.rt)
            /\ op \in {"pop66", "pop76", "srl"} =>
                 Get(v, IType.rs) = Get(word, IType.rs)
            /\ op \in {"sop30", "sop31", "sop32", "sop33", "srlv"} =>
                 Get(v, RType.shamt) = Get(word, RType.shamt)
        BY SelectorsKept
      <3> QED  BY <2>1, <3>1 DEF Mnemonic, PopOps
    <2> QED  BY <2>2, <2>3
  <1> QED  BY <1>1, PTL DEF PatchKeepsInstruction

-----------------------------------------------------------------------------
(* What a constructor was asked for is found in the word *)

Matches(w, i) ==
  i.type # "none" =>
    /\ GetType(w) = i.type
    /\ OpOf(w) = i.op
    /\ \A r \in Reads[i.type] : /\ r[1] \in DOMAIN i.args
                                /\ Get(w, r[2]) = i.args[r[1]]

\* A record of type, op, args and patched.
Shape(i) ==
  \E t \in Type \cup {"none"}, p \in BOOLEAN : \E o, a :
    i = [type |-> t, op |-> o, args |-> a, patched |-> p]

Inv == word \subseteq Position /\ Shape(intent) /\ Matches(word, intent)

LEMMA IntentShape ==
  ASSUME NEW t \in Type \cup {"none"}, NEW o, NEW a
  PROVE  Shape(Intent(t, o, a))
  BY DEF Shape, Intent

LEMMA IntentFields ==
  ASSUME NEW t, NEW o, NEW a
  PROVE  /\ Intent(t, o, a).type = t /\ Intent(t, o, a).op = o
         /\ Intent(t, o, a).args = a
  BY DEF Intent

LEMMA MatchesIntent ==
  ASSUME NEW w, NEW t, NEW o, NEW a, GetType(w) = t, OpOf(w) = o,
         \A r \in Reads[t] : r[1] \in DOMAIN a /\ Get(w, r[2]) = a[r[1]]
  PROVE  Matches(w, Intent(t, o, a))
  BY IntentFields DEF Matches

LEMMA AtPosition ==
  ASSUME NEW lo \in Nat, NEW width \in Nat, lo + width <= 32, NEW B
  PROVE  At(<<lo, width>>, B) \subseteq Position
  BY DEF At, Position

LEMMA ArgumentRanges ==
  /\ Registers \subseteq 0 .. 31 /\ Bytes \subseteq 0 .. 255
  /\ \A n \in 0 .. 31 : n \in 0 .. 63
  BY CodecAssumption

LEMMA RTypeMade == ASSUME MakeRType PROVE Inv'
  <1>1. PICK func \in DOMAIN Func, rd \in Registers, rs \in Registers,
             rt \in Registers, shift_amount \in Bytes :
          /\ word' = At(RType.zero, Bits(RTYPE_OPCODE))
                     \cup At(RType.func, Bits(Func[func]))
                     \cup At(RType.rd, Bits(rd)) \cup At(RType.rs, Bits(rs))
                     \cup At(RType.rt, Bits(rt))
                     \cup At(RType.shamt, Bits(shift_amount))
          /\ intent' = Intent("rtype", func,
                              [rs |-> Bits(rs), rt |-> Bits(rt), rd |-> Bits(rd),
                               sa |-> Fit(RType.shamt, Bits(shift_amount))])
    BY DEF MakeRType
  <1>2. /\ Get(word', RType.zero) = Fit(RType.zero, Bits(RTYPE_OPCODE))
        /\ Get(word', RType.func) = Fit(RType.func, Bits(Func[func]))
        /\ Get(word', RType.rd) = Fit(RType.rd, Bits(rd))
        /\ Get(word', RType.rs) = Fit(RType.rs, Bits(rs))
        /\ Get(word', RType.rt) = Fit(RType.rt, Bits(rt))
        /\ Get(word', RType.shamt) = Fit(RType.shamt, Bits(shift_amount))
    BY <1>1, AtMember DEF RType, Get, Fit
  <1>3. /\ Get(word', General.op) = Bits(0)
        /\ Get(word', RType.func) = Bits(Func[func])
        /\ Get(word', RType.rd) = Bits(rd)
        /\ Get(word', RType.rs) = Bits(rs)
        /\ Get(word', RType.rt) = Bits(rt)
    <2>1. rd \in 0 .. 31 /\ rs \in 0 .. 31 /\ rt \in 0 .. 31
      BY ArgumentRanges
    <2>2. Func[func] \in 0 .. 63  BY FuncEnum
    <2>3. Fit(RType.zero, Bits(0)) = Bits(0)
      <3>1. \A n \in 0 .. 63 : Fit(RType.zero, Bits(n)) = Bits(n)
        BY BitsFit DEF RType
      <3>2. 0 \in 0 .. 63  OBVIOUS
      <3> QED  BY <3>1, <3>2
    <2>4. Fit(RType.func, Bits(Func[func])) = Bits(Func[func])
      BY <2>2, BitsFit DEF RType
    <2>5. /\ Fit(RType.rd, Bits(rd)) = Bits(rd)
          /\ Fit(RType.rs, Bits(rs)) = Bits(rs)
          /\ Fit(RType.rt, Bits(rt)) = Bits(rt)
      BY <2>1, BitsFit DEF RType
    <2>6. General.op = RType.zero  BY DEF General, RType
    <2> QED  BY <1>2, <2>3, <2>4, <2>5, <2>6 DEF RTYPE_OPCODE
  <1>4. Val(word', General.op) = 0 /\ Val(word', RType.func) = Func[func]
    BY <1>3, FuncEnum, ValOfBits
  <1>5. GetType(word') = "rtype"  BY <1>4, TypeOfOpcode
  <1>6. OpOf(word') = func  BY <1>4, <1>5, FuncEnum DEF OpOf
  <1>7. word' \subseteq Position  BY <1>1, AtPosition DEF RType
  <1>8. Shape(intent')  BY <1>1, IntentShape DEF Type
  <1> DEFINE args == [rs |-> Bits(rs), rt |-> Bits(rt), rd |-> Bits(rd),
                      sa |-> Fit(RType.shamt, Bits(shift_amount))]
  <1>9. \A r \in Reads["rtype"] : r[1] \in DOMAIN args /\ Get(word', r[2]) = args[r[1]]
    BY <1>2, <1>3 DEF Reads
  <1>10. Matches(word', intent')  BY <1>1, <1>5, <1>6, <1>9, MatchesIntent
  <1> QED  BY <1>7, <1>8, <1>10 DEF Inv

\* The top of a long immediate lies where an I-type has its rt.
LEMMA LongImmediate ==
  ASSUME NEW v
  PROVE  /\ Get(v, LongimmIType.imm) =
              Get(v, IType.imm) \cup {16 + k : k \in Get(v, IType.rt)}
         /\ Get(v, IType.imm) = Get(v, LongimmIType.imm) \cap (0 .. 15)
         /\ Get(v, IType.rt) = {k \in 0 .. 4 : 16 + k \in Get(v, LongimmIType.imm)}
         /\ Get(v, LongimmIType.rs) = Get(v, IType.rs)
  BY DEF Get, IType, LongimmIType

\* A word with the opcode of an I-type is what ITypeIntent makes of its fields.
LEMMA ITypeWord ==
  ASSUME NEW v, Val(v, General.op) \in ITypeCodes \cup LongCodes
  PROVE  Matches(v, ITypeIntent(OpOf(v), Get(v, IType.rt), Get(v, IType.rs),
                                Get(v, IType.imm)))
  <1> DEFINE op == OpOf(v)  rs == Get(v, IType.rs)  rt == Get(v, IType.rt)
             imm == Get(v, IType.imm)
             intended == ITypeIntent(op, rt, rs, imm)
  <1>1. Val(v, General.op) \in LongCodes <=> op \in {"pop66", "pop76"}
    <2>1. Val(v, General.op) \in LongCodes => op \in {"pop66", "pop76"}
      BY LongOps
    <2>2. op \in {"pop66", "pop76"} => Val(v, General.op) \in LongCodes
      BY SelectedTypes
    <2> QED  BY <2>1, <2>2
  <1>2. CASE op \in {"pop66", "pop76"} /\ rs # {}
    <2>1. GetType(v) = "longimm"  BY <1>1, <1>2, LongOps DEF LongType
    <2> DEFINE args == [rs |-> rs, imm |-> imm \cup {16 + k : k \in rt}]
    <2>2. intended = Intent("longimm", op, args)  BY <1>2 DEF ITypeIntent
    <2>3. /\ args.rs = rs /\ args.imm = Get(v, LongimmIType.imm)
          /\ "rs" \in DOMAIN args /\ "imm" \in DOMAIN args
      BY LongImmediate
    <2> HIDE DEF args
    <2>4. Reads["longimm"] = {<<"rs", IType.rs>>, <<"rs", LongimmIType.rs>>,
                              <<"imm", LongimmIType.imm>>}
      BY DEF Reads
    <2>5. \A r \in Reads["longimm"] : r[1] \in DOMAIN args /\ Get(v, r[2]) = args[r[1]]
      BY <2>3, <2>4, LongImmediate
    <2> QED  BY <2>1, <2>2, <2>5, MatchesIntent
  <1>3. CASE ~(op \in {"pop66", "pop76"} /\ rs # {})
    <2>1. GetType(v) = "itype"
      <3>1. CASE Val(v, General.op) \in LongCodes
        BY <1>1, <1>3, <3>1, LongOps DEF LongType
      <3>2. CASE Val(v, General.op) \in ITypeCodes  BY <3>2, TypeOfOpcode
      <3> QED  BY <3>1, <3>2
    <2> DEFINE args == [rs |-> rs, rt |-> rt, imm |-> imm]
    <2>2. intended = Intent("itype", op, args)  BY <1>3 DEF ITypeIntent
    <2>3. \A r \in Reads["itype"] : r[1] \in DOMAIN args /\ Get(v, r[2]) = args[r[1]]
      BY DEF Reads, IType, RType
    <2> QED  BY <2>1, <2>2, <2>3, MatchesIntent
  <1> QED  BY <1>2, <1>3

LEMMA ITypeIntentShape ==
  ASSUME NEW op, NEW rt, NEW rs, NEW imm
  PROVE  Shape(ITypeIntent(op, rt, rs, imm))
  <1>1. "longimm" \in Type \cup {"none"} /\ "itype" \in Type \cup {"none"}
    BY DEF Type
  <1> QED  BY <1>1, IntentShape DEF ITypeIntent

LEMMA ITypeMade == ASSUME MakeIType PROVE Inv'
  <1>1. PICK op \in DOMAIN ITypeOpcode, rt \in Registers \cup {0},
             rs \in Registers, immediate \in Immediates :
          /\ word' = At(IType.op, Bits(ITypeOpcode[op])) \cup At(IType.rt, Bits(rt))
                     \cup At(IType.rs, Bits(rs)) \cup At(IType.imm, immediate)
          /\ intent' = ITypeIntent(op, Bits(rt), Bits(rs), Fit(IType.imm, immediate))
    BY DEF MakeIType
  <1>2. /\ Get(word', IType.op) = Fit(IType.op, Bits(ITypeOpcode[op]))
        /\ Get(word', IType.rt) = Fit(IType.rt, Bits(rt))
        /\ Get(word', IType.rs) = Fit(IType.rs, Bits(rs))
        /\ Get(word', IType.imm) = Fit(IType.imm, immediate)
    BY <1>1, AtMember DEF IType, Get, Fit
  <1>3. rt \in 0 .. 31 /\ rs \in 0 .. 31  BY ArgumentRanges
  <1>4. /\ Get(word', IType.op) = Bits(ITypeOpcode[op])
        /\ Get(word', IType.rt) = Bits(rt)
        /\ Get(word', IType.rs) = Bits(rs)
    BY <1>2, <1>3, BitsFit, ITypeEnum DEF IType
  <1>5. Val(word', IType.op) = ITypeOpcode[op]
    BY <1>4, ITypeEnum, ValOfBits
  <1>6. /\ Val(word', General.op) = ITypeOpcode[op]
        /\ Val(word', General.op) \in ITypeCodes \cup LongCodes
    BY <1>5, SameOpcodeField, ITypeEnum
  <1>7. GetType(word') \in {"itype", "longimm"}
    BY <1>6, TypeOfOpcode DEF LongType
  <1>8. OpOf(word') = op  BY <1>5, <1>7, ITypeEnum DEF OpOf
  <1>9. Matches(word', intent')  BY <1>1, <1>2, <1>4, <1>6, <1>8, ITypeWord
  <1>10. Shape(intent')  BY <1>1, ITypeIntentShape
  <1>11. word' \subseteq Position  BY <1>1, AtPosition DEF IType
  <1> QED  BY <1>9, <1>10, <1>11 DEF Inv

LEMMA JTypeMade == ASSUME MakeJType PROVE Inv'
  <1>1. PICK op \in DOMAIN JTypeOpcode, address \in Immediates :
          /\ word' = At(JType.op, Bits(JTypeOpcode[op])) \cup At(JType.address, address)
          /\ intent' = Intent("jtype", op, [imm |-> Fit(JType.address, address)])
    BY DEF MakeJType
  <1>2. /\ Get(word', JType.op) = Fit(JType.op, Bits(JTypeOpcode[op]))
        /\ Get(word', JType.address) = Fit(JType.address, address)
    BY <1>1, AtMember DEF JType, Get, Fit
  <1>3. Get(word', JType.op) = Bits(JTypeOpcode[op])
    BY <1>2, BitsFit, JTypeEnum DEF JType
  <1>4. Val(word', JType.op) = JTypeOpcode[op]  BY <1>3, JTypeEnum, ValOfBits
  <1>5. GetType(word') = "jtype"
    BY <1>4, JTypeEnum, SameOpcodeField, TypeOfOpcode
  <1>6. OpOf(word') = op  BY <1>4, <1>5, JTypeEnum DEF OpOf
  <1>7. word' \subseteq Position  BY <1>1, AtPosition DEF JType
  <1>8. Shape(intent')  BY <1>1, IntentShape DEF Type
  <1> DEFINE args == [imm |-> Fit(JType.address, address)]
  <1>9. \A r \in Reads["jtype"] : r[1] \in DOMAIN args /\ Get(word', r[2]) = args[r[1]]
    BY <1>2 DEF Reads
  <1>10. Matches(word', intent')  BY <1>1, <1>5, <1>6, <1>9, MatchesIntent
  <1> QED  BY <1>7, <1>8, <1>10 DEF Inv

LEMMA FpuEnums ==
  /\ \A e \in DOMAIN FPURTypeOp : FPURTypeOp[e] \in 16 .. 31
  /\ \A e \in DOMAIN FPUBTypeOp : FPUBTypeOp[e] \in 8 .. 15
  /\ \A e \in DOMAIN FPUTTypeOp : FPUTTypeOp[e] \in 0 .. 7
  <1>1. \A e \in DOMAIN FPURTypeOp : FPURTypeOp[e] \in 16 .. 31  BY DEF FPURTypeOp
  <1>2. \A e \in DOMAIN FPUBTypeOp : FPUBTypeOp[e] \in 8 .. 15  BY DEF FPUBTypeOp
  <1>3. \A e \in DOMAIN FPUTTypeOp : FPUTTypeOp[e] \in 0 .. 7  BY DEF FPUTTypeOp
  <1> QED  BY <1>1, <1>2, <1>3

\* A word with the COP1 opcode and the number fmt above its ft field.
LEMMA FpuWord ==
  ASSUME NEW w, NEW fmt \in 0 .. 31,
         Get(w, General.op) = Fit(General.op, Bits(COP1_OPCODE)),
         Get(w, FPURType.fmt) = Fit(FPURType.fmt, Bits(fmt))
  PROVE  /\ fmt >= 16 => GetType(w) = "fpu_rtype"
         /\ fmt \in 8 .. 15 => GetType(w) = "fpu_btype"
         /\ fmt < 8 => GetType(w) = "fpu_ttype"
  <1>1. Get(w, General.op) = Bits(17)
    <2>1. \A n \in 0 .. 63 : Fit(General.op, Bits(n)) = Bits(n)
      BY BitsFit DEF General
    <2>2. 17 \in 0 .. 63  OBVIOUS
    <2> QED  BY <2>1, <2>2 DEF COP1_OPCODE
  <1>2. Val(w, General.op) = 17
    <2>1. 17 \in 0 .. 63  OBVIOUS
    <2> QED  BY <1>1, <2>1, ValOfBits
  <1>3. Get(w, FPURType.fmt) = Bits(fmt)  BY BitsFit DEF FPURType
  <1>4. /\ fmt >= 16 <=> 4 \in Bits(fmt)
        /\ fmt \in 8 .. 15 => 4 \notin Bits(fmt) /\ 3 \in Bits(fmt)
        /\ fmt < 8 => 4 \notin Bits(fmt) /\ 3 \notin Bits(fmt)
    BY BitsTable
  <1>5. GetType(w) = FpuTypeOf(w)  BY <1>2, TypeOfOpcode
  <1> QED  BY <1>3, <1>4, <1>5 DEF FpuTypeOf

LEMMA FpuMatches ==
  ASSUME NEW w, NEW t \in {"fpu_rtype", "fpu_btype", "fpu_ttype"}, GetType(w) = t
  PROVE  Matches(w, Intent(t, t, <<>>))
  <1>1. OpOf(w) = t  BY DEF OpOf
  <1>2. Reads[t] = {}  BY DEF Reads
  <1> QED  BY <1>1, <1>2, MatchesIntent

LEMMA FpuRTypeMade == ASSUME MakeFpuRType PROVE Inv'
  <1>1. PICK op \in DOMAIN FPURTypeOp, ft \in Bytes, fs \in Bytes, fd \in Bytes,
             func \in FPUFunc :
          /\ word' = At(FPURType.cop1, Bits(COP1_OPCODE))
                     \cup At(FPURType.fmt, Bits(FPURTypeOp[op]))
                     \cup At(FPURType.ft, Bits(ft)) \cup At(FPURType.fs, Bits(fs))
                     \cup At(FPURType.fd, Bits(fd)) \cup At(FPURType.func, Bits(func))
          /\ intent' = Intent("fpu_rtype", "fpu_rtype", <<>>)
    BY DEF MakeFpuRType
  <1>2. /\ Get(word', General.op) = Fit(General.op, Bits(COP1_OPCODE))
        /\ Get(word', FPURType.fmt) = Fit(FPURType.fmt, Bits(FPURTypeOp[op]))
    BY <1>1, AtMember DEF FPURType, General, Get, Fit
  <1>3. FPURTypeOp[op] \in 0 .. 31 /\ FPURTypeOp[op] >= 16  BY FpuEnums
  <1>4. GetType(word') = "fpu_rtype"  BY <1>2, <1>3, FpuWord
  <1>5. word' \subseteq Position  BY <1>1, AtPosition DEF FPURType
  <1>6. Shape(intent')  BY <1>1, IntentShape DEF Type
  <1>7. Matches(word', intent')  BY <1>1, <1>4, FpuMatches
  <1> QED  BY <1>5, <1>6, <1>7 DEF Inv

LEMMA FpuBTypeMade == ASSUME MakeFpuBType PROVE Inv'
  <1>1. PICK op \in DOMAIN FPUBTypeOp, ft \in Bytes, offset \in Immediates :
          /\ word' = At(FPUBType.cop1, Bits(COP1_OPCODE))
                     \cup At(FPUBType.bc, Bits(FPUBTypeOp[op]))
                     \cup At(FPUBType.ft, Bits(ft)) \cup At(FPUBType.offset, offset)
          /\ intent' = Intent("fpu_btype", "fpu_btype", <<>>)
    BY DEF MakeFpuBType
  <1>2. /\ Get(word', General.op) = Fit(General.op, Bits(COP1_OPCODE))
        /\ Get(word', FPURType.fmt) = Fit(FPURType.fmt, Bits(FPUBTypeOp[op]))
    BY <1>1, AtMember DEF FPURType, FPUBType, General, Get, Fit
  <1>3. FPUBTypeOp[op] \in 0 .. 31 /\ FPUBTypeOp[op] \in 8 .. 15  BY FpuEnums
  <1>4. GetType(word') = "fpu_btype"  BY <1>2, <1>3, FpuWord
  <1>5. word' \subseteq Position  BY <1>1, AtPosition DEF FPUBType
  <1>6. Shape(intent')  BY <1>1, IntentShape DEF Type
  <1>7. Matches(word', intent')  BY <1>1, <1>4, FpuMatches
  <1> QED  BY <1>5, <1>6, <1>7 DEF Inv

LEMMA FpuTTypeMade == ASSUME MakeFpuTType PROVE Inv'
  <1>1. PICK op \in DOMAIN FPUTTypeOp, rt \in Registers, fs \in Bytes :
          /\ word' = At(FPUTType.cop1, Bits(COP1_OPCODE))
                     \cup At(FPUTType.op, Bits(FPUTTypeOp[op]))
                     \cup At(FPUTType.rt, Bits(rt)) \cup At(FPUTType.fs, Bits(fs))
          /\ intent' = Intent("fpu_ttype", "fpu_ttype", <<>>)
    BY DEF MakeFpuTType
  <1>2. /\ Get(word', General.op) = Fit(General.op, Bits(COP1_OPCODE))
        /\ Get(word', FPURType.fmt) = Fit(FPURType.fmt, Bits(FPUTTypeOp[op]))
    BY <1>1, AtMember DEF FPURType, FPUTType, General, Get, Fit
  <1>3. FPUTTypeOp[op] \in 0 .. 31 /\ FPUTTypeOp[op] < 8  BY FpuEnums
  <1>4. GetType(word') = "fpu_ttype"  BY <1>2, <1>3, FpuWord
  <1>5. word' \subseteq Position  BY <1>1, AtPosition DEF FPUTType
  <1>6. Shape(intent')  BY <1>1, IntentShape DEF Type
  <1>7. Matches(word', intent')  BY <1>1, <1>4, FpuMatches
  <1> QED  BY <1>5, <1>6, <1>7 DEF Inv

\* A field of six bits that holds a number.
LEMMA SixBits ==
  ASSUME NEW w, NEW lo, NEW n \in 0 .. 63,
         Get(w, <<lo, 6>>) = Fit(<<lo, 6>>, Bits(n))
  PROVE  Val(w, <<lo, 6>>) = n
  BY BitsFit, ValOfBits

LEMMA Special3Numbers ==
  /\ Special3TypeOf(32) = "bshfl" /\ Special3TypeOf(0) = "ext"
  /\ Special3TypeOf(4) = "ins"
  /\ 0 \in 0 .. 63 /\ 4 \in 0 .. 63 /\ 32 \in 0 .. 63 /\ 31 \in 0 .. 63
  BY DEF Special3TypeOf

LEMMA Special3Views ==
  /\ Special3TypeBSHFL.func = Special3Type.extra
  /\ Special3TypeBSHFL.rs = Special3Type.rs /\ Special3TypeBSHFL.rt = Special3Type.rt
  /\ Special3TypeBSHFL.rd = Special3Type.rd
  /\ Special3TypeEXT.msbd = Special3Type.rd /\ Special3TypeEXT.lsb = Special3Type.extra
  /\ Special3TypeINS.msb = Special3Type.rd /\ Special3TypeINS.lsb = Special3Type.extra
  /\ General.op = <<26, 6>> /\ Special3Type.special3 = <<26, 6>>
  /\ Special3Type.func = <<0, 6>>
  /\ \E lo : Special3Type.extra = <<lo, 5>>
  BY DEF Special3Type, Special3TypeBSHFL, Special3TypeEXT, Special3TypeINS, General

LEMMA Special3Made == ASSUME MakeSpecial3 PROVE Inv'
  <1>1. PICK func \in DOMAIN Special3Func, rd \in Bytes, rs \in Registers \cup {0},
             rt \in Registers,
             extra \in Bytes \cup {Special3BSHFLFunc[o] : o \in DOMAIN Special3BSHFLFunc} :
          /\ word' = At(Special3Type.func, Bits(Special3Func[func]))
                     \cup At(Special3Type.extra, Bits(extra))
                     \cup At(Special3Type.rd, Bits(rd)) \cup At(Special3Type.rt, Bits(rt))
                     \cup At(Special3Type.rs, Bits(rs))
                     \cup At(Special3Type.special3, Bits(SPECIAL3_OPCODE))
          /\ intent' = Intent(func,
                              IF func = "bshfl"
                              THEN Enumerator(Special3BSHFLFunc, extra % 32) ELSE func,
                              [rs |-> Bits(rs), rt |-> Bits(rt),
                               rd |-> Fit(Special3Type.rd, Bits(rd)),
                               sa |-> Fit(Special3Type.extra, Bits(extra))])
    BY DEF MakeSpecial3
  <1> DEFINE op   == IF func = "bshfl"
                     THEN Enumerator(Special3BSHFLFunc, extra % 32) ELSE func
             args == [rs |-> Bits(rs), rt |-> Bits(rt),
                      rd |-> Fit(Special3Type.rd, Bits(rd)),
                      sa |-> Fit(Special3Type.extra, Bits(extra))]
  <1>2. /\ Get(word', Special3Type.func) = Fit(Special3Type.func, Bits(Special3Func[func]))
        /\ Get(word', Special3Type.extra) = Fit(Special3Type.extra, Bits(extra))
        /\ Get(word', Special3Type.rd) = Fit(Special3Type.rd, Bits(rd))
        /\ Get(word', Special3Type.rt) = Fit(Special3Type.rt, Bits(rt))
        /\ Get(word', Special3Type.rs) = Fit(Special3Type.rs, Bits(rs))
        /\ Get(word', Special3Type.special3) = Fit(Special3Type.special3, Bits(31))
    BY <1>1, AtMember DEF Special3Type, Get, Fit, SPECIAL3_OPCODE
  <1>3. func \in {"ext", "ins", "bshfl"}  BY DEF Special3Func
  <1>4. Special3Func[func] \in 0 .. 63 /\ Special3TypeOf(Special3Func[func]) = func
    BY <1>3, Special3Numbers DEF Special3Func
  <1>5. extra \in 0 .. 255
    <2>1. \A o \in DOMAIN Special3BSHFLFunc : Special3BSHFLFunc[o] \in 0 .. 255
      BY DEF Special3BSHFLFunc
    <2> QED  BY <2>1, ArgumentRanges
  <1>6. Val(word', General.op) = 31
    BY <1>2, SixBits, Special3Views, Special3Numbers
  <1>7. Val(word', Special3Type.func) = Special3Func[func]
    BY <1>2, <1>4, SixBits, Special3Views
  <1>8. Val(word', Special3TypeBSHFL.func) = extra % 32
    <2>1. Special3TypeBSHFL.func = Special3Type.extra  BY Special3Views
    <2>2. PICK lo : Special3Type.extra = <<lo, 5>>  BY Special3Views
    <2>3. Get(word', Special3TypeBSHFL.func) = Fit(<<lo, 5>>, Bits(extra))
      BY <1>2, <2>1, <2>2
    <2> QED  BY <1>5, <2>3, ValOfCutBits
  <1>9. GetType(word') = func  BY <1>4, <1>6, <1>7, TypeOfOpcode
  <1>10. OpOf(word') = op  BY <1>3, <1>8, <1>9 DEF OpOf
  <1>11. Get(word', Special3Type.rs) = Bits(rs) /\ Get(word', Special3Type.rt) = Bits(rt)
    <2>1. rs \in 0 .. 31 /\ rt \in 0 .. 31  BY ArgumentRanges
    <2> QED  BY <1>2, <2>1, BitsFit DEF Special3Type
  <1>12. /\ DOMAIN args = {"rs", "rt", "rd", "sa"}
         /\ args.rs = Get(word', Special3Type.rs)
         /\ args.rt = Get(word', Special3Type.rt)
         /\ args.rd = Get(word', Special3Type.rd)
         /\ args.sa = Get(word', Special3Type.extra)
    BY <1>2, <1>11
  <1> HIDE DEF args, op
  <1>13. \A r \in Reads[func] : r[1] \in DOMAIN args /\ Get(word', r[2]) = args[r[1]]
    BY <1>3, <1>12, Special3Views DEF Reads
  <1>14. intent' = Intent(func, op, args)  BY <1>1 DEF op, args
  <1>15. word' \subseteq Position  BY <1>1, AtPosition DEF Special3Type
  <1>16. Shape(intent')  BY <1>3, <1>14, IntentShape DEF Type
  <1>17. Matches(word', intent')  BY <1>9, <1>10, <1>13, <1>14, MatchesIntent
  <1> QED  BY <1>15, <1>16, <1>17 DEF Inv

LEMMA RegimmMade == ASSUME MakeRegimm PROVE Inv'
  <1>1. PICK op \in DOMAIN RegimmITypeOp, rs \in Registers, immediate \in Immediates :
          /\ word' = At(RegimmIType.op, Bits(RegimmITypeOp[op]))
                     \cup At(RegimmIType.rs, Bits(rs)) \cup At(RegimmIType.imm, immediate)
                     \cup At(RegimmIType.regimm, Bits(REGIMM_OPCODE))
          /\ intent' = Intent("regimm", op, [rs |-> Bits(rs),
                                             imm |-> Fit(RegimmIType.imm, immediate)])
    BY DEF MakeRegimm
  <1> DEFINE args == [rs |-> Bits(rs), imm |-> Fit(RegimmIType.imm, immediate)]
  <1>2. /\ Get(word', RegimmIType.op) = Fit(RegimmIType.op, Bits(RegimmITypeOp[op]))
        /\ Get(word', RegimmIType.rs) = Fit(RegimmIType.rs, Bits(rs))
        /\ Get(word', RegimmIType.imm) = Fit(RegimmIType.imm, immediate)
        /\ Get(word', RegimmIType.regimm) = Fit(RegimmIType.regimm, Bits(1))
    BY <1>1, AtMember DEF RegimmIType, Get, Fit, REGIMM_OPCODE
  <1>3. /\ RegimmIType.regimm = <<26, 6>> /\ General.op = <<26, 6>>
        /\ RegimmIType.imm = IType.imm
    BY DEF RegimmIType, General, IType
  <1>4. Val(word', General.op) = 1
    <2>1. 1 \in 0 .. 63  OBVIOUS
    <2> QED  BY <1>2, <1>3, <2>1, SixBits
  <1>5. RegimmITypeOp[op] \in 0 .. 31 /\ RegimmITypeOp[op] \in 0 .. 63  BY RegimmEnum
  <1>6. Get(word', RegimmIType.op) = Bits(RegimmITypeOp[op])
    BY <1>2, <1>5, BitsFit DEF RegimmIType
  <1>7. Val(word', RegimmIType.op) = RegimmITypeOp[op]  BY <1>5, <1>6, ValOfBits
  <1>8. GetType(word') = "regimm"  BY <1>4, TypeOfOpcode
  <1>9. OpOf(word') = op  BY <1>7, <1>8, RegimmEnum DEF OpOf
  <1>10. Get(word', RegimmIType.rs) = Bits(rs)
    <2>1. rs \in 0 .. 31  BY ArgumentRanges
    <2> QED  BY <1>2, <2>1, BitsFit DEF RegimmIType
  <1>11. \A r \in Reads["regimm"] : r[1] \in DOMAIN args /\ Get(word', r[2]) = args[r[1]]
    BY <1>2, <1>3, <1>10 DEF Reads
  <1>12. word' \subseteq Position  BY <1>1, AtPosition DEF RegimmIType
  <1>13. Shape(intent')  BY <1>1, IntentShape DEF Type
  <1>14. Matches(word', intent')  BY <1>1, <1>8, <1>9, <1>11, MatchesIntent
  <1> QED  BY <1>12, <1>13, <1>14 DEF Inv

\* The opcode of both PC-relative types.
LEMMA PcrelWord ==
  ASSUME NEW w, Get(w, General.op) = Fit(<<26, 6>>, Bits(PCREL_OPCODE))
  PROVE  GetType(w) = PcrelTypeOf(w)
  <1>1. General.op = <<26, 6>> /\ PCREL_OPCODE = 59 /\ 59 \in 0 .. 63
    BY DEF General, PCREL_OPCODE
  <1>2. Val(w, General.op) = 59  BY <1>1, SixBits
  <1> QED  BY <1>2, TypeOfOpcode

LEMMA Pcrel1Made == ASSUME MakePcrel1 PROVE Inv'
  <1>1. PICK func \in DOMAIN PCRelFunc1, rs \in Registers, immediate \in Immediates :
          /\ word' = At(PCRelType1.pcrel, Bits(PCREL_OPCODE))
                     \cup At(PCRelType1.rs, Bits(rs))
                     \cup At(PCRelType1.func, Bits(PCRelFunc1[func]))
                     \cup At(PCRelType1.imm, immediate)
          /\ intent' = Intent("pcrel1", func, [rs |-> Bits(rs),
                                               imm |-> Fit(PCRelType1.imm, immediate)])
    BY DEF MakePcrel1
  <1> DEFINE args == [rs |-> Bits(rs), imm |-> Fit(PCRelType1.imm, immediate)]
  <1>2. /\ Get(word', General.op) = Fit(<<26, 6>>, Bits(PCREL_OPCODE))
        /\ Get(word', PCRelType1.func) = Fit(PCRelType1.func, Bits(PCRelFunc1[func]))
        /\ Get(word', PCRelType1.rs) = Fit(PCRelType1.rs, Bits(rs))
        /\ Get(word', PCRelType1.imm) = Fit(PCRelType1.imm, immediate)
    BY <1>1, AtMember DEF PCRelType1, General, Get, Fit
  <1>3. /\ PCRelFunc1[func] \in 0 .. 1 /\ PCRelFunc1[func] \in 0 .. 63
        /\ PCRelFunc1[func] \in 0 .. 3
    BY PcrelEnums
  <1>4. Get(word', PCRelType1.func) = Bits(PCRelFunc1[func])
    BY <1>2, <1>3, BitsFit DEF PCRelType1
  <1>5. Val(word', PCRelType1.func) = PCRelFunc1[func]  BY <1>3, <1>4, ValOfBits
  <1>6. GetType(word') = "pcrel1"
    <2>1. 1 \notin Bits(PCRelFunc1[func])  BY <1>3, BitsTable
    <2> QED  BY <1>2, <1>4, <2>1, PcrelWord DEF PcrelTypeOf
  <1>7. OpOf(word') = func  BY <1>5, <1>6, PcrelEnums DEF OpOf
  <1>8. Get(word', PCRelType1.rs) = Bits(rs)
    <2>1. rs \in 0 .. 31  BY ArgumentRanges
    <2> QED  BY <1>2, <2>1, BitsFit DEF PCRelType1
  <1>9. \A r \in Reads["pcrel1"] : r[1] \in DOMAIN args /\ Get(word', r[2]) = args[r[1]]
    BY <1>2, <1>8 DEF Reads
  <1>10. word' \subseteq Position  BY <1>1, AtPosition DEF PCRelType1
  <1>11. Shape(intent')  BY <1>1, IntentShape DEF Type
  <1>12. Matches(word', intent')  BY <1>1, <1>6, <1>7, <1>9, MatchesIntent
  <1> QED  BY <1>10, <1>11, <1>12 DEF Inv

LEMMA Pcrel2Made == ASSUME MakePcrel2 PROVE Inv'
  <1>1. PICK func \in DOMAIN PCRelFunc2, rs \in Registers, immediate \in Immediates :
          /\ word' = At(PCRelType2.pcrel, Bits(PCREL_OPCODE))
                     \cup At(PCRelType2.rs, Bits(rs))
                     \cup At(PCRelType2.func, Bits(PCRelFunc2[func]))
                     \cup At(PCRelType2.imm, immediate)
          /\ intent' = Intent("pcrel2", func, [rs |-> Bits(rs),
                                               imm |-> Fit(PCRelType2.imm, immediate)])
    BY DEF MakePcrel2
  <1> DEFINE args == [rs |-> Bits(rs), imm |-> Fit(PCRelType2.imm, immediate)]
  <1>2. /\ Get(word', General.op) = Fit(<<26, 6>>, Bits(PCREL_OPCODE))
        /\ Get(word', PCRelType2.func) = Fit(PCRelType2.func, Bits(PCRelFunc2[func]))
        /\ Get(word', PCRelType2.rs) = Fit(PCRelType2.rs, Bits(rs))
        /\ Get(word', PCRelType2.imm) = Fit(PCRelType2.imm, immediate)
        /\ 1 \in Get(word', PCRelType1.func) <=> 4 \in Get(word', PCRelType2.func)
    BY <1>1, AtMember DEF PCRelType1, PCRelType2, General, Get, Fit
  <1>3. /\ PCRelFunc2[func] \in 30 .. 31 /\ PCRelFunc2[func] \in 0 .. 63
        /\ PCRelFunc2[func] \in 0 .. 31
    BY PcrelEnums
  <1>4. Get(word', PCRelType2.func) = Bits(PCRelFunc2[func])
    BY <1>2, <1>3, BitsFit DEF PCRelType2
  <1>5. Val(word', PCRelType2.func) = PCRelFunc2[func]  BY <1>3, <1>4, ValOfBits
  <1>6. GetType(word') = "pcrel2"
    <2>1. 4 \in Bits(PCRelFunc2[func])  BY <1>3, BitsTable
    <2> QED  BY <1>2, <1>4, <2>1, PcrelWord DEF PcrelTypeOf
  <1>7. OpOf(word') = func  BY <1>5, <1>6, PcrelEnums DEF OpOf
  <1>8. Get(word', PCRelType2.rs) = Bits(rs)
    <2>1. rs \in 0 .. 31  BY ArgumentRanges
    <2> QED  BY <1>2, <2>1, BitsFit DEF PCRelType2
  <1>9. \A r \in Reads["pcrel2"] : r[1] \in DOMAIN args /\ Get(word', r[2]) = args[r[1]]
    BY <1>2, <1>8 DEF Reads
  <1>10. word' \subseteq Position  BY <1>1, AtPosition DEF PCRelType2
  <1>11. Shape(intent')  BY <1>1, IntentShape DEF Type
  <1>12. Matches(word', intent')  BY <1>1, <1>6, <1>7, <1>9, MatchesIntent
  <1> QED  BY <1>10, <1>11, <1>12 DEF Inv

LEMMA RawMade ==
  ASSUME word' \in RawWords \cup {{}}, intent' = Raw PROVE Inv'
  <1>1. word' \subseteq Position  BY CodecAssumption DEF Position
  <1>2. Shape(intent')  BY IntentShape DEF Raw
  <1>3. Matches(word', intent')  BY IntentFields DEF Raw, Matches
  <1> QED  BY <1>1, <1>2, <1>3 DEF Inv

-----------------------------------------------------------------------------
(* An assignment leaves the other operands as they are *)

\* Two views of one operand are one field, two operands are apart.
LEMMA OperandsSeparate ==
  ASSUME NEW type \in Type, NEW r \in Reads[type], NEW s \in Reads[type]
  PROVE  /\ r[1] = s[1] => r[2] = s[2]
         /\ r[1] # s[1] => Apart(r[2], s[2])
         /\ r[2] = <<r[2][1], r[2][2]>> /\ r[2][1] \in Nat /\ r[2][2] \in Nat
         /\ r[2][1] + r[2][2] <= 32
  <1>1. CASE type = "rtype"
    BY <1>1 DEF Reads, Apart, RType
  <1>2. CASE type = "itype"
    BY <1>2 DEF Reads, Apart, RType, IType
  <1>3. CASE type = "longimm"
    BY <1>3 DEF Reads, Apart, IType, LongimmIType
  <1>4. CASE type = "jtype"
    BY <1>4 DEF Reads, Apart, JType
  <1>5. CASE type = "bshfl"
    BY <1>5 DEF Reads, Apart, Special3TypeBSHFL
  <1>6. CASE type \in {"ext", "ins"}
    BY <1>6 DEF Reads, Apart, Special3Type, Special3TypeEXT, Special3TypeINS
  <1>7. CASE type = "regimm"
    BY <1>7 DEF Reads, Apart, RegimmIType, IType
  <1>8. CASE type = "pcrel1"
    BY <1>8 DEF Reads, Apart, PCRelType1
  <1>9. CASE type = "pcrel2"
    BY <1>9 DEF Reads, Apart, PCRelType2
  <1>10. CASE type \in {"fpu_rtype", "fpu_btype", "fpu_ttype", "undecodable"}
    BY <1>10 DEF Reads
  <1> QED
    BY <1>1, <1>2, <1>3, <1>4, <1>5, <1>6, <1>7, <1>8, <1>9, <1>10 DEF Type

\* What an overwritten operand reads, and what the others still read.
LEMMA OperandsOverwritten ==
  ASSUME NEW w, NEW t \in Type, NEW r \in Reads[t], NEW s \in Reads[t], NEW B
  PROVE  /\ s[1] = r[1] => Get(Put(w, r[2], B), s[2]) = Fit(r[2], B)
         /\ s[1] # r[1] => Get(Put(w, r[2], B), s[2]) = Get(w, s[2])
  <1>1. CASE s[1] = r[1]
    <2>1. s[2] = r[2] /\ r[2] = <<r[2][1], r[2][2]>>
          /\ r[2][1] \in Nat /\ r[2][2] \in Nat
      BY <1>1, OperandsSeparate
    <2>2. Get(Put(w, r[2], B), r[2]) = Fit(r[2], B)  BY <2>1, GetPutSame
    <2> QED  BY <1>1, <2>1, <2>2
  <1>2. CASE s[1] # r[1]
    <2>1. Apart(r[2], s[2])  BY <1>2, OperandsSeparate
    <2> QED  BY <1>2, <2>1, GetPutApart
  <1> QED  BY <1>1, <1>2

LEMMA PatchInv == ASSUME Inv, Patch PROVE Inv'
  <1>1. PICK r \in Reads[GetType(word)], B \in Immediates :
          /\ word' = Put(word, r[2], B)
          /\ intent' = [Overwritten(intent, r[1], Fit(r[2], B))
                          EXCEPT !.patched = TRUE]
    BY DEF Patch
  <1>2. PICK t \in Type \cup {"none"}, p \in BOOLEAN : \E o, a :
          intent = [type |-> t, op |-> o, args |-> a, patched |-> p]
    BY DEF Inv, Shape
  <1>3. PICK o, a : intent = [type |-> t, op |-> o, args |-> a, patched |-> p]
    BY <1>2
  <1> DEFINE args == [n \in DOMAIN a |-> IF n = r[1] THEN Fit(r[2], B) ELSE a[n]]
             rt == IF t = "longimm" THEN {k \in 0 .. 4 : 16 + k \in args.imm}
                                    ELSE args.rt
             over == Overwritten(intent, r[1], Fit(r[2], B))
  <1>4. over = IF t \in {"itype", "longimm"} /\ o \in {"pop66", "pop76"}
               THEN ITypeIntent(o, rt, args.rs, args.imm \cap (0 .. 15))
               ELSE Intent(t, o, args)
    BY <1>3 DEF Overwritten
  <1>5. intent' = [over EXCEPT !.patched = TRUE]  BY <1>1
  <1> HIDE DEF over, rt
  <1>6. Shape(over)  BY <1>4, IntentShape, ITypeIntentShape
  <1>7. Shape(intent') /\ \A w : Matches(w, over) => Matches(w, intent')
    <2>1. PICK t1 \in Type \cup {"none"}, p1 \in BOOLEAN : \E o1, a1 :
            over = [type |-> t1, op |-> o1, args |-> a1, patched |-> p1]
      BY <1>6 DEF Shape
    <2>2. PICK o1, a1 : over = [type |-> t1, op |-> o1, args |-> a1, patched |-> p1]
      BY <2>1
    <2>3. intent' = [type |-> t1, op |-> o1, args |-> a1, patched |-> TRUE]
      BY <1>5, <2>2
    <2>4. Shape(intent')  BY <2>3 DEF Shape
    <2>5. /\ intent'.type = over.type /\ intent'.op = over.op
          /\ intent'.args = over.args
      BY <2>2, <2>3
    <2> QED  BY <2>4, <2>5 DEF Matches
  <1>8. word' \subseteq Position
    <2>1. At(r[2], B) \subseteq Position
      <3>1. /\ r[2] = <<r[2][1], r[2][2]>>
            /\ r[2][1] \in Nat /\ r[2][2] \in Nat /\ r[2][1] + r[2][2] <= 32
        BY OpcodeOfType, OperandsSeparate
      <3>2. At(<<r[2][1], r[2][2]>>, B) \subseteq Position
        BY <3>1, AtPosition
      <3> QED  BY <3>1, <3>2
    <2> QED  BY <1>1, <2>1 DEF Put, Inv
  <1>9. Matches(word', over)
    <2>1. CASE t = "none"
      <3>1. over.type = "none"  BY <1>4, <2>1, IntentFields
      <3> QED  BY <3>1 DEF Matches
    <2>2. CASE t # "none"
      <3>1. /\ GetType(word) = t /\ OpOf(word) = o
            /\ \A s \in Reads[t] : s[1] \in DOMAIN a /\ Get(word, s[2]) = a[s[1]]
        BY <1>3, <2>2 DEF Inv, Matches
      <3>2. \A s \in Reads[t] : s[1] \in DOMAIN args /\ Get(word', s[2]) = args[s[1]]
        <4>1. t \in Type /\ r \in Reads[t]  BY <3>1, OpcodeOfType
        <4>2. ASSUME NEW s \in Reads[t]
              PROVE  s[1] \in DOMAIN args /\ Get(word', s[2]) = args[s[1]]
          <5>1. /\ s[1] = r[1] => Get(word', s[2]) = Fit(r[2], B)
                /\ s[1] # r[1] => Get(word', s[2]) = Get(word, s[2])
            BY <1>1, <4>1, OperandsOverwritten
          <5>2. s[1] \in DOMAIN a /\ Get(word, s[2]) = a[s[1]]  BY <3>1
          <5> QED  BY <5>1, <5>2
        <4> QED  BY <4>2
      <3>3. OpOf(word') = o  BY <1>1, <3>1, PatchKeeps
      <3> HIDE DEF args
      <3>4. CASE o \notin {"pop66", "pop76"}
        <4>1. Val(word, General.op) \notin LongCodes  BY <3>1, <3>4, LongOps
        <4>2. GetType(word') = t  BY <1>1, <3>1, <4>1, PatchKeeps
        <4> QED  BY <1>4, <3>2, <3>3, <3>4, <4>2, MatchesIntent
      <3>5. CASE o \in {"pop66", "pop76"}
        <4>1. t \in {"itype", "longimm"} /\ Val(word, General.op) \in LongCodes
          BY <3>1, <3>5, SelectedTypes
        <4>2. Val(word', General.op) \in LongCodes
          BY <1>1, <4>1, PatchKeeps
        <4>3. /\ rt = Get(word', IType.rt) /\ args.rs = Get(word', IType.rs)
              /\ args.imm \cap (0 .. 15) = Get(word', IType.imm)
          <5>1. CASE t = "itype"
            <6>1. /\ args["rs"] = Get(word', IType.rs)
                  /\ args["rt"] = Get(word', IType.rt)
                  /\ args["imm"] = Get(word', IType.imm)
              BY <3>2, <5>1 DEF Reads
            <6>2. Get(word', IType.imm) \subseteq 0 .. 15  BY DEF Get, IType
            <6> QED  BY <5>1, <6>1, <6>2 DEF rt
          <5>2. CASE t = "longimm"
            <6>1. /\ args["rs"] = Get(word', IType.rs)
                  /\ args["imm"] = Get(word', LongimmIType.imm)
              BY <3>2, <5>2 DEF Reads
            <6> QED  BY <5>2, <6>1, LongImmediate DEF rt
          <5> QED  BY <4>1, <5>1, <5>2
        <4>4. Matches(word', ITypeIntent(OpOf(word'), Get(word', IType.rt),
                                         Get(word', IType.rs), Get(word', IType.imm)))
          BY <4>2, ITypeWord
        <4> QED  BY <1>4, <3>3, <3>5, <4>1, <4>3, <4>4
      <3> QED  BY <3>4, <3>5
    <2> QED  BY <2>1, <2>2
  <1> QED  BY <1>7, <1>8, <1>9 DEF Inv

-----------------------------------------------------------------------------
(* The invariant *)

LEMMA StepInv == Inv /\ [Next]_vars => Inv'
  <1> SUFFICES ASSUME Inv, [Next]_vars PROVE Inv'  OBVIOUS
  <1>1. CASE MakeRaw  BY <1>1, RawMade DEF MakeRaw
  <1>2. CASE MakeRType \/ MakeIType \/ MakeJType
    BY <1>2, RTypeMade, ITypeMade, JTypeMade
  <1>3. CASE MakeFpuRType \/ MakeFpuBType \/ MakeFpuTType
    BY <1>3, FpuRTypeMade, FpuBTypeMade, FpuTTypeMade
  <1>4. CASE MakeSpecial3 \/ MakeRegimm \/ MakePcrel1 \/ MakePcrel2
    BY <1>4, Special3Made, RegimmMade, Pcrel1Made, Pcrel2Made
  <1>5. CASE Patch  BY <1>5, PatchInv
  <1>6. CASE Discard  BY <1>6, RawMade DEF Discard
  <1>7. CASE UNCHANGED vars  BY <1>7 DEF vars, Inv, Shape, Matches
  <1> QED  BY <1>1, <1>2, <1>3, <1>4, <1>5, <1>6, <1>7 DEF Next, Make

LEMMA InvAlways == Spec => []Inv
  <1>1. Init => Inv
    <2> SUFFICES ASSUME Init PROVE Inv  OBVIOUS
    <2>1. word \subseteq Position  BY DEF Init
    <2>2. Shape(intent)  BY IntentShape DEF Init, Raw
    <2>3. Matches(word, intent)  BY IntentFields DEF Init, Raw, Matches
    <2> QED  BY <2>1, <2>2, <2>3 DEF Inv
  <1> QED  BY <1>1, StepInv, PTL DEF Spec

\* Every word has 32 bits and a type, whatever it was made from
\* (instruction.hpp:388-606).
THEOREM CodecTypeOK == Spec => []TypeOK
  <1>1. ASSUME Inv PROVE TypeOK
    <2>1. GetType(word) \in Type  BY OpcodeOfType
    <2>2. intent.type \in Type \cup {"none"} /\ intent.patched \in BOOLEAN
      BY <1>1 DEF Inv, Shape
    <2> QED  BY <1>1, <2>1, <2>2 DEF Inv, TypeOK
  <1> QED  BY <1>1, InvAlways, PTL

\* What a constructor was asked for, for every argument it can be given, is
\* what get_type and the handler find in the word (instruction.hpp:388-606).
THEOREM CodecIntentDecoded == Spec => []IntentDecoded
  <1>1. Inv => IntentDecoded  BY DEF Inv, Matches, IntentDecoded
  <1> QED  BY <1>1, InvAlways, PTL
=============================================================================
