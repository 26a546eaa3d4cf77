------------------------- MODULE Instructions_proofs -------------------------
(***************************************************************************)
(* The branch decisions and comparisons and what the data instructions     *)
(* compute, for every word width, all operands and all register numbers.   *)
(***************************************************************************)
EXTENDS MCInstructions, MachineWord_proofs, FiniteSetTheorems

LongOps   == {"pop66", "pop76"}
BranchOps == ImmBranchOps \cup LongOps \cup RegimmOps

BranchInstr ==
    [op : BranchOps, rs : Nat, rt : Nat, rd : {0}, sa : {0}, imm : {0}]

Decide(i, x, y) ==
    CASE i.op \in ImmBranchOps -> ImmDecision(i, x, y)
      [] i.op \in LongOps      -> LongDecision(i, x)
      [] i.op \in RegimmOps    -> RegimmDecision(i, x)

\* A decision is one of the fetched instruction on the fetched operands.
Fetched ==
    /\ ins \in BranchInstr
    /\ s \in Word /\ t \in Word
    /\ decision = Decide(ins, s, t)

Decided ==
    \/ decision = Undecided
    \/ done /\ Fetched

LEMMA FetchedInstr ==
  ASSUME NEW ops \in SUBSET BranchOps, Fetch(ops)
  PROVE  /\ ins' \in BranchInstr /\ ins'.op \in ops
         /\ s' \in Word /\ t' \in Word /\ done'
  BY DriverAssumption DEF Fetch, Idle, Instr, BranchInstr

LEMMA OpsDisjoint ==
  /\ \A op \in ImmBranchOps : op \notin LongOps /\ op \notin RegimmOps
  /\ \A op \in LongOps : op \notin ImmBranchOps /\ op \notin RegimmOps
  /\ \A op \in RegimmOps : op \notin LongOps /\ op \notin ImmBranchOps
  BY DEF ImmBranchOps, LongOps, RegimmOps

LEMMA DecidedInvariant == Spec => []Decided
  <1>1. Init => Decided  BY DEF Init, Decided
  <1>2. Decided /\ [Next]_vars => Decided'
    <2> SUFFICES ASSUME Decided, [Next]_vars PROVE Decided'  OBVIOUS
    <2> USE DEF Decided
    <2>1. CASE RType \/ IType \/ Bshfl \/ ExtIns
      <3>1. ~done /\ decision' = decision
        BY <2>1 DEF RType, IType, Bshfl, ExtIns, Operands
      <3> QED  BY <3>1 DEF Undecided
    <2>2. CASE IBranch
      <3>1. Fetch(ImmBranchOps) /\ ImmBranchOps \in SUBSET BranchOps
        BY <2>2 DEF IBranch, BranchOps
      <3>2. /\ ins' \in BranchInstr /\ ins'.op \in ImmBranchOps
            /\ s' \in Word /\ t' \in Word /\ done'
        BY <3>1, FetchedInstr
      <3>3. decision' = ImmDecision(ins', s', t')  BY <2>2 DEF IBranch
      <3>4. Decide(ins', s', t') = ImmDecision(ins', s', t')
        BY <3>2, OpsDisjoint DEF Decide
      <3> QED  BY <3>2, <3>3, <3>4 DEF Fetched
    <2>3. CASE LongBranch
      <3>1. Fetch(LongOps) /\ LongOps \in SUBSET BranchOps
        BY <2>3 DEF LongBranch, LongOps, BranchOps
      <3>2. /\ ins' \in BranchInstr /\ ins'.op \in LongOps
            /\ s' \in Word /\ t' \in Word /\ done'
        BY <3>1, FetchedInstr
      <3>3. decision' = LongDecision(ins', s')  BY <2>3 DEF LongBranch
      <3>4. Decide(ins', s', t') = LongDecision(ins', s')
        BY <3>2, OpsDisjoint DEF Decide
      <3> QED  BY <3>2, <3>3, <3>4 DEF Fetched
    <2>4. CASE RegimmBranch
      <3>1. Fetch(RegimmOps) /\ RegimmOps \in SUBSET BranchOps
        BY <2>4 DEF RegimmBranch, BranchOps
      <3>2. /\ ins' \in BranchInstr /\ ins'.op \in RegimmOps
            /\ s' \in Word /\ t' \in Word /\ done'
        BY <3>1, FetchedInstr
      <3>3. decision' = RegimmDecision(ins', s')  BY <2>4 DEF RegimmBranch
      <3>4. Decide(ins', s', t') = RegimmDecision(ins', s')
        BY <3>2, OpsDisjoint DEF Decide
      <3> QED  BY <3>2, <3>3, <3>4 DEF Fetched
    <2>5. CASE Reset  BY <2>5 DEF Reset
    <2>6. CASE UNCHANGED vars  BY <2>6 DEF vars, Fetched
    <2> QED  BY <2>1, <2>2, <2>3, <2>4, <2>5, <2>6 DEF Next
  <1> QED  BY <1>1, <1>2, PTL DEF Spec

-----------------------------------------------------------------------------
(* Opposite branches *)

\* What OppositesPartition says of one instruction and its opposite.
Partitioned(d, e, neither) ==
    /\ d.how = e.how
    /\ IF neither THEN ~d.taken /\ ~e.taken ELSE d.taken # e.taken

\* A comparison and its negation, whichever way the branch is made.
LEMMA Negated ==
  ASSUME NEW a \in Int, NEW b \in Int
  PROVE  /\ Partitioned(Delay(a <= b), Delay(a > b), FALSE)
         /\ Partitioned(Linked(a <= b), Linked(a > b), FALSE)
         /\ Partitioned(Linked(a >= b), Linked(a < b), FALSE)
         /\ Partitioned(Delay(a >= b), Delay(a < b), FALSE)
         /\ Partitioned(AtOnce(a <= b), AtOnce(a > b), FALSE)
         /\ Partitioned(AtOnce(a >= b), AtOnce(a < b), FALSE)
  BY DEF Partitioned, Delay, AtOnce, Linked

\* The chains of two opposite opcodes decide opposite ways, case by case.
LEMMA PopsOpposite ==
  ASSUME NEW i, i.rs \in Nat, i.rt \in Nat, NEW j, j.rs = i.rs, j.rt = i.rt,
         NEW x \in Word, NEW y \in Word
  PROVE  /\ Partitioned(Pop06(i, x, y), Pop07(j, x, y), FALSE)
         /\ Partitioned(Pop10(i, x, y), Pop30(j, x, y), FALSE)
         /\ Partitioned(Pop26(i, x, y), Pop27(j, x, y), i.rt = 0)
  <1>1. x \in Int /\ y \in Int /\ Signed(x) \in Int /\ Signed(y) \in Int
    BY WordInt, SignedInt
  <1>n. /\ Partitioned(Delay(Signed(x) <= 0), Delay(Signed(x) > 0), FALSE)
        /\ Partitioned(Linked(Signed(y) <= 0), Linked(Signed(y) > 0), FALSE)
        /\ Partitioned(Linked(Signed(y) >= 0), Linked(Signed(y) < 0), FALSE)
        /\ Partitioned(AtOnce(x >= y), AtOnce(x < y), FALSE)
        /\ Partitioned(AtOnce(Signed(y) <= 0), AtOnce(Signed(y) > 0), FALSE)
        /\ Partitioned(AtOnce(Signed(y) >= 0), AtOnce(Signed(y) < 0), FALSE)
        /\ Partitioned(AtOnce(Signed(x) >= Signed(y)),
                       AtOnce(Signed(x) < Signed(y)), FALSE)
    <2>1. 0 \in Int  OBVIOUS
    <2> QED  BY <1>1, <2>1, Negated, Zenon
  <1>2. Partitioned(Pop06(i, x, y), Pop07(j, x, y), FALSE)
    <2>1. CASE i.rt = 0
      <3>1. /\ Pop06(i, x, y) = Delay(Signed(x) <= 0)
            /\ Pop07(j, x, y) = Delay(Signed(x) > 0)
        BY <2>1 DEF Pop06, Pop07
      <3> QED  BY <1>n, <3>1
    <2>2. CASE i.rt # 0 /\ i.rs = 0
      <3>1. /\ Pop06(i, x, y) = Linked(Signed(y) <= 0)
            /\ Pop07(j, x, y) = Linked(Signed(y) > 0)
        BY <2>2 DEF Pop06, Pop07
      <3> QED  BY <1>n, <3>1
    <2>3. CASE i.rt # 0 /\ i.rs = i.rt
      <3>1. /\ Pop06(i, x, y) = Linked(Signed(y) >= 0)
            /\ Pop07(j, x, y) = Linked(Signed(y) < 0)
        BY <2>3 DEF Pop06, Pop07
      <3> QED  BY <1>n, <3>1
    <2>4. CASE i.rt # 0 /\ i.rs # 0 /\ i.rs # i.rt
      <3>1. /\ Pop06(i, x, y) = AtOnce(x >= y)
            /\ Pop07(j, x, y) = AtOnce(x < y)
        BY <2>4 DEF Pop06, Pop07
      <3> QED  BY <1>n, <3>1
    <2> QED  BY <2>1, <2>2, <2>3, <2>4
  <1>3. Partitioned(Pop10(i, x, y), Pop30(j, x, y), FALSE)
    <2>1. CASE i.rs = 0 /\ i.rs < i.rt
      <3>1. /\ Pop10(i, x, y) = Linked(y = 0)
            /\ Pop30(j, x, y) = Linked(y # 0)
        BY <2>1 DEF Pop10, Pop30
      <3> QED  BY <3>1 DEF Partitioned, Linked
    <2>2. CASE i.rs # 0 /\ i.rs < i.rt
      <3>1. /\ Pop10(i, x, y) = AtOnce(y = x)
            /\ Pop30(j, x, y) = AtOnce(y # x)
        BY <2>2 DEF Pop10, Pop30
      <3> QED  BY <3>1 DEF Partitioned, AtOnce
    <2>3. CASE i.rs >= i.rt
      <3>1. /\ Pop10(i, x, y) = AtOnce(SumOverflow(x, y))
            /\ Pop30(j, x, y) = AtOnce(~SumOverflow(x, y))
        BY <2>3 DEF Pop10, Pop30
      <3>2. SumOverflow(x, y) \in BOOLEAN  BY DEF SumOverflow
      <3> QED  BY <3>1, <3>2 DEF Partitioned, AtOnce
    <2>4. i.rs < i.rt \/ i.rs >= i.rt  OBVIOUS
    <2> QED  BY <2>1, <2>2, <2>3, <2>4
  <1>4. Partitioned(Pop26(i, x, y), Pop27(j, x, y), i.rt = 0)
    <2>1. CASE i.rt = 0
      BY <2>1 DEF Pop26, Pop27, Partitioned, NoVariant, AtOnce
    <2>2. CASE i.rt # 0 /\ i.rs = 0
      <3>1. /\ Pop26(i, x, y) = AtOnce(Signed(y) <= 0)
            /\ Pop27(j, x, y) = AtOnce(Signed(y) > 0)
        BY <2>2 DEF Pop26, Pop27
      <3> QED  BY <1>n, <2>2, <3>1
    <2>3. CASE i.rt # 0 /\ i.rs = i.rt
      <3>1. /\ Pop26(i, x, y) = AtOnce(Signed(y) >= 0)
            /\ Pop27(j, x, y) = AtOnce(Signed(y) < 0)
        BY <2>3 DEF Pop26, Pop27
      <3> QED  BY <1>n, <2>3, <3>1
    <2>4. CASE i.rt # 0 /\ i.rs # 0 /\ i.rs # i.rt
      <3>1. /\ Pop26(i, x, y) = AtOnce(Signed(x) >= Signed(y))
            /\ Pop27(j, x, y) = AtOnce(Signed(x) < Signed(y))
        BY <2>4 DEF Pop26, Pop27
      <3> QED  BY <1>n, <2>4, <3>1
    <2> QED  BY <2>1, <2>2, <2>3, <2>4
  <1> QED  BY <1>2, <1>3, <1>4

\* "Partitioned" does not depend on which of the two is asked first.
LEMMA PartitionedSym ==
  ASSUME NEW d, NEW e, NEW n \in BOOLEAN, Partitioned(d, e, n)
  PROVE  Partitioned(e, d, n)
  BY DEF Partitioned

\* The tables by opcode.
LEMMA ImmTable ==
  ASSUME NEW i, NEW x, NEW y
  PROVE  /\ i.op = "beq" => ImmDecision(i, x, y) = Delay(y = x)
         /\ i.op = "bne" => ImmDecision(i, x, y) = Delay(y # x)
         /\ i.op = "pop06" => ImmDecision(i, x, y) = Pop06(i, x, y)
         /\ i.op = "pop07" => ImmDecision(i, x, y) = Pop07(i, x, y)
         /\ i.op = "pop10" => ImmDecision(i, x, y) = Pop10(i, x, y)
         /\ i.op = "pop30" => ImmDecision(i, x, y) = Pop30(i, x, y)
         /\ i.op = "pop26" => ImmDecision(i, x, y) = Pop26(i, x, y)
         /\ i.op = "pop27" => ImmDecision(i, x, y) = Pop27(i, x, y)
  BY DEF ImmDecision

LEMMA DecideTable ==
  ASSUME NEW i, NEW x, NEW y
  PROVE  /\ i.op \in ImmBranchOps => Decide(i, x, y) = ImmDecision(i, x, y)
         /\ i.op \in LongOps => Decide(i, x, y) = LongDecision(i, x)
         /\ i.op \in RegimmOps => Decide(i, x, y) = RegimmDecision(i, x)
  BY DEF Decide, ImmBranchOps, LongOps, RegimmOps

\* Two opposite branches of the same fields and values.
LEMMA OppositeDecisions ==
  ASSUME NEW i, i.rs \in Nat, i.rt \in Nat, i.op \in BranchOps,
         NEW j, j.rs = i.rs, j.rt = i.rt, j.op = Opposite[i.op],
         NEW x \in Word, NEW y \in Word
  PROVE  /\ i.op \notin {"pop26", "pop27"} =>
              Partitioned(Decide(i, x, y), Decide(j, x, y), FALSE)
         /\ i.op \in {"pop26", "pop27"} =>
              Partitioned(Decide(i, x, y), Decide(j, x, y), i.rt = 0)
  <1>1. CASE i.op = "pop06"
    <2>1. j.op = "pop07"  BY <1>1 DEF Opposite
    <2>2. Decide(i, x, y) = Pop06(i, x, y) /\ Decide(j, x, y) = Pop07(j, x, y)
      BY <1>1, <2>1, ImmTable, DecideTable DEF ImmBranchOps
    <2> QED  BY <1>1, <2>2, PopsOpposite
  <1>2. CASE i.op = "pop07"
    <2>1. j.op = "pop06"  BY <1>2 DEF Opposite
    <2>2. Decide(i, x, y) = Pop07(i, x, y) /\ Decide(j, x, y) = Pop06(j, x, y)
      BY <1>2, <2>1, ImmTable, DecideTable DEF ImmBranchOps
    <2>3. Partitioned(Pop06(j, x, y), Pop07(i, x, y), FALSE)
      BY PopsOpposite
    <2> QED  BY <1>2, <2>2, <2>3, PartitionedSym
  <1>3. CASE i.op = "pop10"
    <2>1. j.op = "pop30"  BY <1>3 DEF Opposite
    <2>2. Decide(i, x, y) = Pop10(i, x, y) /\ Decide(j, x, y) = Pop30(j, x, y)
      BY <1>3, <2>1, ImmTable, DecideTable DEF ImmBranchOps
    <2> QED  BY <1>3, <2>2, PopsOpposite
  <1>4. CASE i.op = "pop30"
    <2>1. j.op = "pop10"  BY <1>4 DEF Opposite
    <2>2. Decide(i, x, y) = Pop30(i, x, y) /\ Decide(j, x, y) = Pop10(j, x, y)
      BY <1>4, <2>1, ImmTable, DecideTable DEF ImmBranchOps
    <2>3. Partitioned(Pop10(j, x, y), Pop30(i, x, y), FALSE)
      BY PopsOpposite
    <2> QED  BY <1>4, <2>2, <2>3, PartitionedSym
  <1>5. CASE i.op = "pop26"
    <2>1. j.op = "pop27"  BY <1>5 DEF Opposite
    <2>2. Decide(i, x, y) = Pop26(i, x, y) /\ Decide(j, x, y) = Pop27(j, x, y)
      BY <1>5, <2>1, ImmTable, DecideTable DEF ImmBranchOps
    <2>3. Partitioned(Pop26(i, x, y), Pop27(j, x, y), i.rt = 0)
      BY PopsOpposite
    <2> QED  BY <1>5, <2>2, <2>3
  <1>6. CASE i.op = "pop27"
    <2>1. j.op = "pop26"  BY <1>6 DEF Opposite
    <2>2. Decide(i, x, y) = Pop27(i, x, y) /\ Decide(j, x, y) = Pop26(j, x, y)
      BY <1>6, <2>1, ImmTable, DecideTable DEF ImmBranchOps
    <2>3. Partitioned(Pop26(j, x, y), Pop27(i, x, y), j.rt = 0)
      BY PopsOpposite
    <2> QED  BY <1>6, <2>2, <2>3, PartitionedSym
  <1>7. CASE i.op \in {"beq", "bne"}
    <2>1. /\ i.op = "beq" => j.op = "bne"
          /\ i.op = "bne" => j.op = "beq"
      BY DEF Opposite
    <2>2. Partitioned(Delay(y = x), Delay(y # x), FALSE)
      BY DEF Partitioned, Delay
    <2>3. Partitioned(Delay(y # x), Delay(y = x), FALSE)
      BY DEF Partitioned, Delay
    <2>4. i.op = "beq" => /\ Decide(i, x, y) = Delay(y = x)
                          /\ Decide(j, x, y) = Delay(y # x)
      BY <2>1, ImmTable, DecideTable DEF ImmBranchOps
    <2>5. i.op = "bne" => /\ Decide(i, x, y) = Delay(y # x)
                          /\ Decide(j, x, y) = Delay(y = x)
      BY <2>1, ImmTable, DecideTable DEF ImmBranchOps
    <2> QED  BY <1>7, <2>2, <2>3, <2>4, <2>5
  <1>8. CASE i.op \in LongOps
    <2>1. /\ i.op = "pop66" => j.op = "pop76"
          /\ i.op = "pop76" => j.op = "pop66"
      BY DEF Opposite
    <2>2. Partitioned(AtOnce(x = 0), AtOnce(x # 0), FALSE)
      BY DEF Partitioned, AtOnce
    <2>3. Partitioned(AtOnce(x # 0), AtOnce(x = 0), FALSE)
      BY DEF Partitioned, AtOnce
    <2>4. i.op = "pop66" => /\ Decide(i, x, y) = AtOnce(x = 0)
                            /\ Decide(j, x, y) = AtOnce(x # 0)
      BY <2>1, DecideTable DEF LongDecision, LongOps
    <2>5. i.op = "pop76" => /\ Decide(i, x, y) = AtOnce(x # 0)
                            /\ Decide(j, x, y) = AtOnce(x = 0)
      BY <2>1, DecideTable DEF LongDecision, LongOps
    <2> QED  BY <1>8, <2>2, <2>3, <2>4, <2>5 DEF LongOps
  <1>9. CASE i.op \in RegimmOps
    <2>1. /\ i.op = "bgez" => j.op = "bltz"
          /\ i.op = "bltz" => j.op = "bgez"
      BY DEF Opposite
    <2>2. Partitioned(Delay(Signed(x) >= 0), Delay(Signed(x) < 0), FALSE)
      <3>1. Signed(x) \in Int /\ 0 \in Int  BY SignedInt
      <3> QED  BY <3>1, Negated, Zenon
    <2>3. Partitioned(Delay(Signed(x) < 0), Delay(Signed(x) >= 0), FALSE)
      BY <2>2, PartitionedSym
    <2>4. i.op = "bgez" => /\ Decide(i, x, y) = Delay(Signed(x) >= 0)
                           /\ Decide(j, x, y) = Delay(Signed(x) < 0)
      BY <2>1, DecideTable DEF RegimmDecision, RegimmOps
    <2>5. i.op = "bltz" => /\ Decide(i, x, y) = Delay(Signed(x) < 0)
                           /\ Decide(j, x, y) = Delay(Signed(x) >= 0)
      BY <2>1, DecideTable DEF RegimmDecision, RegimmOps
    <2> QED  BY <1>9, <2>2, <2>3, <2>4, <2>5 DEF RegimmOps
  <1> QED
    BY <1>1, <1>2, <1>3, <1>4, <1>5, <1>6, <1>7, <1>8, <1>9
       DEF BranchOps, ImmBranchOps

\* Exactly one of two opposite branches is taken, and both branch the same way,
\* for every word width, all fields and all values (executor.hpp:261-513,
\* 762-794).
THEOREM BranchesPartition == Spec => []OppositesPartition
  <1>1. Decided => OppositesPartition
    <2> SUFFICES ASSUME Decided, decision # Undecided PROVE OppositesPartition
      BY DEF OppositesPartition
    <2> DEFINE other == [ins EXCEPT !.op = Opposite[ins.op]]
    <2>1. Fetched  BY DEF Decided
    <2>2. /\ ins.rs \in Nat /\ ins.rt \in Nat /\ ins.op \in BranchOps
          /\ s \in Word /\ t \in Word /\ decision = Decide(ins, s, t)
      BY <2>1 DEF Fetched, BranchInstr
    <2>3. /\ other.rs = ins.rs /\ other.rt = ins.rt
          /\ other.op = Opposite[ins.op]
      BY <2>1 DEF Fetched, BranchInstr
    <2>4. DecisionOf(Opposite[ins.op]) = Decide(other, s, t)
      BY <2>3 DEF DecisionOf, Decide, LongOps
    <2> HIDE DEF other
    <2>5. /\ ins.op \notin {"pop26", "pop27"} =>
               Partitioned(decision, DecisionOf(Opposite[ins.op]), FALSE)
          /\ ins.op \in {"pop26", "pop27"} =>
               Partitioned(decision, DecisionOf(Opposite[ins.op]), ins.rt = 0)
      <3>1. /\ ins.op \notin {"pop26", "pop27"} =>
                 Partitioned(Decide(ins, s, t), Decide(other, s, t), FALSE)
            /\ ins.op \in {"pop26", "pop27"} =>
                 Partitioned(Decide(ins, s, t), Decide(other, s, t), ins.rt = 0)
        BY <2>2, <2>3, OppositeDecisions
      <3>2. decision = Decide(ins, s, t)  BY <2>2
      <3> QED  BY <3>1, <3>2, <2>4, Zenon
    <2>6. CASE ins.op \in {"pop26", "pop27"}
      BY <2>5, <2>6 DEF OppositesPartition, Partitioned
    <2>7. CASE ins.op \notin {"pop26", "pop27"}
      <3> DEFINE d == decision
                 e == DecisionOf(Opposite[ins.op])
      <3>1. d.how = e.how /\ d.taken # e.taken
        BY <2>5, <2>7, Zenon DEF Partitioned
      <3>2. ~(ins.op \in {"pop26", "pop27"} /\ ins.rt = 0)  BY <2>7, Zenon
      <3> QED  BY <3>1, <3>2, Zenon DEF OppositesPartition
    <2> QED  BY <2>6, <2>7
  <1> QED  BY <1>1, DecidedInvariant, PTL

-----------------------------------------------------------------------------
(* The comparisons *)

\* The instructions the driver executes, by handler.
RTypeInstr == [op : RTypeDataOps, rs : {0, 1}, rt : {0}, rd : {0},
               sa : BitIndex, imm : {0}]
ITypeInstr == [op : ITypeDataOps, rs : {0}, rt : {0}, rd : {0}, sa : {0},
               imm : 0 .. IMM_SIZE - 1]
BshflInstr == [op : BshflOps, rs : {0}, rt : {0}, rd : {0}, sa : {0}, imm : {0}]
ExtInstr   == [op : {"ext"}, rs : {0}, rt : {0}, rd : BitIndex, sa : BitIndex,
               imm : {0}]
InsInstr   == [op : {"ins"}, rs : {0}, rt : {0}, rd : BitIndex, sa : BitIndex,
               imm : {0}]

\* The outcomes recorded are those of the recorded instruction on the recorded
\* operands.
Recorded ==
    \/ ins \in RTypeInstr /\ out = RTypeOutcomes(ins, s, t)
    \/ ins \in ITypeInstr /\ out = ITypeOutcomes(ins, s)
    \/ ins \in BshflInstr /\ out = BshflOutcomes(ins, s, t)
    \/ ins \in ExtInstr /\ out = ExtOutcomes(ins, s)
    \/ ins \in InsInstr /\ out = InsOutcomes(ins, s, t)
    \/ ins \in BranchInstr /\ out = {0}

Executed ==
    /\ s \in Word /\ t \in Word
    /\ Recorded
    /\ ~done => out = {0}

LEMMA OpClasses ==
  /\ \A op \in RTypeDataOps :
       op \notin ITypeDataOps \cup BshflOps \cup {"ext", "ins"} \cup BranchOps
  /\ \A op \in ITypeDataOps :
       op \notin RTypeDataOps \cup BshflOps \cup {"ext", "ins"} \cup BranchOps
  /\ \A op \in BshflOps :
       op \notin RTypeDataOps \cup ITypeDataOps \cup {"ext", "ins"} \cup BranchOps
  /\ \A op \in {"ext", "ins"} :
       op \notin RTypeDataOps \cup ITypeDataOps \cup BshflOps \cup BranchOps
  /\ \A op \in BranchOps :
       op \notin RTypeDataOps \cup ITypeDataOps \cup BshflOps \cup {"ext", "ins"}
  BY DEF RTypeDataOps, DivisionOps, ITypeDataOps, BshflOps, BranchOps,
         ImmBranchOps, LongOps, RegimmOps

\* What was recorded of an operation.
LEMMA RecordedByOp ==
  ASSUME Executed
  PROVE  /\ s \in Word /\ t \in Word
         /\ ins.op \in RTypeDataOps =>
              ins \in RTypeInstr /\ out = RTypeOutcomes(ins, s, t)
         /\ ins.op \in ITypeDataOps =>
              ins \in ITypeInstr /\ out = ITypeOutcomes(ins, s)
         /\ ins.op \in BshflOps =>
              ins \in BshflInstr /\ out = BshflOutcomes(ins, s, t)
         /\ ins.op = "ext" => ins \in ExtInstr /\ out = ExtOutcomes(ins, s)
         /\ ins.op = "ins" => ins \in InsInstr /\ out = InsOutcomes(ins, s, t)
         /\ ins.op \in BranchOps => ins \in BranchInstr /\ out = {0}
         /\ ins.op \in RTypeDataOps \cup ITypeDataOps \cup BshflOps
                       \cup {"ext", "ins"} \cup BranchOps
  <1>1. /\ ins \in RTypeInstr => ins.op \in RTypeDataOps
        /\ ins \in ITypeInstr => ins.op \in ITypeDataOps
        /\ ins \in BshflInstr => ins.op \in BshflOps
        /\ ins \in ExtInstr => ins.op = "ext"
        /\ ins \in InsInstr => ins.op = "ins"
        /\ ins \in BranchInstr => ins.op \in BranchOps
    BY DEF RTypeInstr, ITypeInstr, BshflInstr, ExtInstr, InsInstr, BranchInstr
  <1> QED  BY <1>1, OpClasses, Zenon DEF Executed, Recorded

LEMMA InstrType ==
  ASSUME NEW op, NEW rs, NEW rd, NEW sa, NEW imm
  PROVE  /\ op \in RTypeDataOps /\ rs \in {0, 1} /\ sa \in BitIndex =>
              Instr(op, rs, 0, sa, 0) \in RTypeInstr
         /\ op \in ITypeDataOps /\ imm \in 0 .. IMM_SIZE - 1 =>
              Instr(op, 0, 0, 0, imm) \in ITypeInstr
         /\ op \in BshflOps => Instr(op, 0, 0, 0, 0) \in BshflInstr
         /\ rd \in BitIndex /\ sa \in BitIndex =>
              /\ Instr("ext", 0, rd, sa, 0) \in ExtInstr
              /\ Instr("ins", 0, rd, sa, 0) \in InsInstr
  BY DEF Instr, RTypeInstr, ITypeInstr, BshflInstr, ExtInstr, InsInstr

\* The driver is idle on the sum of zeros.
LEMMA IdleRecorded ==
  Idle \in RTypeInstr /\ RTypeOutcomes(Idle, 0, 0) = {0} /\ 0 \in Word
  <1>1. 0 \in BitIndex  BY WordAssumption DEF BitIndex
  <1>2. "addu" \in RTypeDataOps  BY DEF RTypeDataOps
  <1>3. Idle \in RTypeInstr /\ Idle.op = "addu"
    BY <1>1, <1>2 DEF Idle, Instr, RTypeInstr
  <1>4. RTypeOutcomes(Idle, 0, 0) = {Add(0, 0)}  BY <1>3 DEF RTypeOutcomes, DivisionOps
  <1>5. Add(0, 0) = 0  BY WordInt, WrapId DEF Add
  <1> QED  BY <1>3, <1>4, <1>5, WordInt

\* At every moment the recorded outcomes are those of the recorded instruction on
\* words: the inductive invariant of the theorems about values
\* (executor.hpp:17-243, 275-306, 632-759).
THEOREM ExecutedInvariant == Spec => []Executed
  <1>1. Init => Executed
    BY IdleRecorded DEF Init, Executed, Recorded
  <1>2. Executed /\ [Next]_vars => Executed'
    <2> SUFFICES ASSUME Executed, [Next]_vars PROVE Executed'  OBVIOUS
    <2>o. Operands => s' \in Word /\ t' \in Word /\ done'
      BY DriverAssumption DEF Operands
    <2>1. CASE RType
      <3>1. PICK op \in RTypeDataOps, rs \in {0, 1}, sa \in BitIndex :
              /\ ins' = Instr(op, rs, 0, sa, 0)
              /\ Operands
              /\ out' = RTypeOutcomes(ins', s', t')
        BY <2>1 DEF RType
      <3>2. ins' \in RTypeInstr  BY <3>1, InstrType
      <3> QED  BY <2>o, <3>1, <3>2 DEF Executed, Recorded
    <2>2. CASE IType
      <3>1. PICK op \in ITypeDataOps, imm \in 0 .. IMM_SIZE - 1 :
              /\ ins' = Instr(op, 0, 0, 0, imm)
              /\ Operands
              /\ out' = ITypeOutcomes(ins', s')
        BY <2>2 DEF IType
      <3>2. ins' \in ITypeInstr  BY <3>1, InstrType
      <3> QED  BY <2>o, <3>1, <3>2 DEF Executed, Recorded
    <2>3. CASE Bshfl
      <3>1. PICK op \in BshflOps :
              /\ ins' = Instr(op, 0, 0, 0, 0)
              /\ Operands
              /\ out' = BshflOutcomes(ins', s', t')
        BY <2>3 DEF Bshfl
      <3>2. ins' \in BshflInstr  BY <3>1, InstrType
      <3> QED  BY <2>o, <3>1, <3>2 DEF Executed, Recorded
    <2>4. CASE ExtIns
      <3>1. PICK op \in {"ext", "ins"}, msb \in BitIndex, lsb \in BitIndex :
              /\ ins' = Instr(op, 0, msb, lsb, 0)
              /\ Operands
              /\ out' = IF op = "ext" THEN ExtOutcomes(ins', s')
                                      ELSE InsOutcomes(ins', s', t')
        BY <2>4 DEF ExtIns
      <3>2. CASE op = "ext"
        <4>1. ins' \in ExtInstr  BY <3>1, <3>2, InstrType
        <4> QED  BY <2>o, <3>1, <3>2, <4>1 DEF Executed, Recorded
      <3>3. CASE op = "ins"
        <4>1. ins' \in InsInstr  BY <3>1, <3>3, InstrType
        <4> QED  BY <2>o, <3>1, <3>3, <4>1 DEF Executed, Recorded
      <3> QED  BY <3>2, <3>3
    <2>5. CASE IBranch \/ LongBranch \/ RegimmBranch
      <3>1. \/ Fetch(ImmBranchOps) \/ Fetch(LongOps) \/ Fetch(RegimmOps)
        BY <2>5 DEF IBranch, LongBranch, RegimmBranch, LongOps
      <3>2. /\ ImmBranchOps \in SUBSET BranchOps
            /\ LongOps \in SUBSET BranchOps
            /\ RegimmOps \in SUBSET BranchOps
        BY DEF BranchOps
      <3>3. /\ ins' \in BranchInstr /\ s' \in Word /\ t' \in Word /\ done'
        BY <3>1, <3>2, FetchedInstr
      <3>4. out' = {0}  BY <3>1 DEF Fetch, Executed
      <3> QED  BY <3>3, <3>4 DEF Executed, Recorded
    <2>6. CASE Reset
      BY <2>6, IdleRecorded DEF Reset, Executed, Recorded
    <2>7. CASE UNCHANGED vars  BY <2>7 DEF vars, Executed, Recorded
    <2> QED  BY <2>1, <2>2, <2>3, <2>4, <2>5, <2>6, <2>7 DEF Next
  <1> QED  BY <1>1, <1>2, PTL DEF Spec

LEMMA OneComparison ==
  ASSUME NEW a \in Int, NEW b \in Int PROVE (a >= b) # (a < b)
  OBVIOUS

\* SLT, SLTU and their immediate forms compute the conditions TLT and TLTU trap
\* on, and the traps are three complementary pairs, for every word width and
\* all operands (executor.hpp:103-110, 217-223, 287-297).
THEOREM ComparisonsAgreeAlways == Spec => []ComparisonsAgree
  <1>1. Executed => ComparisonsAgree
    <2> SUFFICES ASSUME Executed PROVE ComparisonsAgree  OBVIOUS
    <2>1. /\ s \in Word /\ t \in Word /\ s \in Int /\ t \in Int
          /\ Signed(s) \in Int /\ Signed(t) \in Int
      BY WordInt, SignedInt DEF Executed
    <2>r. /\ ins.op \in {"slt", "sltu"} => out = RTypeOutcomes(ins, s, t)
          /\ ins.op \in {"slti", "sltiu"} => out = ITypeOutcomes(ins, s)
      BY RecordedByOp DEF RTypeDataOps, ITypeDataOps
    <2>2. ins.op = "slt" => out = {Flag(Signed(s) < Signed(t))}
      BY <2>r DEF RTypeOutcomes, DivisionOps
    <2>3. ins.op = "sltu" => out = {Flag(s < t)}
      BY <2>r DEF RTypeOutcomes, DivisionOps
    <2>4. ins.op = "slti" =>
            out = {Flag(Signed(s) < Signed(SignExt(ins.imm, IMM_SIZE)))}
      BY <2>r DEF ITypeOutcomes
    <2>5. ins.op = "sltiu" => out = {Flag(s < SignExt(ins.imm, IMM_SIZE))}
      BY <2>r DEF ITypeOutcomes
    <2>6. \A x, y : /\ TrapCondition("tlt", x, y) = (Signed(x) < Signed(y))
                    /\ TrapCondition("tltu", x, y) = (x < y)
      BY DEF TrapCondition
    <2>a. \A x, y : /\ TrapCondition("tge", x, y) = (Signed(x) >= Signed(y))
                    /\ TrapCondition("tgeu", x, y) = (x >= y)
      BY DEF TrapCondition
    <2>7. TrapCondition("tge", s, t) # TrapCondition("tlt", s, t)
      <3>1. (Signed(s) >= Signed(t)) # (Signed(s) < Signed(t))
        BY <2>1, OneComparison
      <3> QED  BY <2>6, <2>a, <3>1, Zenon
    <2>8. TrapCondition("tgeu", s, t) # TrapCondition("tltu", s, t)
      <3>1. (s >= t) # (s < t)  BY <2>1, OneComparison
      <3> QED  BY <2>6, <2>a, <3>1, Zenon
    <2>9. TrapCondition("teq", s, t) # TrapCondition("tne", s, t)
      BY DEF TrapCondition
    <2> QED
      BY <2>2, <2>3, <2>4, <2>5, <2>6, <2>7, <2>8, <2>9 DEF ComparisonsAgree
  <1> QED  BY <1>1, ExecutedInvariant, PTL

LEMMA Taken ==
  ASSUME NEW p PROVE AtOnce(p).taken = p /\ Delay(p).taken = p /\ Linked(p).taken = p
  BY DEF AtOnce, Delay, Linked

\* What the comparing opcodes decide, variant by variant, as the order of two
\* numbers.
LEMMA ComparingTable ==
  ASSUME NEW i, NEW x, NEW y
  PROVE  /\ i.op = "bgez" => (Decide(i, x, y).taken <=> Signed(x) >= 0)
         /\ i.op = "bltz" => (Decide(i, x, y).taken <=> Signed(x) < 0)
         /\ i.op = "pop06" /\ i.rt = 0 => (Decide(i, x, y).taken <=> Signed(x) <= 0)
         /\ i.op = "pop07" /\ i.rt = 0 => (Decide(i, x, y).taken <=> Signed(x) > 0)
         /\ i.op \in {"pop06", "pop26"} /\ i.rt # 0 /\ i.rs = 0 =>
              (Decide(i, x, y).taken <=> Signed(y) <= 0)
         /\ i.op \in {"pop07", "pop27"} /\ i.rt # 0 /\ i.rs = 0 =>
              (Decide(i, x, y).taken <=> Signed(y) > 0)
         /\ i.op \in {"pop06", "pop26"} /\ i.rt # 0 /\ i.rs = i.rt =>
              (Decide(i, x, y).taken <=> Signed(y) >= 0)
         /\ i.op \in {"pop07", "pop27"} /\ i.rt # 0 /\ i.rs = i.rt =>
              (Decide(i, x, y).taken <=> Signed(y) < 0)
         /\ i.rt # 0 /\ i.rs # 0 /\ i.rs # i.rt =>
              /\ i.op = "pop06" => (Decide(i, x, y).taken <=> x >= y)
              /\ i.op = "pop07" => (Decide(i, x, y).taken <=> x < y)
              /\ i.op = "pop26" => (Decide(i, x, y).taken <=> Signed(x) >= Signed(y))
              /\ i.op = "pop27" => (Decide(i, x, y).taken <=> Signed(x) < Signed(y))
  <1> USE DEF Decide, ImmBranchOps, LongOps, RegimmOps
  <1>1. /\ i.op = "bgez" => (Decide(i, x, y).taken <=> Signed(x) >= 0)
        /\ i.op = "bltz" => (Decide(i, x, y).taken <=> Signed(x) < 0)
    BY DEF RegimmDecision, Delay
  <1>2. /\ i.op = "pop06" => Decide(i, x, y) = Pop06(i, x, y)
        /\ i.op = "pop07" => Decide(i, x, y) = Pop07(i, x, y)
        /\ i.op = "pop26" => Decide(i, x, y) = Pop26(i, x, y)
        /\ i.op = "pop27" => Decide(i, x, y) = Pop27(i, x, y)
    BY DEF ImmDecision
  <1> HIDE DEF Decide, ImmBranchOps, LongOps, RegimmOps
  <1>3. i.op = "pop06" =>
          /\ i.rt = 0 => (Decide(i, x, y).taken <=> Signed(x) <= 0)
          /\ i.rt # 0 /\ i.rs = 0 => (Decide(i, x, y).taken <=> Signed(y) <= 0)
          /\ i.rt # 0 /\ i.rs = i.rt => (Decide(i, x, y).taken <=> Signed(y) >= 0)
          /\ i.rt # 0 /\ i.rs # 0 /\ i.rs # i.rt => (Decide(i, x, y).taken <=> x >= y)
    <2>1. ASSUME i.op = "pop06", i.rt = 0
          PROVE  Decide(i, x, y).taken <=> Signed(x) <= 0
      <3>1. Decide(i, x, y) = Delay(Signed(x) <= 0)  BY <1>2, <2>1 DEF Pop06
      <3>2. Delay(Signed(x) <= 0).taken = (Signed(x) <= 0)  BY Taken
      <3> QED  BY <3>1, <3>2, Zenon
    <2>2. ASSUME i.op = "pop06", i.rt # 0, i.rs = 0
          PROVE  Decide(i, x, y).taken <=> Signed(y) <= 0
      <3>1. Decide(i, x, y) = Linked(Signed(y) <= 0)  BY <1>2, <2>2 DEF Pop06
      <3>2. Linked(Signed(y) <= 0).taken = (Signed(y) <= 0)  BY Taken
      <3> QED  BY <3>1, <3>2, Zenon
    <2>3. ASSUME i.op = "pop06", i.rt # 0, i.rs = i.rt
          PROVE  Decide(i, x, y).taken <=> Signed(y) >= 0
      <3>1. Decide(i, x, y) = Linked(Signed(y) >= 0)  BY <1>2, <2>3 DEF Pop06
      <3>2. Linked(Signed(y) >= 0).taken = (Signed(y) >= 0)  BY Taken
      <3> QED  BY <3>1, <3>2, Zenon
    <2>4. ASSUME i.op = "pop06", i.rt # 0, i.rs # 0, i.rs # i.rt
          PROVE  Decide(i, x, y).taken <=> x >= y
      <3>1. Decide(i, x, y) = AtOnce(x >= y)  BY <1>2, <2>4 DEF Pop06
      <3>2. AtOnce(x >= y).taken = (x >= y)  BY Taken
      <3> QED  BY <3>1, <3>2, Zenon
    <2> QED  BY <2>1, <2>2, <2>3, <2>4
  <1>4. i.op = "pop07" =>
          /\ i.rt = 0 => (Decide(i, x, y).taken <=> Signed(x) > 0)
          /\ i.rt # 0 /\ i.rs = 0 => (Decide(i, x, y).taken <=> Signed(y) > 0)
          /\ i.rt # 0 /\ i.rs = i.rt => (Decide(i, x, y).taken <=> Signed(y) < 0)
          /\ i.rt # 0 /\ i.rs # 0 /\ i.rs # i.rt => (Decide(i, x, y).taken <=> x < y)
    <2>1. ASSUME i.op = "pop07", i.rt = 0
          PROVE  Decide(i, x, y).taken <=> Signed(x) > 0
      <3>1. Decide(i, x, y) = Delay(Signed(x) > 0)  BY <1>2, <2>1 DEF Pop07
      <3>2. Delay(Signed(x) > 0).taken = (Signed(x) > 0)  BY Taken
      <3> QED  BY <3>1, <3>2, Zenon
    <2>2. ASSUME i.op = "pop07", i.rt # 0, i.rs = 0
          PROVE  Decide(i, x, y).taken <=> Signed(y) > 0
      <3>1. Decide(i, x, y) = Linked(Signed(y) > 0)  BY <1>2, <2>2 DEF Pop07
      <3>2. Linked(Signed(y) > 0).taken = (Signed(y) > 0)  BY Taken
      <3> QED  BY <3>1, <3>2, Zenon
    <2>3. ASSUME i.op = "pop07", i.rt # 0, i.rs = i.rt
          PROVE  Decide(i, x, y).taken <=> Signed(y) < 0
      <3>1. Decide(i, x, y) = Linked(Signed(y) < 0)  BY <1>2, <2>3 DEF Pop07
      <3>2. Linked(Signed(y) < 0).taken = (Signed(y) < 0)  BY Taken
      <3> QED  BY <3>1, <3>2, Zenon
    <2>4. ASSUME i.op = "pop07", i.rt # 0, i.rs # 0, i.rs # i.rt
          PROVE  Decide(i, x, y).taken <=> x < y
      <3>1. Decide(i, x, y) = AtOnce(x < y)  BY <1>2, <2>4 DEF Pop07
      <3>2. AtOnce(x < y).taken = (x < y)  BY Taken
      <3> QED  BY <3>1, <3>2, Zenon
    <2> QED  BY <2>1, <2>2, <2>3, <2>4
  <1>5. i.op = "pop26" =>
          /\ i.rt # 0 /\ i.rs = 0 => (Decide(i, x, y).taken <=> Signed(y) <= 0)
          /\ i.rt # 0 /\ i.rs = i.rt => (Decide(i, x, y).taken <=> Signed(y) >= 0)
          /\ i.rt # 0 /\ i.rs # 0 /\ i.rs # i.rt => (Decide(i, x, y).taken <=> Signed(x) >= Signed(y))
    <2>1. ASSUME i.op = "pop26", i.rt # 0, i.rs = 0
          PROVE  Decide(i, x, y).taken <=> Signed(y) <= 0
      <3>1. Decide(i, x, y) = AtOnce(Signed(y) <= 0)  BY <1>2, <2>1 DEF Pop26
      <3>2. AtOnce(Signed(y) <= 0).taken = (Signed(y) <= 0)  BY Taken
      <3> QED  BY <3>1, <3>2, Zenon
    <2>2. ASSUME i.op = "pop26", i.rt # 0, i.rs = i.rt
          PROVE  Decide(i, x, y).taken <=> Signed(y) >= 0
      <3>1. Decide(i, x, y) = AtOnce(Signed(y) >= 0)  BY <1>2, <2>2 DEF Pop26
      <3>2. AtOnce(Signed(y) >= 0).taken = (Signed(y) >= 0)  BY Taken
      <3> QED  BY <3>1, <3>2, Zenon
    <2>3. ASSUME i.op = "pop26", i.rt # 0, i.rs # 0, i.rs # i.rt
          PROVE  Decide(i, x, y).taken <=> Signed(x) >= Signed(y)
      <3>1. Decide(i, x, y) = AtOnce(Signed(x) >= Signed(y))  BY <1>2, <2>3 DEF Pop26
      <3>2. AtOnce(Signed(x) >= Signed(y)).taken = (Signed(x) >= Signed(y))  BY Taken
      <3> QED  BY <3>1, <3>2, Zenon
    <2> QED  BY <2>1, <2>2, <2>3
  <1>6. i.op = "pop27" =>
          /\ i.rt # 0 /\ i.rs = 0 => (Decide(i, x, y).taken <=> Signed(y) > 0)
          /\ i.rt # 0 /\ i.rs = i.rt => (Decide(i, x, y).taken <=> Signed(y) < 0)
          /\ i.rt # 0 /\ i.rs # 0 /\ i.rs # i.rt => (Decide(i, x, y).taken <=> Signed(x) < Signed(y))
    <2>1. ASSUME i.op = "pop27", i.rt # 0, i.rs = 0
          PROVE  Decide(i, x, y).taken <=> Signed(y) > 0
      <3>1. Decide(i, x, y) = AtOnce(Signed(y) > 0)  BY <1>2, <2>1 DEF Pop27
      <3>2. AtOnce(Signed(y) > 0).taken = (Signed(y) > 0)  BY Taken
      <3> QED  BY <3>1, <3>2, Zenon
    <2>2. ASSUME i.op = "pop27", i.rt # 0, i.rs = i.rt
          PROVE  Decide(i, x, y).taken <=> Signed(y) < 0
      <3>1. Decide(i, x, y) = AtOnce(Signed(y) < 0)  BY <1>2, <2>2 DEF Pop27
      <3>2. AtOnce(Signed(y) < 0).taken = (Signed(y) < 0)  BY Taken
      <3> QED  BY <3>1, <3>2, Zenon
    <2>3. ASSUME i.op = "pop27", i.rt # 0, i.rs # 0, i.rs # i.rt
          PROVE  Decide(i, x, y).taken <=> Signed(x) < Signed(y)
      <3>1. Decide(i, x, y) = AtOnce(Signed(x) < Signed(y))  BY <1>2, <2>3 DEF Pop27
      <3>2. AtOnce(Signed(x) < Signed(y)).taken = (Signed(x) < Signed(y))  BY Taken
      <3> QED  BY <3>1, <3>2, Zenon
    <2> QED  BY <2>1, <2>2, <2>3
  <1> QED  BY <1>1, <1>3, <1>4, <1>5, <1>6

\* Every branch on an order decides as SLT, or SLTU for BGEUC and BLTUC, of the
\* two values its mnemonic compares, in the direction of its mnemonic
\* (executor.hpp:315-376, 428-473, 773-790), for every word width, all operands
\* and all register numbers.
THEOREM BranchComparisonsOrder == Spec => []ComparisonsOrder
  <1>1. Decided => ComparisonsOrder
    <2> SUFFICES ASSUME Decided, OrdersOperands
                 PROVE  /\ RTypeOutcomes(SetOnLess, Compared[1], Compared[2])
                             \in {{0}, {1}}
                        /\ decision.taken <=>
                             RTypeOutcomes(SetOnLess, Compared[1], Compared[2])
                               = {Flag(ins.op \in {"pop07", "pop27", "bltz"})}
      BY DEF ComparisonsOrder
    <2> DEFINE l == Compared[1]
               r == Compared[2]
               inOrder == IF SetOnLess.op = "sltu" THEN l < r
                                                   ELSE Signed(l) < Signed(r)
    <2>1. /\ ins \in BranchInstr /\ s \in Word /\ t \in Word
          /\ decision = Decide(ins, s, t)
      BY DEF Decided, OrdersOperands, Fetched
    <2>2. /\ s \in Int /\ t \in Int /\ Signed(s) \in Int /\ Signed(t) \in Int
          /\ Signed(0) = 0
      BY <2>1, WordInt, SignedInt, WordAssumption DEF Signed
    <2>3. SetOnLess.op = IF TwoRegisters /\ ins.op \in {"pop06", "pop07"}
                         THEN "sltu" ELSE "slt"
      BY <2>1 DEF SetOnLess, BranchInstr
    <2>4. RTypeOutcomes(SetOnLess, l, r) = {Flag(inOrder)}
      BY <2>3 DEF RTypeOutcomes, DivisionOps
    <2>5. decision.taken <=> (inOrder <=> ins.op \in {"pop07", "pop27", "bltz"})
      <3> HIDE DEF l, r, inOrder
      <3>1. ins.op \in RegimmOps <=> ins.op \in {"bgez", "bltz"}
        BY DEF RegimmOps
      <3>2. CASE ins.op \in {"bgez", "bltz"}
        <4>1. inOrder <=> (Signed(s) < 0)
          <5>1. Compared = <<s, 0>>  BY <3>1, <3>2 DEF Compared, TwoRegisters
          <5>2. SetOnLess.op = "slt"  BY <2>3, <3>1, <3>2 DEF TwoRegisters
          <5> QED  BY <2>2, <5>1, <5>2 DEF inOrder, l, r
        <4>2. /\ ins.op = "bgez" => (decision.taken <=> Signed(s) >= 0)
              /\ ins.op = "bltz" => (decision.taken <=> Signed(s) < 0)
          BY <2>1, <3>2, ComparingTable
        <4> QED  BY <2>2, <3>2, <4>1, <4>2
      <3>3. CASE ins.op \in {"pop06", "pop07"} /\ ins.rt = 0
        <4>1. inOrder <=> (0 < Signed(s))
          <5>1. Compared = <<0, s>>  BY <3>1, <3>3 DEF Compared, TwoRegisters
          <5>2. SetOnLess.op = "slt"  BY <2>3, <3>1, <3>3 DEF TwoRegisters
          <5> QED  BY <2>2, <5>1, <5>2 DEF inOrder, l, r
        <4>2. /\ ins.op = "pop06" => (decision.taken <=> Signed(s) <= 0)
              /\ ins.op = "pop07" => (decision.taken <=> Signed(s) > 0)
          BY <2>1, <3>3, ComparingTable
        <4> QED  BY <2>2, <3>3, <4>1, <4>2
      <3>4. CASE /\ ins.op \in {"pop06", "pop07", "pop26", "pop27"}
                 /\ ins.rt # 0 /\ ins.rs = 0
        <4>1. inOrder <=> (0 < Signed(t))
          <5>1. Compared = <<0, t>>  BY <3>1, <3>4 DEF Compared, TwoRegisters
          <5>2. SetOnLess.op = "slt"  BY <2>3, <3>1, <3>4 DEF TwoRegisters
          <5> QED  BY <2>2, <5>1, <5>2 DEF inOrder, l, r
        <4>2. /\ ins.op \in {"pop06", "pop26"} => (decision.taken <=> Signed(t) <= 0)
              /\ ins.op \in {"pop07", "pop27"} => (decision.taken <=> Signed(t) > 0)
          BY <2>1, <3>4, ComparingTable
        <4> QED  BY <2>2, <3>4, <4>1, <4>2
      <3>5. CASE /\ ins.op \in {"pop06", "pop07", "pop26", "pop27"}
                 /\ ins.rt # 0 /\ ins.rs # 0 /\ ins.rs = ins.rt
        <4>1. inOrder <=> (Signed(t) < 0)
          <5>1. Compared = <<t, 0>>  BY <3>1, <3>5 DEF Compared, TwoRegisters
          <5>2. SetOnLess.op = "slt"  BY <2>3, <3>1, <3>5 DEF TwoRegisters
          <5> QED  BY <2>2, <5>1, <5>2 DEF inOrder, l, r
        <4>2. /\ ins.op \in {"pop06", "pop26"} => (decision.taken <=> Signed(t) >= 0)
              /\ ins.op \in {"pop07", "pop27"} => (decision.taken <=> Signed(t) < 0)
          BY <2>1, <3>5, ComparingTable
        <4> QED  BY <2>2, <3>5, <4>1, <4>2
      <3>6. CASE /\ ins.op \in {"pop06", "pop07"}
                 /\ ins.rt # 0 /\ ins.rs # 0 /\ ins.rs # ins.rt
        <4>1. inOrder <=> (s < t)
          <5>1. Compared = <<s, t>>  BY <3>1, <3>6 DEF Compared, TwoRegisters
          <5>2. SetOnLess.op = "sltu"  BY <2>3, <3>1, <3>6 DEF TwoRegisters
          <5> QED  BY <2>2, <5>1, <5>2 DEF inOrder, l, r
        <4>2. /\ ins.op = "pop06" => (decision.taken <=> s >= t)
              /\ ins.op = "pop07" => (decision.taken <=> s < t)
          BY <2>1, <3>6, ComparingTable
        <4> QED  BY <2>2, <3>6, <4>1, <4>2
      <3>7. CASE /\ ins.op \in {"pop26", "pop27"}
                 /\ ins.rt # 0 /\ ins.rs # 0 /\ ins.rs # ins.rt
        <4>1. inOrder <=> (Signed(s) < Signed(t))
          <5>1. Compared = <<s, t>>  BY <3>1, <3>7 DEF Compared, TwoRegisters
          <5>2. SetOnLess.op = "slt"  BY <2>3, <3>1, <3>7 DEF TwoRegisters
          <5> QED  BY <2>2, <5>1, <5>2 DEF inOrder, l, r
        <4>2. /\ ins.op = "pop26" => (decision.taken <=> Signed(s) >= Signed(t))
              /\ ins.op = "pop27" => (decision.taken <=> Signed(s) < Signed(t))
          BY <2>1, <3>7, ComparingTable
        <4> QED  BY <2>2, <3>7, <4>1, <4>2
      <3> QED
        BY <3>2, <3>3, <3>4, <3>5, <3>6, <3>7 DEF OrdersOperands, OrderOps
    <2>6. /\ {Flag(inOrder)} \in {{0}, {1}}
          /\ \A p \in BOOLEAN : {Flag(inOrder)} = {Flag(p)} <=> (inOrder <=> p)
      <3> HIDE DEF inOrder
      <3> QED  BY DEF Flag
    <2>7. (ins.op \in {"pop07", "pop27", "bltz"}) \in BOOLEAN  OBVIOUS
    <2> HIDE DEF l, r, inOrder
    <2>8. RTypeOutcomes(SetOnLess, l, r) \in {{0}, {1}}  BY <2>4, <2>6, Zenon
    <2>9. decision.taken <=> RTypeOutcomes(SetOnLess, l, r)
                               = {Flag(ins.op \in {"pop07", "pop27", "bltz"})}
      BY <2>4, <2>5, <2>6, <2>7, Zenon
    <2> QED  BY <2>8, <2>9 DEF l, r
  <1> QED  BY <1>1, DecidedInvariant, PTL

-----------------------------------------------------------------------------
(* The values of the arithmetic instructions *)

LEMMA RTypeTable ==
  ASSUME NEW i, NEW x, NEW y
  PROVE  /\ i.op \in {"add", "addu"} => RTypeOutcomes(i, x, y) = {Add(x, y)}
         /\ i.op \in {"sub", "subu"} => RTypeOutcomes(i, x, y) = {Wrap(x - y)}
         /\ i.op \in {"sop30", "sop31"} =>
              RTypeOutcomes(i, x, y) = Multiply(i.op, i.sa, x, y)
         /\ i.op \in DivisionOps =>
              RTypeOutcomes(i, x, y) = Divide(i.op, i.sa, x, y)
         /\ i.op \in {"and", "nor", "or", "xor"} =>
              RTypeOutcomes(i, x, y) = Logic(i.op, x, y)
         /\ i.op = "slt" =>
              RTypeOutcomes(i, x, y) = {Flag(Signed(x) < Signed(y))}
         /\ i.op = "sltu" => RTypeOutcomes(i, x, y) = {Flag(x < y)}
         /\ i.op \in {"sll", "sllv", "sra", "srav", "srl", "srlv"} =>
              RTypeOutcomes(i, x, y) = Shift(i, x, y)
         /\ i.op = "seleqz" => RTypeOutcomes(i, x, y) = {IF y # 0 THEN 0 ELSE x}
         /\ i.op = "selnez" => RTypeOutcomes(i, x, y) = {IF y # 0 THEN x ELSE 0}
         /\ i.op = "clz" => RTypeOutcomes(i, x, y) = LeadingZeros(x)
         /\ i.op = "clo" => RTypeOutcomes(i, x, y) = LeadingOnes(x)
  BY DEF RTypeOutcomes, DivisionOps

LEMMA WrapTwice == ASSUME NEW n \in Int PROVE Wrap(Wrap(n)) = Wrap(n)
  BY WrapWord, WrapId

\* The high half of a product of words read either way fits the word read the
\* same way.
LEMMA HighHalf ==
  /\ \A x, y \in Word : x * y \in Int /\ (x * y) \div MODULUS \in Word
  /\ \A x, y \in Word : LET p == Signed(x) * Signed(y)
                        IN  /\ p \in Int /\ p \div MODULUS \in Int
                            /\ -SIGN_BIT <= p \div MODULUS
                            /\ p \div MODULUS < SIGN_BIT
  <1> DEFINE S == SIGN_BIT
  <1>0. S \in Nat \ {0} /\ MODULUS = 2 * S  BY WordAssumption DEF MODULUS
  <1> HIDE DEF S
  <1>1. \A x, y \in 0 .. 2 * S - 1 :
          x * y \in Nat /\ (x * y) \div (2 * S) \in 0 .. 2 * S - 1
    <2> SUFFICES ASSUME NEW x \in 0 .. 2 * S - 1, NEW y \in 0 .. 2 * S - 1
                 PROVE  x * y \in Nat /\ (x * y) \div (2 * S) \in 0 .. 2 * S - 1
      OBVIOUS
    <2>1. x \in Nat /\ y \in Nat /\ 2 * S \in Nat \ {0}  BY <1>0
    <2>2. x * y <= x * (2 * S)  BY <1>0, <2>1
    <2>3. x * (2 * S) < (2 * S) * (2 * S)  BY <1>0, <2>1
    <2> DEFINE p == x * y  m == 2 * S
    <2>4. p \in Nat /\ m \in Nat \ {0} /\ p < m * m  BY <2>1, <2>2, <2>3
    <2> HIDE DEF p, m
    <2> DEFINE q == p \div m  r == p % m
    <2>5. q \in Nat /\ r \in 0 .. m - 1 /\ p = m * q + r  BY <2>4
    <2> HIDE DEF q, r
    <2>6. q < m
      <3> SUFFICES ASSUME q >= m PROVE FALSE  BY <2>4, <2>5
      <3>1. m * q >= m * m  BY <2>4, <2>5
      <3> QED  BY <2>4, <2>5, <3>1
    <2> QED  BY <2>4, <2>5, <2>6 DEF p, m, q
  <1>2. \A a, b \in -S .. S - 1 :
          /\ a * b \in Int /\ (a * b) \div (2 * S) \in Int
          /\ -S <= (a * b) \div (2 * S) /\ (a * b) \div (2 * S) < S
    <2> SUFFICES ASSUME NEW a \in -S .. S - 1, NEW b \in -S .. S - 1
                 PROVE  /\ a * b \in Int /\ (a * b) \div (2 * S) \in Int
                        /\ -S <= (a * b) \div (2 * S) /\ (a * b) \div (2 * S) < S
      OBVIOUS
    <2>0. a \in Int /\ b \in Int  BY <1>0
    <2>1. (S - a) * (S + b) >= 0 /\ (S + a) * (S - b) >= 0
          /\ (S + a) * (S + b) >= 0 /\ (S - a) * (S - b) >= 0
      <3>1. \A u, v \in Int : u >= 0 /\ v >= 0 => u * v >= 0  OBVIOUS
      <3> QED  BY <1>0, <3>1
    <2> DEFINE p == a * b  z == S * S
    <2>2. p \in Int /\ z \in Int /\ -z <= p /\ p <= z
      <3>1. (S - a) * (S + b) + (S + a) * (S - b) = 2 * z - 2 * p  BY <1>0, <2>0
      <3>2. (S + a) * (S + b) + (S - a) * (S - b) = 2 * z + 2 * p  BY <1>0, <2>0
      <3> QED  BY <1>0, <2>0, <2>1, <3>1, <3>2
    <2> HIDE DEF p
    <2> DEFINE q == p \div (2 * S)  r == p % (2 * S)
    <2>3. /\ q \in Int /\ r \in 0 .. (2 * S) - 1
          /\ p = (2 * S) * q + r
      <3>1. 2 * S \in Nat \ {0}  BY <1>0
      <3> QED  BY <2>2, <3>1, DivMod
    <2> HIDE DEF q, r
    <2>4. q < S
      <3> SUFFICES ASSUME q >= S PROVE FALSE  BY <1>0, <2>3
      <3>1. (2 * S) * q >= (2 * S) * S  BY <1>0, <2>3
      <3>2. (2 * S) * S = 2 * z /\ z > 0  BY <1>0
      <3> QED  BY <2>2, <2>3, <3>1, <3>2, <1>0
    <2>5. -S <= q
      <3> SUFFICES ASSUME q <= -S - 1 PROVE FALSE  BY <1>0, <2>3
      <3>1. (2 * S) * q <= (2 * S) * (-S - 1)  BY <1>0, <2>3
      <3>2. (2 * S) * (-S - 1) = -(2 * z) - 2 * S /\ z > 0  BY <1>0
      <3> QED  BY <2>2, <2>3, <3>1, <3>2, <1>0
    <2> QED  BY <2>2, <2>3, <2>4, <2>5 DEF p, q
  <1>3. \A x \in Word : Signed(x) \in -S .. S - 1
    BY <1>0, SignedBounds DEF S
  <1>4. \A x, y \in Word : x * y \in Int /\ (x * y) \div MODULUS \in Word
    BY <1>0, <1>1 DEF Word
  <1>5. \A x, y \in Word : LET p == Signed(x) * Signed(y)
                           IN  /\ p \in Int /\ p \div MODULUS \in Int
                               /\ -S <= p \div MODULUS /\ p \div MODULUS < S
    <2> SUFFICES ASSUME NEW a \in -S .. S - 1, NEW b \in -S .. S - 1
                 PROVE  /\ a * b \in Int /\ (a * b) \div MODULUS \in Int
                        /\ -S <= (a * b) \div MODULUS
                        /\ (a * b) \div MODULUS < S
      BY <1>3
    <2> QED  BY <1>0, <1>2
  <1> QED  BY <1>4, <1>5 DEF S

\* The two results of a recorded SOP instruction by the arithmetic of its
\* opcode.
LEMMA SopResults ==
  ASSUME Executed, ins.op \in {"sop30", "sop31"} \cup DivisionOps
  PROVE  /\ s \in Word /\ t \in Word
         /\ ins.op \in {"sop30", "sop31"} =>
              /\ out = Multiply(ins.op, ins.sa, s, t)
              /\ First = Multiply(ins.op, 2, s, t)
              /\ Second = Multiply(ins.op, 3, s, t)
         /\ ins.op \in DivisionOps =>
              /\ out = Divide(ins.op, ins.sa, s, t)
              /\ First = Divide(ins.op, 2, s, t)
              /\ Second = Divide(ins.op, 3, s, t)
  <1>1. /\ s \in Word /\ t \in Word /\ ins \in RTypeInstr
        /\ out = RTypeOutcomes(ins, s, t)
    BY RecordedByOp DEF RTypeDataOps
  <1> DEFINE one == [ins EXCEPT !.sa = 2]  two == [ins EXCEPT !.sa = 3]
  <1>2. one.op = ins.op /\ one.sa = 2 /\ two.op = ins.op /\ two.sa = 3
    BY <1>1 DEF RTypeInstr
  <1>3. First = RTypeOutcomes(one, s, t) /\ Second = RTypeOutcomes(two, s, t)
    BY DEF First, Second
  <1> HIDE DEF one, two
  <1>4. CASE ins.op \in {"sop30", "sop31"}
    <2> DEFINE products == {"sop30", "sop31"}
    <2>0. ins.op \in products  BY <1>4
    <2>1. \A i : i.op \in products =>
            RTypeOutcomes(i, s, t) = Multiply(i.op, i.sa, s, t)
      BY RTypeTable
    <2> HIDE DEF products
    <2>2. /\ out = Multiply(ins.op, ins.sa, s, t)
          /\ First = Multiply(ins.op, 2, s, t)
          /\ Second = Multiply(ins.op, 3, s, t)
      BY <1>1, <1>2, <1>3, <2>0, <2>1, Zenon
    <2> QED  BY <1>1, <1>4, <2>2 DEF DivisionOps
  <1>5. CASE ins.op \in DivisionOps
    <2>1. \A i : i.op \in DivisionOps =>
            RTypeOutcomes(i, s, t) = Divide(i.op, i.sa, s, t)
      BY RTypeTable
    <2>2. /\ out = Divide(ins.op, ins.sa, s, t)
          /\ First = Divide(ins.op, 2, s, t)
          /\ Second = Divide(ins.op, 3, s, t)
      BY <1>1, <1>2, <1>3, <1>5, <2>1, Zenon
    <2> QED  BY <1>1, <1>5, <2>2 DEF DivisionOps
  <1> QED  BY <1>4, <1>5

\* MUL and MUH, and MULU and MUHU, deliver the low and the high half of the
\* exact product of any two operands of any width: no bit of it is lost
\* (executor.hpp:31-37, 60-101).
THEOREM ProductExactAlways == Spec => []ProductExact
  <1>1. Executed => ProductExact
    <2> SUFFICES ASSUME Executed, ins.op \in {"sop30", "sop31"},
                        NEW lo \in First, NEW hi \in Second
                 PROVE  /\ out = {IF ins.sa = 2 THEN lo ELSE hi}
                        /\ ins.op = "sop30" =>
                             Signed(hi) * MODULUS + lo = Signed(s) * Signed(t)
                        /\ ins.op = "sop31" => hi * MODULUS + lo = s * t
      BY DEF ProductExact
    <2>1. /\ s \in Word /\ t \in Word
          /\ out = Multiply(ins.op, ins.sa, s, t)
          /\ lo \in Multiply(ins.op, 2, s, t)
          /\ hi \in Multiply(ins.op, 3, s, t)
      BY SopResults
    <2>m. MODULUS \in Nat \ {0}  BY PowWord
    <2>d. \A p \in Int : (p \div MODULUS) * MODULUS + (p % MODULUS) = p
      BY <2>m
    <2>2. CASE ins.op = "sop30"
      <3> DEFINE p == Signed(s) * Signed(t)
      <3>1. /\ p \in Int /\ p \div MODULUS \in Int
            /\ -SIGN_BIT <= p \div MODULUS /\ p \div MODULUS < SIGN_BIT
        BY <2>1, HighHalf
      <3>2. /\ lo = Wrap(p) /\ hi = Wrap(Wrap(p \div MODULUS))
            /\ out = {IF ins.sa = 2 THEN lo ELSE hi}
        BY <2>1, <2>2 DEF Multiply, Sop, HiMul
      <3> HIDE DEF p
      <3>3. Signed(hi) = p \div MODULUS  BY <3>1, <3>2, WrapTwice, SignedWrap
      <3>4. Signed(hi) * MODULUS + lo = p  BY <2>d, <3>1, <3>2, <3>3 DEF Wrap
      <3> QED  BY <2>2, <3>2, <3>4 DEF p
    <2>3. CASE ins.op = "sop31"
      <3> DEFINE p == s * t
      <3>1. p \in Int /\ p \div MODULUS \in Word  BY <2>1, HighHalf
      <3>2. /\ lo = Wrap(p) /\ hi = Wrap(Wrap(p \div MODULUS))
            /\ out = {IF ins.sa = 2 THEN lo ELSE hi}
        BY <2>1, <2>3 DEF Multiply, Sop, HiMul
      <3> HIDE DEF p
      <3>3. hi = p \div MODULUS  BY <3>1, <3>2, WrapId
      <3>4. hi * MODULUS + lo = p  BY <2>d, <3>1, <3>2, <3>3 DEF Wrap
      <3> QED  BY <2>3, <3>2, <3>4 DEF p
    <2> QED  BY <2>2, <2>3
  <1> QED  BY <1>1, ExecutedInvariant, PTL

\* Truncating division: the remainder is smaller than the divisor and has the
\* dividend's sign, and both results fit unless INT_MIN is divided by -1.
LEMMA Truncation ==
  ASSUME NEW a \in Int, NEW b \in Int, b # 0
  PROVE  LET q == Quotient(a, b)
             r == Remainder(a, b)
         IN  /\ q \in Int /\ r \in Int
             /\ q * b + r = a /\ Abs(r) < Abs(b) /\ r * a >= 0
             /\ Abs(r) <= Abs(a)
             /\ -Abs(a) <= q /\ q <= Abs(a)
             /\ (q = Abs(a) => a = 0 \/ b = 1 \/ (b = -1 /\ a < 0))
             /\ (a < 0 => (r <= 0)) /\ (a >= 0 => r >= 0)
  <1> DEFINE A == Abs(a)  B == Abs(b)  d == A \div B  e == A % B
  <1>1. A \in Nat /\ B \in Nat \ {0}  BY DEF Abs
  <1>2. d \in Nat /\ e \in 0 .. B - 1 /\ A = B * d + e
    <2> HIDE DEF A, B
    <2> QED  BY <1>1
  <1>3. B * d >= d /\ (d > 0 /\ B > 1 => B * d > d)
    <2> HIDE DEF A, B, d
    <2>1. \A x, y \in Nat : (y > 0 => y * x >= x) /\ (x > 0 /\ y > 1 => y * x > x)
      <3> SUFFICES ASSUME NEW x \in Nat, NEW y \in Nat
                   PROVE  (y > 0 => y * x >= x) /\ (x > 0 /\ y > 1 => y * x > x)
        OBVIOUS
      <3>1. y > 0 => (y - 1) * x >= 0  OBVIOUS
      <3>2. x > 0 /\ y > 1 => (y - 1) * x > 0  OBVIOUS
      <3>3. (y - 1) * x = y * x - x  OBVIOUS
      <3> QED  BY <3>1, <3>2, <3>3
    <2> QED  BY <1>1, <1>2, <2>1
  <1>4. d <= A /\ e <= A /\ (d = A => A = 0 \/ B = 1)
    <2> HIDE DEF A, B, d, e
    <2> DEFINE z == B * d
    <2>1. z \in Nat  BY <1>1, <1>2
    <2> HIDE DEF z
    <2>2. A = z + e /\ z >= d /\ (d > 0 /\ B > 1 => z > d)
      BY <1>2, <1>3 DEF z
    <2> QED  BY <1>1, <1>2, <2>1, <2>2
  <1>5. (a >= 0 => A = a) /\ (a < 0 => A = -a)  BY DEF Abs
  <1>6. (b > 0 => B = b) /\ (b < 0 => B = -b)  BY DEF Abs
  <1>7. /\ a >= 0 /\ b > 0 => Quotient(a, b) = d
        /\ a < 0 /\ b < 0 => Quotient(a, b) = d
        /\ a >= 0 /\ b < 0 => Quotient(a, b) = -d
        /\ a < 0 /\ b > 0 => Quotient(a, b) = -d
    <2>1. /\ a >= 0 /\ b > 0 => ((a < 0) = (b < 0))
          /\ a < 0 /\ b < 0 => ((a < 0) = (b < 0))
          /\ a >= 0 /\ b < 0 => ((a < 0) # (b < 0))
          /\ a < 0 /\ b > 0 => ((a < 0) # (b < 0))
      OBVIOUS
    <2> QED  BY <2>1, Zenon DEF Quotient, d, A, B
  <1>8. Remainder(a, b) = a - b * Quotient(a, b)  BY DEF Remainder
  <1>9. \A n \in Int : Abs(n) = IF n < 0 THEN -n ELSE n  BY DEF Abs
  <1> HIDE DEF d, e
  <1>a. \A n \in Nat : (n * A >= 0) /\ ((-n) * (-A) >= 0)
    <2> HIDE DEF A
    <2> QED  BY <1>1
  <1>10. CASE a >= 0 /\ b > 0
    <2>1. Quotient(a, b) = d /\ Remainder(a, b) = a - b * d /\ A = a /\ B = b
      BY <1>5, <1>6, <1>7, <1>8, <1>10
    <2> HIDE DEF A, B
    <2>2. Remainder(a, b) = e /\ d * b + e = a  BY <1>1, <1>2, <2>1
    <2>3. Abs(e) = e  BY <1>2, <1>9
    <2>4. e * a >= 0  BY <1>2, <1>a, <2>1
    <2>5. /\ Quotient(a, b) = d /\ Remainder(a, b) = e /\ Abs(e) = e
          /\ Abs(a) = A /\ Abs(b) = B
      BY <2>1, <2>2, <2>3 DEF A, B
    <2>6. /\ d \in Int /\ e \in Int
          /\ e < B /\ e <= A /\ -A <= d /\ d <= A
          /\ (d = A => a = 0 \/ b = 1 \/ (b = -1 /\ a < 0))
          /\ (a < 0 => (e <= 0)) /\ (a >= 0 => e >= 0)
      BY <1>1, <1>2, <1>4, <1>10, <2>1
    <2> QED  BY <2>2, <2>4, <2>5, <2>6
  <1>11. CASE a < 0 /\ b < 0
    <2>1. Quotient(a, b) = d /\ Remainder(a, b) = a - b * d /\ -A = a /\ -B = b
      BY <1>5, <1>6, <1>7, <1>8, <1>11
    <2> HIDE DEF A, B
    <2>2. Remainder(a, b) = -e /\ d * b + (-e) = a  BY <1>1, <1>2, <2>1
    <2>3. Abs(-e) = e  BY <1>2, <1>9
    <2>4. (-e) * a >= 0  BY <1>2, <1>a, <2>1
    <2>5. /\ Quotient(a, b) = d /\ Remainder(a, b) = -e /\ Abs(-e) = e
          /\ Abs(a) = A /\ Abs(b) = B
      BY <2>1, <2>2, <2>3 DEF A, B
    <2>6. /\ d \in Int /\ -e \in Int
          /\ e < B /\ e <= A /\ -A <= d /\ d <= A
          /\ (d = A => a = 0 \/ b = 1 \/ (b = -1 /\ a < 0))
          /\ (a < 0 => (-e <= 0)) /\ (a >= 0 => -e >= 0)
      BY <1>1, <1>2, <1>4, <1>11, <2>1
    <2> QED  BY <2>2, <2>4, <2>5, <2>6
  <1>12. CASE a >= 0 /\ b < 0
    <2>1. Quotient(a, b) = -d /\ Remainder(a, b) = a - b * (-d) /\ A = a /\ -B = b
      BY <1>5, <1>6, <1>7, <1>8, <1>12
    <2> HIDE DEF A, B
    <2>2. Remainder(a, b) = e /\ (-d) * b + e = a  BY <1>1, <1>2, <2>1
    <2>3. Abs(e) = e  BY <1>2, <1>9
    <2>4. e * a >= 0  BY <1>2, <1>a, <2>1
    <2>5. /\ Quotient(a, b) = -d /\ Remainder(a, b) = e /\ Abs(e) = e
          /\ Abs(a) = A /\ Abs(b) = B
      BY <2>1, <2>2, <2>3 DEF A, B
    <2>6. /\ -d \in Int /\ e \in Int
          /\ e < B /\ e <= A /\ -A <= -d /\ -d <= A
          /\ (-d = A => a = 0 \/ b = 1 \/ (b = -1 /\ a < 0))
          /\ (a < 0 => (e <= 0)) /\ (a >= 0 => e >= 0)
      BY <1>1, <1>2, <1>4, <1>12, <2>1
    <2> QED  BY <2>2, <2>4, <2>5, <2>6
  <1>13. CASE a < 0 /\ b > 0
    <2>1. Quotient(a, b) = -d /\ Remainder(a, b) = a - b * (-d) /\ -A = a /\ B = b
      BY <1>5, <1>6, <1>7, <1>8, <1>13
    <2> HIDE DEF A, B
    <2>2. Remainder(a, b) = -e /\ (-d) * b + (-e) = a  BY <1>1, <1>2, <2>1
    <2>3. Abs(-e) = e  BY <1>2, <1>9
    <2>4. (-e) * a >= 0  BY <1>2, <1>a, <2>1
    <2>5. /\ Quotient(a, b) = -d /\ Remainder(a, b) = -e /\ Abs(-e) = e
          /\ Abs(a) = A /\ Abs(b) = B
      BY <2>1, <2>2, <2>3 DEF A, B
    <2>6. /\ -d \in Int /\ -e \in Int
          /\ e < B /\ e <= A /\ -A <= -d /\ -d <= A
          /\ (-d = A => a = 0 \/ b = 1 \/ (b = -1 /\ a < 0))
          /\ (a < 0 => (-e <= 0)) /\ (a >= 0 => -e >= 0)
      BY <1>1, <1>2, <1>4, <1>13, <2>1
    <2> QED  BY <2>2, <2>4, <2>5, <2>6
  <1> QED  BY <1>10, <1>11, <1>12, <1>13

\* DIV and MOD, and DIVU and MODU, agree for all operands of any width, except
\* where the host may trap: dividend = quotient * divisor + remainder, with the
\* remainder smaller than the divisor and of the dividend's sign
\* (executor.hpp:53-58, 112-127).
THEOREM DivisionExactAlways == Spec => []DivisionExact
  <1>1. Executed => DivisionExact
    <2> SUFFICES ASSUME Executed, ins.op \in DivisionOps, t # 0,
                        ~HostMayTrap(ins, s, t),
                        NEW q \in First, NEW r \in Second
                 PROVE  /\ out = {IF ins.sa = 2 THEN q ELSE r}
                        /\ ins.op = "sop32" =>
                             /\ Signed(q) * Signed(t) + Signed(r) = Signed(s)
                             /\ Abs(Signed(r)) < Abs(Signed(t))
                             /\ Signed(r) * Signed(s) >= 0
                        /\ ins.op = "sop33" => q * t + r = s /\ r < t
      BY DEF DivisionExact
    <2>1. /\ s \in Word /\ t \in Word
          /\ out = Divide(ins.op, ins.sa, s, t)
          /\ q \in Divide(ins.op, 2, s, t)
          /\ r \in Divide(ins.op, 3, s, t)
      BY SopResults
    <2>2. CASE ins.op = "sop32"
      <3> DEFINE a == Signed(s)  b == Signed(t)
      <3>1. /\ q = Wrap(Quotient(a, b)) /\ r = Wrap(Remainder(a, b))
            /\ out = {IF ins.sa = 2 THEN q ELSE r}
        BY <2>1, <2>2 DEF Divide, Sop
      <3>2. /\ a \in Int /\ b \in Int /\ b # 0
            /\ -SIGN_BIT <= a /\ a < SIGN_BIT /\ SIGN_BIT \in Nat \ {0}
            /\ ~(a = -SIGN_BIT /\ b = -1)
        BY <2>1, <2>2, WordAssumption DEF Signed, Word, MODULUS, HostMayTrap
      <3> HIDE DEF a, b
      <3> DEFINE x == Quotient(a, b)  y == Remainder(a, b)
      <3>3. /\ x \in Int /\ y \in Int
            /\ x * b + y = a /\ Abs(y) < Abs(b) /\ y * a >= 0
            /\ Abs(y) <= Abs(a)
            /\ -Abs(a) <= x /\ x <= Abs(a)
            /\ (x = Abs(a) => a = 0 \/ b = 1 \/ (b = -1 /\ a < 0))
            /\ (a < 0 => (y <= 0)) /\ (a >= 0 => y >= 0)
        BY <3>2, Truncation
      <3> HIDE DEF x, y
      <3>4. x * 1 = x  BY <3>3
      <3>5. -SIGN_BIT <= x /\ x < SIGN_BIT
        <4>0. x \in Int /\ -Abs(a) <= x /\ x <= Abs(a)  BY <3>3
        <4>1. CASE a >= 0  BY <3>2, <4>0, <4>1 DEF Abs
        <4>2. CASE a < 0 /\ a # -SIGN_BIT  BY <3>2, <4>0, <4>2 DEF Abs
        <4>3. CASE a = -SIGN_BIT
          <5>1. Abs(a) = SIGN_BIT /\ a # 0  BY <3>2, <4>3 DEF Abs
          <5>2. x # SIGN_BIT
            <6> SUFFICES ASSUME x = SIGN_BIT PROVE FALSE  OBVIOUS
            <6>1. b = 1  BY <3>2, <3>3, <4>3, <5>1
            <6>2. x + y = a  BY <3>3, <6>1
            <6>3. Abs(b) = 1  BY <6>1 DEF Abs
            <6>4. y = 0  BY <3>3, <6>3 DEF Abs
            <6> QED  BY <3>2, <3>3, <4>3, <6>2, <6>4
          <5> QED  BY <3>2, <3>3, <5>1, <5>2
        <4> QED  BY <3>2, <4>1, <4>2, <4>3
      <3>6. -SIGN_BIT <= y /\ y < SIGN_BIT
        BY <3>2, <3>3 DEF Abs
      <3>7. Signed(q) = x /\ Signed(r) = y
        BY <3>1, <3>3, <3>5, <3>6, SignedWrap DEF x, y
      <3>8. /\ Signed(q) * b + Signed(r) = a
             /\ Abs(Signed(r)) < Abs(b)
             /\ Signed(r) * a >= 0
        BY <3>3, <3>7
      <3> QED  BY <2>2, <3>1, <3>8 DEF a, b
    <2>3. CASE ins.op = "sop33"
      <3>1. /\ q = Wrap(s \div t) /\ r = Wrap(s % t)
            /\ out = {IF ins.sa = 2 THEN q ELSE r}
        BY <2>1, <2>3 DEF Divide, Sop
      <3>2. /\ s \in Nat /\ t \in Nat \ {0} /\ MODULUS \in Nat \ {0}
            /\ s < MODULUS /\ t < MODULUS
        BY <2>1, PowWord DEF Word
      <3>3. ASSUME NEW x \in Nat, NEW y \in Nat \ {0}
            PROVE  /\ x \div y \in Nat /\ x % y \in Nat
                   /\ (x \div y) * y + (x % y) = x
                   /\ (x % y) < y /\ x \div y <= x
        <4> DEFINE k == x \div y  e == x % y
        <4>1. k \in Nat /\ e \in 0 .. y - 1 /\ x = y * k + e  OBVIOUS
        <4> HIDE DEF k, e
        <4>2. k * y >= k  BY <4>1
        <4>3. k * y + e = x /\ k <= x  BY <4>1, <4>2
        <4> QED  BY <4>1, <4>3 DEF k, e
      <3>4. q = s \div t /\ r = s % t
        BY <3>1, <3>2, <3>3, WrapId DEF Word
      <3>5. q * t + r = s /\ r < t  BY <3>2, <3>3, <3>4
      <3> QED  BY <2>3, <3>1, <3>5
    <2> QED  BY <2>2, <2>3 DEF DivisionOps
  <1> QED  BY <1>1, ExecutedInvariant, PTL

-----------------------------------------------------------------------------
(* Shifts *)

LEMMA PlaceOfShift ==
  ASSUME NEW n \in BitIndex
  PROVE  /\ n \in Place /\ WORD_BITS - n \in Place /\ n \in Nat
         /\ WORD_BITS - (WORD_BITS - n) = n
         /\ Pow(n) \in Nat \ {0} /\ Pow(WORD_BITS - n) \in Nat \ {0}
         /\ MODULUS = Pow(n) * Pow(WORD_BITS - n)
  <1>1. /\ n \in Place /\ WORD_BITS - n \in Place /\ n \in Nat
        /\ WORD_BITS - (WORD_BITS - n) = n /\ n <= WORD_BITS
    BY WordAssumption DEF Place, BitIndex
  <1>2. Pow(WORD_BITS) = Pow(n) * Pow(WORD_BITS - n)
    BY <1>1, PowMonotone, WordPow
  <1>3. /\ Pow(n) \in Nat /\ Pow(n) > n
        /\ Pow(WORD_BITS - n) \in Nat /\ Pow(WORD_BITS - n) > WORD_BITS - n
    BY <1>1, PowNat
  <1>4. WORD_BITS - n > 0 /\ n >= 0  BY WordAssumption DEF BitIndex
  <1> QED  BY <1>1, <1>2, <1>3, <1>4, PowWord

\* SRL and ROTR: the quotient, and with it the bits that left below.
LEMMA ShiftRightValue ==
  ASSUME NEW x \in Word, NEW n \in BitIndex, NEW rotate \in BOOLEAN
  PROVE  ShiftRight(x, n, rotate) =
           {IF rotate THEN x \div Pow(n) + (x % Pow(n)) * Pow(WORD_BITS - n)
                      ELSE x \div Pow(n)}
  <1>1. WordOf(Down(Bits[x], n)) = {x \div Pow(n)}
    BY PlaceOfShift, DownWord
  <1>2. x \div Pow(n) \in Word /\ x \div Pow(n) \in 0 .. Pow(WORD_BITS - n) - 1
    BY PlaceOfShift, DivWord
  <1>3. Bits[x \div Pow(n)] = Down(Bits[x], n)
    BY <1>1 DEF WordOf
  <1>4. WordOf(Bits[x \div Pow(n)] \cup Up(Bits[x], WORD_BITS - n))
          = {x \div Pow(n) + (x % Pow(WORD_BITS - (WORD_BITS - n))) * Pow(WORD_BITS - n)}
    <2>1. WORD_BITS - n \in Place  BY PlaceOfShift
    <2> QED  BY <1>2, <2>1, JoinWord
  <1>5. WordOf(Rotated(x, n))
          = {x \div Pow(n) + (x % Pow(n)) * Pow(WORD_BITS - n)}
    BY <1>3, <1>4, PlaceOfShift DEF Rotated
  <1> QED  BY <1>1, <1>5 DEF ShiftRight

\* SRA by a non-zero amount: the floored quotient of the signed value.
LEMMA ShiftRightArithmeticValue ==
  ASSUME NEW x \in Word, NEW n \in BitIndex, n # 0
  PROVE  \E v \in Word : /\ ShiftRightArithmetic(x, n) = {v}
                         /\ Signed(v) = Signed(x) \div Pow(n)
  <1> DEFINE h == x \div Pow(n)
             fill == (WORD_BITS - n) .. (WORD_BITS - 1)
  <1>1. /\ h \in Word /\ h \in 0 .. Pow(WORD_BITS - n) - 1
        /\ WordOf(Down(Bits[x], n)) = {h}
    BY PlaceOfShift, DivWord, DownWord
  <1>2. Bits[h] = Down(Bits[x], n)
    BY <1>1 DEF WordOf
  <1>3. ShiftRightArithmetic(x, n) =
          WordOf(Down(Bits[x], n) \cup (IF x >= SIGN_BIT THEN fill ELSE {}))
    <2>1. SignFill(n) = {fill}  BY DEF SignFill
    <2> QED  BY <2>1 DEF ShiftRightArithmetic
  <1>4. /\ SIGN_BIT \in Nat \ {0} /\ MODULUS = 2 * SIGN_BIT
        /\ x \in Int /\ 0 <= x /\ x < MODULUS
    BY WordAssumption DEF MODULUS, Word
  <1>5. Pow(WORD_BITS - n) <= SIGN_BIT
    <2>1. WORD_BITS - n \in Place /\ WORD_BITS - 1 \in Place
          /\ WORD_BITS - n <= WORD_BITS - 1
      BY WordAssumption DEF BitIndex, Place
    <2> QED  BY <2>1, PowMonotone, PowWord
  <1>6. CASE x < SIGN_BIT
    <2>1. ShiftRightArithmetic(x, n) = {h}
      <3>1. ~(x >= SIGN_BIT)  BY <1>4, <1>6
      <3>2. ShiftRightArithmetic(x, n) = WordOf(Down(Bits[x], n))
        <4>1. Down(Bits[x], n) \cup {} = Down(Bits[x], n)  OBVIOUS
        <4> QED  BY <1>3, <3>1, <4>1, Zenon
      <3> QED  BY <1>1, <3>2
    <2>2. h < SIGN_BIT  BY <1>1, <1>4, <1>5, PlaceOfShift
    <2>3. Signed(h) = h /\ Signed(x) = x
      BY <1>1, <1>4, <1>6, <2>2 DEF Signed, Word
    <2> QED  BY <1>1, <2>1, <2>3
  <1>7. CASE x >= SIGN_BIT
    <2> DEFINE u == Pow(WORD_BITS - n)  p == Pow(n)
               v == h + ((MODULUS - 1) % p) * u
    <2>1. /\ p \in Nat \ {0} /\ u \in Nat \ {0} /\ MODULUS = p * u
          /\ h \in 0 .. u - 1 /\ u <= SIGN_BIT
      BY <1>1, <1>5, PlaceOfShift
    <2>2. fill = Up(Bits[MODULUS - 1], WORD_BITS - n)
      BY AllOnes, WordAssumption DEF Up, BitIndex
    <2>3. v \in Word /\ WordOf(Bits[h] \cup Up(Bits[MODULUS - 1], WORD_BITS - n)) = {v}
      <3>1. WORD_BITS - n \in Place /\ WORD_BITS - (WORD_BITS - n) = n
            /\ MODULUS - 1 \in Word
        BY PlaceOfShift, AllOnes
      <3> QED  BY <1>1, <3>1, JoinWord
    <2>4. ShiftRightArithmetic(x, n) = {v}
      BY <1>2, <1>3, <1>7, <2>2, <2>3
    <2>h. Signed(x) \div p = (x - MODULUS) \div p  BY <1>7 DEF Signed
    <2>m. h = x \div p  OBVIOUS
    <2> HIDE DEF u, p, h
    <2>5. (MODULUS - 1) % p = p - 1
      <3>1. p * u - 1 = p * (u - 1) + (p - 1)  BY <2>1
      <3>2. u - 1 \in Int /\ p - 1 \in 0 .. p - 1  BY <2>1
      <3>3. (p * (u - 1) + (p - 1)) % p = p - 1  BY <2>1, <3>2, DivUnique
      <3> QED  BY <2>1, <3>1, <3>3
    <2>6. v = h + MODULUS - u
      <3>1. (p - 1) * u = p * u - u  BY <2>1
      <3> QED  BY <2>1, <2>5, <3>1, <1>4
    <2>7. v >= SIGN_BIT  BY <1>4, <2>1, <2>6
    <2>8. Signed(v) = h - u
      BY <1>4, <2>1, <2>6, <2>7 DEF Signed
    <2>9. (x - MODULUS) \div p = h - u
      <3> DEFINE r == x % p
      <3>1. x = p * h + r /\ r \in 0 .. p - 1 /\ h \in Int
        BY <1>4, <2>1, <2>m
      <3> HIDE DEF r
      <3>2. x - MODULUS = p * (h - u) + r
        <4>1. p * (h - u) = p * h - p * u  BY <2>1, <3>1
        <4> QED  BY <1>4, <2>1, <3>1, <4>1
      <3>3. h - u \in Int  BY <2>1, <3>1
      <3> QED  BY <2>1, <3>1, <3>2, <3>3, DivUnique
    <2> HIDE DEF v
    <2>10. Signed(v) = Signed(x) \div Pow(n)  BY <2>8, <2>9, <2>h DEF p
    <2> QED  BY <2>3, <2>4, <2>10
  <1> QED  BY <1>4, <1>6, <1>7

LEMMA ShiftTable ==
  ASSUME NEW i, NEW x, NEW y
  PROVE  LET amount == x % WORD_BITS
         IN  /\ i.op = "sll" => Shift(i, x, y) = WordOf(Up(Bits[y], i.sa))
             /\ i.op = "sllv" => Shift(i, x, y) = WordOf(Up(Bits[y], amount))
             /\ i.op = "sra" => Shift(i, x, y) = ShiftRightArithmetic(y, i.sa)
             /\ i.op = "srav" => Shift(i, x, y) = ShiftRightArithmetic(y, amount)
             /\ i.op = "srl" => Shift(i, x, y) = ShiftRight(y, i.sa, i.rs % 2 = 1)
             /\ i.op = "srlv" => Shift(i, x, y) = ShiftRight(y, amount, i.sa % 2 = 1)
  BY DEF Shift

ShiftOps == {"sll", "sllv", "sra", "srav", "srl", "srlv"}

\* What a shift was asked for.
LEMMA ShiftRecorded ==
  ASSUME Executed, ins.op \in ShiftOps
  PROVE  /\ t \in Word /\ ShiftAmount \in BitIndex /\ IsRotate \in BOOLEAN
         /\ out = CASE ins.op \in {"sll", "sllv"} -> WordOf(Up(Bits[t], ShiftAmount))
                    [] ins.op \in {"sra", "srav"} -> ShiftRightArithmetic(t, ShiftAmount)
                    [] ins.op \in {"srl", "srlv"} -> ShiftRight(t, ShiftAmount, IsRotate)
  <1>1. /\ s \in Word /\ t \in Word /\ ins \in RTypeInstr
        /\ out = RTypeOutcomes(ins, s, t)
    BY RecordedByOp DEF ShiftOps, RTypeDataOps
  <1>2. out = Shift(ins, s, t)  BY <1>1, RTypeTable DEF ShiftOps
  <1>3. ins.sa \in BitIndex  BY <1>1 DEF RTypeInstr
  <1>4. s % WORD_BITS \in BitIndex
    <2>1. s \in Int /\ WORD_BITS \in Nat \ {0}
      BY <1>1, WordInt, WordAssumption
    <2> QED  BY <2>1 DEF BitIndex
  <1>5. CASE ins.op = "sll"
    BY <1>1, <1>2, <1>3, <1>5, ShiftTable DEF ShiftAmount, IsRotate
  <1>6. CASE ins.op = "sllv"
    BY <1>1, <1>2, <1>4, <1>6, ShiftTable DEF ShiftAmount, IsRotate
  <1>7. CASE ins.op = "sra"
    BY <1>1, <1>2, <1>3, <1>7, ShiftTable DEF ShiftAmount, IsRotate
  <1>8. CASE ins.op = "srav"
    BY <1>1, <1>2, <1>4, <1>8, ShiftTable DEF ShiftAmount, IsRotate
  <1>9. CASE ins.op = "srl"
    BY <1>1, <1>2, <1>3, <1>9, ShiftTable DEF ShiftAmount, IsRotate
  <1>10. CASE ins.op = "srlv"
    <2>1. ShiftAmount = s % WORD_BITS  BY <1>10 DEF ShiftAmount
    <2>2. IsRotate = (ins.sa % 2 = 1)
      <3>1. ins.op # "srl"  BY <1>10
      <3> QED  BY <1>10, <3>1, Zenon DEF IsRotate
    <2>3. out = ShiftRight(t, s % WORD_BITS, ins.sa % 2 = 1)
      BY <1>2, <1>10, ShiftTable
    <2>4. out = ShiftRight(t, ShiftAmount, IsRotate)
      BY <2>1, <2>2, <2>3, Zenon
    <2>5. IsRotate \in BOOLEAN  BY DEF IsRotate
    <2> QED  BY <1>1, <1>4, <1>10, <2>1, <2>4, <2>5
  <1> QED  BY <1>5, <1>6, <1>7, <1>8, <1>9, <1>10 DEF ShiftOps

\* Every shift and rotation, by every amount, is the product or quotient it
\* stands for; SRA by 0, where builds differ, is left out by the property
\* (executor.hpp:129-182).
THEOREM ShiftsExactAlways == Spec => []ShiftsExact
  <1>1. Executed => ShiftsExact
    <2> SUFFICES ASSUME Executed, NEW v \in out, ins.op \in ShiftOps
                 PROVE  LET n == ShiftAmount
                            high == t \div 2 ^ n
                        IN  /\ ins.op \in {"sll", "sllv"} => v = Wrap(t * 2 ^ n)
                            /\ ins.op \in {"sra", "srav"} /\ n > 0 =>
                                 Signed(v) = Signed(t) \div 2 ^ n
                            /\ ins.op \in {"srl", "srlv"} =>
                                 v = IF IsRotate
                                     THEN high + (t % 2 ^ n) * 2 ^ (WORD_BITS - n)
                                     ELSE high
      BY DEF ShiftsExact, ShiftOps
    <2> DEFINE n == ShiftAmount
    <2>1. /\ t \in Word /\ n \in BitIndex /\ IsRotate \in BOOLEAN
          /\ ins.op \in {"sll", "sllv"} => out = WordOf(Up(Bits[t], n))
          /\ ins.op \in {"sra", "srav"} => out = ShiftRightArithmetic(t, n)
          /\ ins.op \in {"srl", "srlv"} => out = ShiftRight(t, n, IsRotate)
      BY ShiftRecorded
    <2> HIDE DEF n
    <2>2. n \in Place /\ n \in Nat  BY <2>1, PlaceOfShift
    <2>3. ins.op \in {"sll", "sllv"} => v = Wrap(t * Pow(n))
      BY <2>1, <2>2, UpWord
    <2>4. ins.op \in {"sra", "srav"} /\ n > 0 => Signed(v) = Signed(t) \div Pow(n)
      BY <2>1, <2>2, ShiftRightArithmeticValue
    <2>5. ins.op \in {"srl", "srlv"} =>
            v = IF IsRotate THEN t \div Pow(n) + (t % Pow(n)) * Pow(WORD_BITS - n)
                            ELSE t \div Pow(n)
      BY <2>1, ShiftRightValue
    <2> QED  BY <2>3, <2>4, <2>5 DEF n, Pow
  <1> QED  BY <1>1, ExecutedInvariant, PTL

-----------------------------------------------------------------------------
(* The counting loops *)

\* The first shift that ends a loop is its only outcome.
LEMMA FirstStop ==
  ASSUME NEW x, NEW m \in 0 .. WORD_BITS
  PROVE  /\ x # 0 /\ ~(ShiftedLeft(x, m) > 0)
            /\ (\A k \in 0 .. m - 1 : ShiftedLeft(x, k) > 0)
              => LeadingZeros(x) = {m}
         /\ ~(ShiftedLeft(x, m) < 0)
            /\ (\A k \in 0 .. m - 1 : ShiftedLeft(x, k) < 0)
              => LeadingOnes(x) = {m}
  <1>1. m \in Word
    <2>1. \A k \in 0 .. WORD_BITS : k \in Word
      BY PowWord, WordAssumption DEF Word
    <2> QED  BY <2>1
  <1>2. \A c \in 0 .. WORD_BITS :
          c = m \/ c \in 0 .. m - 1 \/ m \in 0 .. c - 1
    BY WordAssumption
  <1>3. ASSUME x # 0, ~(ShiftedLeft(x, m) > 0),
               \A k \in 0 .. m - 1 : ShiftedLeft(x, k) > 0
        PROVE  LeadingZeros(x) = {m}
    <2>1. m \in LeadingZeros(x)  BY <1>1, <1>3, Zenon DEF LeadingZeros
    <2>2. ASSUME NEW c \in LeadingZeros(x) PROVE c = m
      <3>1. /\ c \in 0 .. WORD_BITS /\ ~(ShiftedLeft(x, c) > 0)
            /\ \A k \in 0 .. c - 1 : ShiftedLeft(x, k) > 0
        BY <1>3, Zenon DEF LeadingZeros
      <3> QED  BY <1>2, <1>3, <3>1, Zenon
    <2> QED  BY <2>1, <2>2
  <1>4. ASSUME ~(ShiftedLeft(x, m) < 0),
               \A k \in 0 .. m - 1 : ShiftedLeft(x, k) < 0
        PROVE  LeadingOnes(x) = {m}
    <2>1. m \in LeadingOnes(x)  BY <1>1, <1>4, Zenon DEF LeadingOnes
    <2>2. ASSUME NEW c \in LeadingOnes(x) PROVE c = m
      <3>1. /\ c \in 0 .. WORD_BITS /\ ~(ShiftedLeft(x, c) < 0)
            /\ \A k \in 0 .. c - 1 : ShiftedLeft(x, k) < 0
        BY Zenon DEF LeadingOnes
      <3> QED  BY <1>2, <1>4, <3>1, Zenon
    <2> QED  BY <2>1, <2>2
  <1> QED  BY <1>3, <1>4, Zenon

\* A shift that loses nothing is positive until the sign bit is reached.
LEMMA ShiftedSmall ==
  ASSUME NEW x \in Word, x # 0, NEW k \in Place, x * Pow(k) < MODULUS
  PROVE  ShiftedLeft(x, k) > 0 <=> x * Pow(k) < SIGN_BIT
  <1>1. x \in Nat \ {0} /\ Pow(k) \in Nat \ {0}
    BY PowNat, WordAssumption DEF Word, Place
  <1>2. x * Pow(k) \in Nat \ {0}
    <2>1. \A i, j \in Nat \ {0} : i * j \in Nat \ {0}  OBVIOUS
    <2> QED  BY <1>1, <2>1
  <1>3. x * Pow(k) \in Word  BY <1>2, PowWord DEF Word
  <1>4. ShiftedLeft(x, k) = Signed(x * Pow(k))
    BY <1>3, WrapId DEF ShiftedLeft, Pow
  <1> DEFINE z == x * Pow(k)
  <1>5. z \in Nat \ {0} /\ z < MODULUS  BY <1>2
  <1>6. Signed(z) > 0 <=> z < SIGN_BIT
    <2> HIDE DEF z
    <2> QED  BY <1>5, WordAssumption DEF Signed, MODULUS
  <1> QED  BY <1>4, <1>6

\* The place of the leading one of a word that has one.
LEMMA LeadingPlace ==
  ASSUME NEW x \in Word, x # 0
  PROVE  \E c \in BitIndex : /\ SIGN_BIT <= x * Pow(c) /\ x * Pow(c) < MODULUS
                             /\ \A k \in 0 .. c - 1 : x * Pow(k) < SIGN_BIT
  <1> DEFINE T == {k \in BitIndex : SIGN_BIT <= x * Pow(k)}
  <1>0. x \in Nat \ {0} /\ x < MODULUS /\ SIGN_BIT \in Nat \ {0}
        /\ MODULUS = 2 * SIGN_BIT
    BY WordAssumption DEF Word, MODULUS
  <1>1. WORD_BITS - 1 \in T
    <2>1. Pow(WORD_BITS - 1) = SIGN_BIT /\ WORD_BITS - 1 \in BitIndex
      BY PowWord, WordAssumption DEF BitIndex
    <2>2. SIGN_BIT <= x * SIGN_BIT
      <3>1. \A i, j \in Nat \ {0} : j <= i * j  OBVIOUS
      <3> QED  BY <1>0, <3>1
    <2> QED  BY <2>1, <2>2
  <1>2. T \in SUBSET Nat /\ T # {}  BY <1>1, WordAssumption DEF BitIndex
  <1>3. PICK c \in T : \A k \in T : c <= k
    <2> HIDE DEF T
    <2> QED  BY <1>2, LeastElement
  <1>4. \A k \in BitIndex : x * Pow(k) \in Int
    BY <1>0, PlaceOfShift
  <1>5. \A k \in 0 .. c - 1 : k \in BitIndex /\ x * Pow(k) < SIGN_BIT
    <2> SUFFICES ASSUME NEW k \in 0 .. c - 1
                 PROVE  k \in BitIndex /\ x * Pow(k) < SIGN_BIT
      OBVIOUS
    <2>1. k \in BitIndex /\ ~(c <= k)  BY WordAssumption DEF BitIndex
    <2>2. k \notin T  BY <1>3, <2>1
    <2> QED  BY <1>0, <1>4, <2>1, <2>2
  <1>6. x * Pow(c) < MODULUS
    <2>1. CASE c = 0
      <3>1. x * 1 = x  BY <1>0
      <3> QED  BY <1>0, <2>1, <3>1, PowZero
    <2>2. CASE c # 0
      <3>1. c - 1 \in 0 .. c - 1 /\ c - 1 \in BitIndex /\ (c - 1) + 1 = c
        BY <2>2, WordAssumption DEF BitIndex
      <3>2. Pow(c) = 2 * Pow(c - 1)  BY <3>1, PowNext
      <3>3. x * Pow(c - 1) < SIGN_BIT  BY <1>5, <3>1
      <3>4. Pow(c - 1) \in Nat  BY <3>1, PlaceOfShift
      <3>5. x * (2 * Pow(c - 1)) = 2 * (x * Pow(c - 1))  BY <1>0, <3>4
      <3>6. x * Pow(c - 1) \in Int  BY <1>4, <3>1
      <3> QED  BY <1>0, <3>2, <3>3, <3>5, <3>6
    <2> QED  BY <2>1, <2>2
  <1> QED  BY <1>3, <1>5, <1>6

\* CLZ of a word that is not 0 moves its leading one into the sign bit.
LEMMA LeadingZerosValue ==
  ASSUME NEW x \in Word
  PROVE  /\ x = 0 => LeadingZeros(x) = {WORD_BITS}
         /\ \A c \in BitIndex :
              /\ x # 0 /\ SIGN_BIT <= x * Pow(c) /\ x * Pow(c) < MODULUS
              /\ \A k \in 0 .. c - 1 : x * Pow(k) < SIGN_BIT
              => LeadingZeros(x) = {c}
  <1>1. ASSUME x = 0 PROVE LeadingZeros(x) = {WORD_BITS}
    <2>1. WORD_BITS \in Word \cap 0 .. WORD_BITS
      BY PowWord, WordAssumption
    <2> QED  BY <1>1, <2>1 DEF LeadingZeros
  <1>2. ASSUME NEW c \in BitIndex, x # 0,
               SIGN_BIT <= x * Pow(c), x * Pow(c) < MODULUS,
               \A k \in 0 .. c - 1 : x * Pow(k) < SIGN_BIT
        PROVE  LeadingZeros(x) = {c}
    <2>1. c \in 0 .. WORD_BITS /\ c \in Place
      BY WordAssumption DEF BitIndex, Place
    <2>0. \A k \in BitIndex : x * Pow(k) \in Int
      BY PlaceOfShift, WordInt
    <2>2. ~(ShiftedLeft(x, c) > 0)
      <3>1. ~(x * Pow(c) < SIGN_BIT)  BY <1>2, <2>0, WordAssumption
      <3> QED  BY <1>2, <2>1, <3>1, ShiftedSmall
    <2>3. ASSUME NEW k \in 0 .. c - 1 PROVE ShiftedLeft(x, k) > 0
      <3>1. k \in BitIndex /\ k \in Place
        BY WordAssumption DEF BitIndex, Place
      <3>2. x * Pow(k) < MODULUS
        BY <1>2, <2>0, <3>1, WordAssumption DEF MODULUS
      <3> QED  BY <1>2, <3>1, <3>2, ShiftedSmall
    <2> QED  BY <1>2, <2>1, <2>2, <2>3, FirstStop
  <1> QED  BY <1>1, <1>2

\* Shifting the complement of y shifts ones in from above the zeros of y.
LEMMA ShiftedComplement ==
  ASSUME NEW y \in Word, NEW k \in Place, (y + 1) * Pow(k) <= MODULUS
  PROVE  ShiftedLeft(MODULUS - 1 - y, k) < 0 <=> (y + 1) * Pow(k) <= SIGN_BIT
  <1> DEFINE M == MODULUS  p == Pow(k)  z == (y + 1) * p
  <1>1. /\ M \in Nat \ {0} /\ M = 2 * SIGN_BIT /\ SIGN_BIT \in Nat \ {0}
        /\ p \in Nat \ {0} /\ y \in Nat /\ y < M
    BY PowNat, WordAssumption DEF Word, MODULUS, Place
  <1> HIDE DEF M, p
  <1>2. z \in Nat \ {0} /\ z <= M
    <2>1. \A i, j \in Nat \ {0} : i * j \in Nat \ {0}  OBVIOUS
    <2> QED  BY <1>1, <2>1 DEF M, p
  <1>3. (M - 1 - y) * p = M * (p - 1) + (M - z)
    BY <1>1
  <1> HIDE DEF z
  <1>4. ((M - 1 - y) * p) % M = M - z
    <2>1. p - 1 \in Int /\ M - z \in 0 .. M - 1  BY <1>1, <1>2
    <2>2. (M * (p - 1) + (M - z)) % M = M - z  BY <1>1, <2>1, DivUnique
    <2> QED  BY <1>3, <2>2, Zenon
  <1>5. ShiftedLeft(MODULUS - 1 - y, k) = Signed(M - z)
    BY <1>4 DEF ShiftedLeft, Wrap, Pow, M, p
  <1>6. Signed(M - z) < 0 <=> z <= SIGN_BIT
    <2>1. Signed(M - z) = IF M - z >= SIGN_BIT THEN M - z - M ELSE M - z
      BY DEF Signed, M
    <2> QED  BY <1>1, <1>2, <2>1
  <1> QED  BY <1>5, <1>6 DEF z, p

\* CLO of the complement of y counts the leading zeros of y.
LEMMA LeadingOnesComplement ==
  ASSUME NEW y \in Word
  PROVE  LeadingOnes(MODULUS - 1 - y) = LeadingZeros(y)
  <1>0. /\ MODULUS = 2 * SIGN_BIT /\ SIGN_BIT \in Nat \ {0}
        /\ y \in Nat /\ y < MODULUS
    BY WordAssumption DEF Word, MODULUS
  <1>1. CASE y = 0
    <2>1. WORD_BITS \in 0 .. WORD_BITS /\ WORD_BITS \in Place
      BY WordAssumption DEF Place
    <2>2. (y + 1) * Pow(WORD_BITS) = MODULUS  BY <1>0, <1>1, PowWord
    <2>3. ~(ShiftedLeft(MODULUS - 1 - y, WORD_BITS) < 0)
      <3>1. ~((y + 1) * Pow(WORD_BITS) <= SIGN_BIT)  BY <1>0, <2>2
      <3>2. (y + 1) * Pow(WORD_BITS) <= MODULUS  BY <1>0, <2>2
      <3> QED  BY <2>1, <3>1, <3>2, ShiftedComplement
    <2>4. ASSUME NEW k \in 0 .. WORD_BITS - 1
          PROVE  ShiftedLeft(MODULUS - 1 - y, k) < 0
      <3>1. k \in Place /\ WORD_BITS - 1 \in Place /\ k <= WORD_BITS - 1
        BY WordAssumption DEF Place
      <3>2. Pow(k) <= SIGN_BIT /\ Pow(k) \in Nat
        BY <3>1, PowMonotone, PowWord, PowNat
      <3>3. (y + 1) * Pow(k) = Pow(k)  BY <1>1, <3>2
      <3>4. (y + 1) * Pow(k) <= SIGN_BIT /\ (y + 1) * Pow(k) <= MODULUS
        BY <1>0, <3>2, <3>3
      <3> QED  BY <3>1, <3>4, ShiftedComplement
    <2>5. LeadingOnes(MODULUS - 1 - y) = {WORD_BITS}
      BY <2>1, <2>3, <2>4, FirstStop
    <2> QED  BY <1>1, <2>5, LeadingZerosValue
  <1>2. CASE y # 0
    <2>1. PICK c \in BitIndex : /\ SIGN_BIT <= y * Pow(c) /\ y * Pow(c) < MODULUS
                                /\ \A k \in 0 .. c - 1 : y * Pow(k) < SIGN_BIT
      BY <1>2, LeadingPlace
    <2>2. c \in 0 .. WORD_BITS /\ c \in Place
      BY WordAssumption DEF BitIndex, Place
    \* y * 2^k below a multiple of 2^k leaves room for one more 2^k
    <2>3. \A p, q \in Nat \ {0} : y * p < p * q => (y + 1) * p <= p * q
      <3> SUFFICES ASSUME NEW p \in Nat \ {0}, NEW q \in Nat \ {0}, y * p < p * q
                   PROVE  (y + 1) * p <= p * q
        OBVIOUS
      <3>1. y < q
        <4> SUFFICES ASSUME q <= y PROVE FALSE  BY <1>0
        <4>1. q * p <= y * p  BY <1>0
        <4> QED  BY <1>0, <4>1
      <3>2. y + 1 <= q /\ y + 1 \in Nat  BY <1>0, <3>1
      <3> QED  BY <3>2
    <2>4. ~(ShiftedLeft(MODULUS - 1 - y, c) < 0)
      <3>1. /\ Pow(c) \in Nat \ {0} /\ Pow(WORD_BITS - c) \in Nat \ {0}
            /\ MODULUS = Pow(c) * Pow(WORD_BITS - c)
        BY PlaceOfShift
      <3>2. (y + 1) * Pow(c) <= MODULUS  BY <2>1, <2>3, <3>1
      <3>3. (y + 1) * Pow(c) = y * Pow(c) + Pow(c) /\ y * Pow(c) \in Int
        BY <1>0, <3>1
      <3>4. ~((y + 1) * Pow(c) <= SIGN_BIT)
        BY <1>0, <2>1, <3>1, <3>3
      <3> QED  BY <2>2, <3>2, <3>4, ShiftedComplement
    <2>5. ASSUME NEW k \in 0 .. c - 1
          PROVE  ShiftedLeft(MODULUS - 1 - y, k) < 0
      <3>1. /\ k \in Place /\ WORD_BITS - 1 \in Place /\ k <= WORD_BITS - 1
            /\ (WORD_BITS - 1) - k \in Place
        BY WordAssumption DEF Place, BitIndex
      <3>2. SIGN_BIT = Pow(k) * Pow((WORD_BITS - 1) - k)
        BY <3>1, PowMonotone, PowWord
      <3>3. Pow(k) \in Nat \ {0} /\ Pow((WORD_BITS - 1) - k) \in Nat \ {0}
        BY <3>1, PowNat DEF Place
      <3>4. (y + 1) * Pow(k) <= SIGN_BIT  BY <2>1, <2>3, <3>2, <3>3
      <3>5. (y + 1) * Pow(k) \in Int  BY <1>0, <3>3
      <3>6. (y + 1) * Pow(k) <= MODULUS  BY <1>0, <3>4, <3>5
      <3> QED  BY <3>1, <3>4, <3>6, ShiftedComplement
    <2>6. LeadingOnes(MODULUS - 1 - y) = {c}
      BY <2>2, <2>4, <2>5, FirstStop
    <2> QED  BY <1>2, <2>1, <2>6, LeadingZerosValue
  <1> QED  BY <1>1, <1>2

\* CLZ brackets every word between two powers of two, and CLO counts the
\* leading zeros of its complement (executor.hpp:233-269).
THEOREM CountsExactAlways == Spec => []CountsExact
  <1>1. Executed => CountsExact
    <2> SUFFICES ASSUME Executed, NEW v \in out
                 PROVE  /\ ins.op = "clz" =>
                             s < 2 ^ (WORD_BITS - v)
                             /\ (v < WORD_BITS => s >= 2 ^ (WORD_BITS - 1 - v))
                        /\ ins.op = "clo" => v \in LeadingZeros(MODULUS - 1 - s)
      BY DEF CountsExact
    <2>1. /\ s \in Word
          /\ ins.op = "clz" => out = LeadingZeros(s)
          /\ ins.op = "clo" => out = LeadingOnes(s)
      BY RecordedByOp, RTypeTable DEF RTypeDataOps
    <2>2. ASSUME ins.op = "clz", s = 0
          PROVE  s < Pow(WORD_BITS - v)
                 /\ (v < WORD_BITS => s >= Pow(WORD_BITS - 1 - v))
      <3>1. v = WORD_BITS  BY <2>1, <2>2, LeadingZerosValue
      <3>2. WORD_BITS - v = 0 /\ ~(v < WORD_BITS)  BY <3>1, WordAssumption
      <3> QED  BY <2>2, <3>2, PowZero
    <2>3. ASSUME ins.op = "clz", s # 0
          PROVE  s < Pow(WORD_BITS - v)
                 /\ (v < WORD_BITS => s >= Pow(WORD_BITS - 1 - v))
      <3>1. PICK c \in BitIndex : /\ SIGN_BIT <= s * Pow(c) /\ s * Pow(c) < MODULUS
                                  /\ \A k \in 0 .. c - 1 : s * Pow(k) < SIGN_BIT
        BY <2>1, <2>3, LeadingPlace
      <3>2. v = c  BY <2>1, <2>3, <3>1, LeadingZerosValue
      <3>3. /\ Pow(c) \in Nat \ {0} /\ Pow(WORD_BITS - c) \in Nat \ {0}
            /\ MODULUS = Pow(c) * Pow(WORD_BITS - c)
        BY PlaceOfShift
      <3>4. /\ c \in Place /\ WORD_BITS - 1 \in Place /\ c <= WORD_BITS - 1
            /\ (WORD_BITS - 1) - c = WORD_BITS - 1 - c
            /\ WORD_BITS - 1 - c \in Place
        BY WordAssumption DEF Place, BitIndex
      <3>5. SIGN_BIT = Pow(c) * Pow(WORD_BITS - 1 - c)
        BY <3>4, PowMonotone, PowWord
      <3>6. Pow(WORD_BITS - 1 - c) \in Nat  BY <3>4, PowNat
      <3>7. s \in Nat  BY <2>1, WordAssumption DEF Word
      <3>8. \A p \in Nat \ {0}, q \in Nat :
              (s * p < p * q => s < q) /\ (p * q <= s * p => s >= q)
        <4> SUFFICES ASSUME NEW p \in Nat \ {0}, NEW q \in Nat
                     PROVE  (s * p < p * q => s < q) /\ (p * q <= s * p => s >= q)
          OBVIOUS
        <4>1. q <= s => p * q <= s * p  BY <3>7
        <4>2. s < q => s * p < p * q  BY <3>7
        <4>3. s * p \in Int /\ p * q \in Int  BY <3>7
        <4> QED  BY <3>7, <4>1, <4>2, <4>3
      <3> QED  BY <3>1, <3>2, <3>3, <3>5, <3>6, <3>8
    <2>4. ASSUME ins.op = "clo" PROVE v \in LeadingZeros(MODULUS - 1 - s)
      <3>1. MODULUS - 1 - s \in Word /\ MODULUS - 1 - (MODULUS - 1 - s) = s
        BY <2>1, PowWord DEF Word
      <3> QED  BY <2>1, <2>4, <3>1, LeadingOnesComplement
    <2> QED  BY <2>2, <2>3, <2>4 DEF Pow
  <1> QED  BY <1>1, ExecutedInvariant, PTL

-----------------------------------------------------------------------------
(* Constants from their halves                                              *)

\* The immediate is the low half of a word.
LEMMA HalfWord ==
  /\ 2 * BYTE_BITS \in Place /\ WORD_BITS - 2 * BYTE_BITS = 2 * BYTE_BITS
  /\ IMM_SIZE = Pow(2 * BYTE_BITS) /\ MODULUS = IMM_SIZE * IMM_SIZE
  /\ \E h \in Nat \ {0} : IMM_SIZE = 2 * h
  <1>1. /\ BYTE_BITS \in Nat \ {0} /\ WORD_BITS = 4 * BYTE_BITS
        /\ IMM_SIZE \in Nat \ {0}
    BY AluAssumption
  <1>2. BYTE_SIZE = Pow(BYTE_BITS) /\ IMM_SIZE = BYTE_SIZE * BYTE_SIZE
    BY AluAssumption DEF Pow
  <1>3. /\ BYTE_BITS + BYTE_BITS = 2 * BYTE_BITS /\ BYTE_BITS + BYTE_BITS <= WORD_BITS
        /\ 2 * BYTE_BITS + 2 * BYTE_BITS = WORD_BITS /\ 2 * BYTE_BITS \in Nat
        /\ 2 * BYTE_BITS \in 0 .. WORD_BITS
        /\ WORD_BITS - 2 * BYTE_BITS = 2 * BYTE_BITS
    BY <1>1
  <1>4. IMM_SIZE = Pow(2 * BYTE_BITS)
    <2>1. Pow(BYTE_BITS + BYTE_BITS) = Pow(BYTE_BITS) * Pow(BYTE_BITS)
      BY <1>1, <1>3, PowSum
    <2> QED  BY <1>2, <1>3, <2>1, Zenon
  <1>5. MODULUS = IMM_SIZE * IMM_SIZE
    <2>1. 2 * BYTE_BITS + 2 * BYTE_BITS <= WORD_BITS  BY <1>1
    <2>2. Pow(2 * BYTE_BITS + 2 * BYTE_BITS) = Pow(2 * BYTE_BITS) * Pow(2 * BYTE_BITS)
      BY <1>3, <2>1, PowSum
    <2> QED  BY <1>3, <1>4, <2>2, PowWord, Zenon
  <1>6. \E h \in Nat \ {0} : IMM_SIZE = 2 * h
    <2> DEFINE k == 2 * BYTE_BITS - 1
    <2>1. k \in BitIndex /\ k + 1 = 2 * BYTE_BITS /\ k \in Place
      BY <1>1 DEF BitIndex, Place
    <2>2. Pow(k + 1) = 2 * Pow(k) /\ Pow(k) \in Nat \ {0}
      BY <2>1, PowNext, PowNat DEF Place
    <2> HIDE DEF k
    <2>3. IMM_SIZE = 2 * Pow(k)  BY <1>4, <2>1, <2>2, Zenon
    <2> QED  BY <2>2, <2>3
  <1> QED  BY <1>3, <1>4, <1>5, <1>6 DEF Place

LEMMA ITypeTable ==
  ASSUME NEW i, NEW x
  PROVE  /\ i.op = "addiu" =>
              ITypeOutcomes(i, x) = {Add(x, SignExt(i.imm, IMM_SIZE))}
         /\ i.op = "aui" =>
              ITypeOutcomes(i, x) = {Add(x, SignExt(i.imm * IMM_SIZE, IMM_SIZE))}
         /\ i.op = "slti" =>
              ITypeOutcomes(i, x) =
                {Flag(Signed(x) < Signed(SignExt(i.imm, IMM_SIZE)))}
         /\ i.op = "sltiu" =>
              ITypeOutcomes(i, x) = {Flag(x < SignExt(i.imm, IMM_SIZE))}
         /\ i.op \in {"andi", "ori", "xori"} =>
              ITypeOutcomes(i, x) = Logic(i.op, x, i.imm)
  BY DEF ITypeOutcomes

\* AUI of $0 leaves the immediate in the high half.
LEMMA UpperHalf ==
  ASSUME NEW i, i.op = "aui", i.imm \in 0 .. IMM_SIZE - 1
  PROVE  /\ ITypeOutcomes(i, 0) = {i.imm * IMM_SIZE}
         /\ i.imm * IMM_SIZE \in Word
  <1> DEFINE H == i.imm
  <1>1. PICK h \in Nat \ {0} : IMM_SIZE = 2 * h  BY HalfWord
  <1>2. IMM_SIZE \in Nat \ {0} /\ MODULUS = IMM_SIZE * IMM_SIZE
    BY HalfWord, AluAssumption
  <1>3. H \in Nat /\ H <= IMM_SIZE - 1  BY <1>2
  <1> HIDE DEF H
  <1>4. H * IMM_SIZE \in Word
    <2>1. \A x, m \in Nat : x <= m - 1 => x * m \in 0 .. m * m - 1
      <3> SUFFICES ASSUME NEW x \in Nat, NEW m \in Nat, x <= m - 1
                   PROVE  x * m \in 0 .. m * m - 1
        OBVIOUS
      <3>1. x * m <= (m - 1) * m /\ x * m >= 0  OBVIOUS
      <3>2. (m - 1) * m = m * m - m /\ m > 0  OBVIOUS
      <3> QED  BY <3>1, <3>2
    <2> QED  BY <1>2, <1>3, <2>1 DEF Word
  <1>5. (H * IMM_SIZE) \div (IMM_SIZE \div 2) = 2 * H
    <2>1. IMM_SIZE \div 2 = h  BY <1>1
    <2>2. H * IMM_SIZE = h * (2 * H) + 0  BY <1>1, <1>3
    <2>3. (h * (2 * H) + 0) \div h = 2 * H
      <3>1. 2 * H \in Int /\ 0 \in 0 .. h - 1  BY <1>1, <1>3
      <3> QED  BY <1>1, <3>1, DivUnique
    <2> QED  BY <2>1, <2>2, <2>3, Zenon
  <1>6. (2 * H) % 2 # 1  BY <1>3
  <1>7. SignExt(H * IMM_SIZE, IMM_SIZE) = H * IMM_SIZE
    BY <1>4, <1>5, <1>6, WrapId DEF SignExt
  <1>8. Add(0, H * IMM_SIZE) = H * IMM_SIZE
    <2>1. 0 + H * IMM_SIZE = H * IMM_SIZE  BY <1>2, <1>3
    <2> QED  BY <1>4, <2>1, WrapId DEF Add
  <1>9. ITypeOutcomes(i, 0) = {Add(0, SignExt(H * IMM_SIZE, IMM_SIZE))}
    BY ITypeTable DEF H
  <1> QED  BY <1>4, <1>7, <1>8, <1>9 DEF H

\* A low half or-ed into a high half is their sum.
LEMMA HalvesJoined ==
  ASSUME NEW H \in 0 .. IMM_SIZE - 1, NEW low \in 0 .. IMM_SIZE - 1,
         H * IMM_SIZE \in Word
  PROVE  WordOf(Bits[H * IMM_SIZE] \cup Bits[low]) = {H * IMM_SIZE + low}
  <1> DEFINE n == 2 * BYTE_BITS
  <1>1. /\ n \in Place /\ WORD_BITS - n = n /\ IMM_SIZE = Pow(n)
        /\ MODULUS = IMM_SIZE * IMM_SIZE
    BY HalfWord
  <1> HIDE DEF n
  <1>2. IMM_SIZE \in Nat \ {0} /\ IMM_SIZE <= MODULUS
    <2>1. IMM_SIZE \in Nat \ {0}  BY AluAssumption
    <2>2. \A m \in Nat \ {0} : m <= m * m  OBVIOUS
    <2> QED  BY <1>1, <2>1, <2>2
  <1>3. H \in Word /\ H \in Nat /\ low \in Nat
    BY <1>2, WordAssumption DEF Word, MODULUS
  <1>4. Up(Bits[H], n) = Bits[H * IMM_SIZE]
    <2>1. WordOf(Up(Bits[H], n)) = {Wrap(H * Pow(n))}  BY <1>1, <1>3, UpWord
    <2>2. Wrap(H * Pow(n)) = H * IMM_SIZE  BY <1>1, WrapId
    <2>3. H * IMM_SIZE \in WordOf(Up(Bits[H], n))  BY <2>1, <2>2
    <2> QED  BY <2>3 DEF WordOf
  <1>5. low \in 0 .. Pow(n) - 1  BY <1>1
  <1>6. H % Pow(WORD_BITS - n) = H
    <2>1. H % IMM_SIZE = H  BY <1>2
    <2> QED  BY <1>1, <2>1
  <1>7. WordOf(Bits[low] \cup Up(Bits[H], n))
          = {low + (H % Pow(WORD_BITS - n)) * Pow(n)}
    BY <1>1, <1>3, <1>5, JoinWord
  <1>8. low + H * IMM_SIZE = H * IMM_SIZE + low  BY <1>2, <1>3
  <1>9. Bits[low] \cup Up(Bits[H], n) = Bits[H * IMM_SIZE] \cup Bits[low]
    BY <1>4
  <1> QED  BY <1>1, <1>6, <1>7, <1>8, <1>9, Zenon

\* A sign extended low half added to a high half borrows from it.
LEMMA HalvesAdded ==
  ASSUME NEW H \in 0 .. IMM_SIZE - 1, NEW low \in 0 .. IMM_SIZE - 1,
         H * IMM_SIZE \in Word
  PROVE  Add(H * IMM_SIZE, SignExt(low, IMM_SIZE))
           = Wrap((H - Flag(low >= IMM_SIZE \div 2)) * IMM_SIZE + low)
  <1> DEFINE I == IMM_SIZE  M == MODULUS  y == H * I
  <1>1. PICK h \in Nat \ {0} : I = 2 * h  BY HalfWord
  <1>2. /\ I \in Nat \ {0} /\ M \in Nat \ {0} /\ I <= M
        /\ H \in 0 .. I - 1 /\ low \in 0 .. I - 1
    <2>1. I \in Nat \ {0} /\ M = I * I /\ M \in Nat \ {0}
      BY AluAssumption, HalfWord, PowWord
    <2>2. \A m \in Nat \ {0} : m <= m * m  OBVIOUS
    <2> QED  BY <2>1, <2>2
  <1>3. y \in Word /\ y \in Int  BY <1>2
  <1>4. low \in Word /\ Wrap(low) = low
    <2>1. low \in Word  BY <1>2 DEF Word
    <2> QED  BY <2>1, WrapId
  <1>5. I \div 2 = h  BY <1>1
  <1> HIDE DEF I, M
  <1>6. (low \div h) % 2 = 1 <=> low >= h
    <2>2. CASE low < h
      <3>1. low \div h = 0  BY <1>1, <1>2, <2>2
      <3> QED  BY <1>1, <1>2, <2>2, <3>1
    <2>3. CASE low >= h
      <3>1. low - h \in 0 .. h - 1  BY <1>1, <1>2, <2>3
      <3>2. (h * 1 + (low - h)) \div h = 1  BY <1>1, <3>1, DivUnique
      <3>3. h * 1 + (low - h) = low  BY <1>1, <1>2
      <3> QED  BY <2>3, <3>2, <3>3
    <2> QED  BY <1>1, <1>2, <2>2, <2>3
  <1>7. CASE low >= h
    <2>1. SignExt(low, I) = Wrap(low + M - I)
      BY <1>5, <1>6, <1>7 DEF SignExt, I, M
    <2>2. low + M - I \in Word /\ low + M - I \in Int
      BY <1>2 DEF Word, M
    <2>3. Wrap(low + M - I) = low + M - I  BY <2>2, WrapId
    <2>4. (H - 1) * I + low = y + low - I  BY <1>2
    <2>5. Wrap(y + (low + M - I)) = Wrap(y + low - I)
      <3>1. \A z \in Int : (z + M) % M = z % M
        <4> SUFFICES ASSUME NEW z \in Int PROVE (z + M) % M = z % M  OBVIOUS
        <4> DEFINE q == z \div M  r == z % M
        <4>1. q \in Int /\ r \in 0 .. M - 1 /\ z = M * q + r  BY <1>2, DivMod
        <4> HIDE DEF q, r
        <4>2. z + M = M * (q + 1) + r /\ q + 1 \in Int  BY <1>2, <4>1
        <4>3. (M * (q + 1) + r) % M = r  BY <1>2, <4>1, <4>2, DivUnique
        <4> QED  BY <4>2, <4>3 DEF r
      <3>2. y + low - I \in Int /\ y + (low + M - I) = (y + low - I) + M
        BY <1>2, <1>3
      <3> HIDE DEF y
      <3> QED  BY <3>1, <3>2 DEF Wrap, M
    <2>6. Flag(low >= I \div 2) = 1  BY <1>5, <1>7 DEF Flag
    <2> QED  BY <2>1, <2>3, <2>4, <2>5, <2>6, Zenon DEF Add, I
  <1>8. CASE ~(low >= h)
    <2>1. SignExt(low, I) = low
      BY <1>4, <1>5, <1>6, <1>8 DEF SignExt, I
    <2>2. (H - 0) * I + low = y + low  BY <1>2
    <2>3. Flag(low >= I \div 2) = 0  BY <1>5, <1>8 DEF Flag
    <2> QED  BY <2>1, <2>2, <2>3, Zenon DEF Add, I
  <1> QED  BY <1>7, <1>8

\* AUI and ORI, or AUI and ADDIU with the borrow of a negative low half, build
\* every constant of the word (executor.hpp:275-285, 303-307).
THEOREM ConstantsFromHalvesAlways == Spec => []ConstantsFromHalves
  <1>1. Executed => ConstantsFromHalves
    <2> SUFFICES ASSUME Executed, NEW v \in out, NEW hi \in 0 .. IMM_SIZE - 1,
                        ins.op \in {"ori", "addiu"},
                        s \in ITypeOutcomes([ins EXCEPT !.op = "aui", !.imm = hi], 0)
                 PROVE  /\ ins.op = "ori" => v = hi * IMM_SIZE + ins.imm
                        /\ ins.op = "addiu" =>
                             v = Wrap((hi - Flag(ins.imm >= IMM_SIZE \div 2))
                                        * IMM_SIZE + ins.imm)
      BY DEF ConstantsFromHalves
    <2>1. ins \in ITypeInstr /\ out = ITypeOutcomes(ins, s)
      BY RecordedByOp DEF ITypeDataOps
    <2>2. s = hi * IMM_SIZE /\ hi * IMM_SIZE \in Word
      <3>1. /\ [ins EXCEPT !.op = "aui", !.imm = hi].op = "aui"
            /\ [ins EXCEPT !.op = "aui", !.imm = hi].imm = hi
        BY <2>1 DEF ITypeInstr
      <3>2. /\ ITypeOutcomes([ins EXCEPT !.op = "aui", !.imm = hi], 0)
                 = {hi * IMM_SIZE}
            /\ hi * IMM_SIZE \in Word
        BY <3>1, UpperHalf, Zenon
      <3> QED  BY <3>2
    <2>3. ins.imm \in 0 .. IMM_SIZE - 1  BY <2>1 DEF ITypeInstr
    <2>4. ASSUME ins.op = "ori" PROVE v = hi * IMM_SIZE + ins.imm
      <3>1. out = Logic(ins.op, s, ins.imm)  BY <2>1, <2>4, ITypeTable
      <3>2. Logic(ins.op, s, ins.imm) = WordOf(Bits[s] \cup Bits[ins.imm])
        BY <2>4 DEF Logic
      <3> QED  BY <2>2, <2>3, <3>1, <3>2, HalvesJoined
    <2>5. ASSUME ins.op = "addiu"
          PROVE  v = Wrap((hi - Flag(ins.imm >= IMM_SIZE \div 2))
                            * IMM_SIZE + ins.imm)
      <3>1. out = {Add(s, SignExt(ins.imm, IMM_SIZE))}
        BY <2>1, <2>5, ITypeTable
      <3> QED  BY <2>2, <2>3, <3>1, HalvesAdded
    <2> QED  BY <2>4, <2>5
  <1>2. Spec => []Executed  BY ExecutedInvariant
  <1> QED  BY <1>1, <1>2, PTL

-----------------------------------------------------------------------------
(* Reordering bits and bytes                                                *)

\* A place is a byte, one of four, and a place in the byte.
LEMMA ByteOfPlace ==
  ASSUME NEW k \in BitIndex
  PROVE  LET q == k \div BYTE_BITS
             r == k % BYTE_BITS
         IN  q \in 0 .. 3 /\ r \in 0 .. BYTE_BITS - 1 /\ k = BYTE_BITS * q + r
  <1> DEFINE b == BYTE_BITS  q == k \div b  r == k % b
  <1>1. b \in Nat \ {0} /\ k \in 0 .. 4 * b - 1
    BY AluAssumption DEF BitIndex
  <1> HIDE DEF b
  <1>2. q \in Int /\ r \in 0 .. b - 1 /\ k = b * q + r  BY <1>1, DivMod
  <1> HIDE DEF q, r
  <1>3. q >= 0
    <2> SUFFICES ASSUME q <= -1 PROVE FALSE  BY <1>2
    <2>1. b * q <= b * (-1)  BY <1>1, <1>2
    <2> QED  BY <1>1, <1>2, <2>1
  <1>4. q <= 3
    <2> SUFFICES ASSUME q >= 4 PROVE FALSE  BY <1>2
    <2>1. b * q >= b * 4  BY <1>1, <1>2
    <2> QED  BY <1>1, <1>2, <2>1
  <1>5. q \in 0 .. 3 /\ r \in 0 .. b - 1 /\ k = b * q + r
    BY <1>2, <1>3, <1>4
  <1> QED  BY <1>5 DEF q, r, b

LEMMA PlaceOfByte ==
  ASSUME NEW q \in 0 .. 3, NEW r \in 0 .. BYTE_BITS - 1
  PROVE  /\ q * BYTE_BITS + r \in BitIndex
         /\ (q * BYTE_BITS + r) \div BYTE_BITS = q
         /\ (q * BYTE_BITS + r) % BYTE_BITS = r
  <1> DEFINE b == BYTE_BITS
  <1>1. b \in Nat \ {0} /\ BitIndex = 0 .. 4 * b - 1
    BY AluAssumption DEF BitIndex
  <1>2. q * b = b * q /\ q \in Int /\ r \in 0 .. b - 1  BY <1>1
  <1>3. q = 0 \/ q = 1 \/ q = 2 \/ q = 3  OBVIOUS
  <1>4. b * q + r \in 0 .. 4 * b - 1  BY <1>1, <1>2, <1>3
  <1>5. (b * q + r) \div b = q /\ (b * q + r) % b = r  BY <1>1, <1>2, DivUnique
  <1> HIDE DEF b
  <1>6. q * b + r = b * q + r  BY <1>2
  <1>7. /\ q * b + r \in BitIndex /\ (q * b + r) \div b = q
        /\ (q * b + r) % b = r
    BY <1>1, <1>4, <1>5, <1>6, Zenon
  <1> QED  BY <1>7 DEF b

LEMMA MirroredTwice ==
  ASSUME NEW k \in BitIndex
  PROVE  MirroredBit(k) \in BitIndex /\ MirroredBit(MirroredBit(k)) = k
  <1> DEFINE b == BYTE_BITS  q == k \div b  r == k % b  m == b - 1 - r
  <1>1. b \in Nat \ {0}  BY AluAssumption
  <1>2. q \in 0 .. 3 /\ r \in 0 .. b - 1 /\ k = b * q + r
    BY ByteOfPlace
  <1>3. MirroredBit(k) = q * b + m  BY DEF MirroredBit
  <1> HIDE DEF q, r
  <1>4. m \in 0 .. b - 1 /\ b - 1 - m = r  BY <1>1, <1>2
  <1> HIDE DEF m
  <1>5. q * b + m \in BitIndex /\ (q * b + m) \div b = q /\ (q * b + m) % b = m
    BY <1>2, <1>4, PlaceOfByte
  <1>6. MirroredBit(q * b + m) = q * b + (b - 1 - m)
    BY <1>5 DEF MirroredBit
  <1> HIDE DEF b
  <1>7. q * b + (b - 1 - m) = k  BY <1>1, <1>2, <1>4
  <1> QED  BY <1>3, <1>5, <1>6, <1>7

LEMMA SwappedTwice ==
  ASSUME NEW k \in BitIndex
  PROVE  SwappedBit(k) \in BitIndex /\ SwappedBit(SwappedBit(k)) = k
  <1> DEFINE b == BYTE_BITS  q == k \div b  r == k % b
             other == IF q % 2 = 0 THEN q + 1 ELSE q - 1
  <1>1. b \in Nat \ {0}  BY AluAssumption
  <1>2. q \in 0 .. 3 /\ r \in 0 .. b - 1 /\ k = b * q + r
    BY ByteOfPlace
  <1>3. SwappedBit(k) = IF q % 2 = 0 THEN k + b ELSE k - b
    BY DEF SwappedBit
  <1> HIDE DEF q, r
  <1>4. /\ other \in 0 .. 3 /\ (other % 2 = 0 <=> ~(q % 2 = 0))
        /\ q % 2 = 0 => other = q + 1
        /\ ~(q % 2 = 0) => other = q - 1
    <2>1. q = 0 \/ q = 1 \/ q = 2 \/ q = 3  BY <1>2
    <2> QED  BY <2>1
  <1> HIDE DEF other
  <1>5. SwappedBit(k) = other * b + r
    BY <1>1, <1>2, <1>3, <1>4
  <1>6. other * b + r \in BitIndex /\ (other * b + r) \div b = other
    BY <1>2, <1>4, PlaceOfByte
  <1> DEFINE z == other * b + r
  <1>7. z = IF q % 2 = 0 THEN k + b ELSE k - b  BY <1>3, <1>5
  <1>8. SwappedBit(z) = IF other % 2 = 0 THEN z + b ELSE z - b
    <2>1. z \div b = other  BY <1>6
    <2> HIDE DEF z
    <2> QED  BY <2>1 DEF SwappedBit
  <1>9. SwappedBit(z) = k
    <2>1. k \in Int /\ b \in Int  BY <1>1, <1>2
    <2> HIDE DEF b, z
    <2> QED  BY <1>4, <1>7, <1>8, <2>1
  <1> QED  BY <1>5, <1>6, <1>9

LEMMA BshflTable ==
  ASSUME NEW i, NEW x, NEW y
  PROVE  /\ i.op = "bitswap" =>
              BshflOutcomes(i, x, y) = WordOf({MirroredBit(k) : k \in Bits[y]})
         /\ i.op = "wsbh" =>
              BshflOutcomes(i, x, y) = WordOf({SwappedBit(k) : k \in Bits[y]})
         /\ i.op = "align_0" => BshflOutcomes(i, x, y) = Align(0, x, y)
         /\ i.op = "align_1" => BshflOutcomes(i, x, y) = Align(1, x, y)
         /\ i.op = "align_2" => BshflOutcomes(i, x, y) = Align(2, x, y)
         /\ i.op = "align_3" => BshflOutcomes(i, x, y) = Align(3, x, y)
         /\ i.op = "seb" => BshflOutcomes(i, x, y) = SignExtendLow(y, BYTE_BITS)
         /\ i.op = "seh" => BshflOutcomes(i, x, y) = SignExtendLow(y, 2 * BYTE_BITS)
  BY DEF BshflOutcomes

\* BITSWAP and WSBH are their own inverses, for every word width (executor.hpp:
\* 639-666).
THEOREM SwapsInvolutiveAlways == Spec => []SwapsInvolutive
  <1>1. Executed => SwapsInvolutive
    <2> SUFFICES ASSUME Executed, ins.op \in {"bitswap", "wsbh"}, NEW v \in out
                 PROVE  BshflOutcomes(ins, 0, v) = {t}
      BY DEF SwapsInvolutive
    <2>1. t \in Word /\ out = BshflOutcomes(ins, s, t)
      BY RecordedByOp DEF BshflOps
    <2>2. WordOf(Bits[t]) = {t} /\ Bits[t] \in SUBSET BitIndex
      BY <2>1, WordOfBits, BitsSubset
    <2>3. CASE ins.op = "bitswap"
      <3> DEFINE F == {MirroredBit(k) : k \in Bits[t]}
      <3>1. F \in SUBSET BitIndex /\ {MirroredBit(k) : k \in F} = Bits[t]
        BY <2>2, MirroredTwice
      <3>2. out = WordOf(F)  BY <2>1, <2>3, BshflTable
      <3> HIDE DEF F
      <3>3. Bits[v] = F  BY <3>2 DEF WordOf
      <3>4. BshflOutcomes(ins, 0, v) = WordOf({MirroredBit(k) : k \in Bits[v]})
        BY <2>3, BshflTable
      <3> QED  BY <2>2, <3>1, <3>3, <3>4
    <2>4. CASE ins.op = "wsbh"
      <3> DEFINE F == {SwappedBit(k) : k \in Bits[t]}
      <3>1. F \in SUBSET BitIndex /\ {SwappedBit(k) : k \in F} = Bits[t]
        BY <2>2, SwappedTwice
      <3>2. out = WordOf(F)  BY <2>1, <2>4, BshflTable
      <3> HIDE DEF F
      <3>3. Bits[v] = F  BY <3>2 DEF WordOf
      <3>4. BshflOutcomes(ins, 0, v) = WordOf({SwappedBit(k) : k \in Bits[v]})
        BY <2>4, BshflTable
      <3> QED  BY <2>2, <3>1, <3>3, <3>4
    <2> QED  BY <2>3, <2>4
  <1>2. Spec => []Executed  BY ExecutedInvariant
  <1> QED  BY <1>1, <1>2, PTL

\* A window that starts below the upper of two words side by side.
LEMMA WindowValue ==
  ASSUME NEW p \in Nat \ {0}, NEW u \in Nat \ {0}, NEW x \in Nat, NEW y \in Nat,
         (x \div u) + (y % u) * p \in 0 .. p * u - 1
  PROVE  ((y * (p * u) + x) \div u) % (p * u) = (x \div u) + (y % u) * p
  <1> DEFINE a == x \div u  r == x % u  h == y \div u  l == y % u
  <1>1. a \in Int /\ r \in 0 .. u - 1 /\ x = u * a + r  BY DivMod
  <1>2. h \in Int /\ l \in Int /\ y = u * h + l
    <2>1. l \in 0 .. u - 1 /\ h \in Int /\ y = u * h + l  BY DivMod
    <2> QED  BY <2>1
  <1>3. a + l * p \in 0 .. p * u - 1  OBVIOUS
  <1> HIDE DEF a, r, h, l
  <1>4. y * (p * u) + x = u * (y * p + a) + r  BY <1>1
  <1>5. (u * (y * p + a) + r) \div u = y * p + a
    <2>1. y * p + a \in Int  BY <1>1
    <2> QED  BY <1>1, <2>1, DivUnique
  <1>6. y * p + a = (p * u) * h + (a + l * p)
    <2>1. (u * h + l) * p = (p * u) * h + l * p  BY <1>2
    <2>2. y * p = (p * u) * h + l * p  BY <1>2, <2>1, Zenon
    <2>3. (p * u) * h \in Int /\ l * p \in Int  BY <1>2
    <2>4. \A i, j, k \in Int : i + j + k = i + (k + j)  OBVIOUS
    <2>5. (p * u) * h + l * p + a = (p * u) * h + (a + l * p)
      BY <1>1, <2>3, <2>4
    <2> QED  BY <2>2, <2>5, Zenon
  <1>7. ((p * u) * h + (a + l * p)) % (p * u) = a + l * p
    <2>1. p * u \in Nat \ {0}  OBVIOUS
    <2> QED  BY <1>2, <1>3, <2>1, DivUnique
  <1> QED  BY <1>4, <1>5, <1>6, <1>7, Zenon DEF a, l

LEMMA AlignValue ==
  ASSUME NEW x \in Word, NEW y \in Word, NEW bp \in 0 .. 3
  PROVE  Align(bp, x, y)
           = {((y * MODULUS + x) \div Pow(BYTE_BITS * (4 - bp))) % MODULUS}
  <1> DEFINE n == BYTE_BITS * bp  m == BYTE_BITS * (4 - bp)
  <1>1. BYTE_BITS \in Nat \ {0} /\ WORD_BITS = 4 * BYTE_BITS  BY AluAssumption
  <1>2. n \in 0 .. WORD_BITS /\ m \in 0 .. WORD_BITS /\ m = WORD_BITS - n
        /\ n = WORD_BITS - m
    <2>1. bp = 0 \/ bp = 1 \/ bp = 2 \/ bp = 3  OBVIOUS
    <2> QED  BY <1>1, <2>1
  <1>n. bp = 0 => n = 0 /\ m = WORD_BITS  BY <1>1
  <1>3. Align(bp, x, y)
          = WordOf(Up(Bits[y], n) \cup (IF bp = 0 THEN {} ELSE Down(Bits[x], m)))
    BY DEF Align
  <1> HIDE DEF n, m
  <1>4. n \in Place /\ m \in Place /\ n <= WORD_BITS /\ WORD_BITS \in Place
    BY <1>1, <1>2 DEF Place
  <1>5. /\ Pow(n) \in Nat \ {0} /\ Pow(m) \in Nat \ {0}
        /\ MODULUS = Pow(n) * Pow(m)
    <2>1. Pow(WORD_BITS) = Pow(n) * Pow(WORD_BITS - n)  BY <1>4, PowMonotone
    <2>2. MODULUS = Pow(n) * Pow(m)  BY <1>2, <2>1, PowWord
    <2> QED  BY <1>4, <2>2, PowNat DEF Place
  <1>6. x \in Nat /\ y \in Nat /\ MODULUS \in Nat \ {0}
    BY PowWord DEF Word
  <1>7. CASE bp = 0
    <2>1. WordOf(Up(Bits[y], n)) = {y}
      <3>1. Wrap(y * Pow(n)) = y
        <4>1. y * 1 = y  BY <1>6
        <4> QED  BY <1>n, <1>7, <4>1, PowZero, WrapId
      <3> QED  BY <1>4, <3>1, UpWord
    <2>2. ((y * MODULUS + x) \div Pow(m)) % MODULUS = y
      <3>1. Pow(m) = MODULUS  BY <1>n, <1>7, PowWord
      <3>2. (MODULUS * y + x) \div MODULUS = y
        <4>1. x \in 0 .. MODULUS - 1 /\ y \in Int  BY <1>6 DEF Word
        <4> QED  BY <1>6, <4>1, DivUnique
      <3>3. MODULUS * y + x = y * MODULUS + x  BY <1>6
      <3>4. y % MODULUS = y  BY WrapId DEF Wrap
      <3> QED  BY <3>1, <3>2, <3>3, <3>4, Zenon
    <2>3. Up(Bits[y], n) \cup {} = Up(Bits[y], n)  OBVIOUS
    <2> QED  BY <1>3, <1>7, <2>1, <2>2, <2>3 DEF m
  <1>8. CASE bp # 0
    <2> DEFINE a == x \div Pow(m)  v == a + (y % Pow(m)) * Pow(n)
    <2>1. a \in Word /\ a \in 0 .. Pow(n) - 1
      <3>1. WORD_BITS - m = n  BY <1>1, <1>2
      <3> QED  BY <1>4, <3>1, DivWord
    <2>2. Bits[a] = Down(Bits[x], m)
      <3>1. WordOf(Down(Bits[x], m)) = {a}  BY <1>4, DownWord
      <3> HIDE DEF a
      <3> QED  BY <3>1 DEF WordOf
    <2>3. v \in Word /\ WordOf(Bits[a] \cup Up(Bits[y], n)) = {v}
      <3> HIDE DEF a
      <3>1. LET w == a + (y % Pow(WORD_BITS - n)) * Pow(n)
            IN  w \in Word /\ WordOf(Bits[a] \cup Up(Bits[y], n)) = {w}
        BY <1>4, <2>1, JoinWord
      <3> QED  BY <1>2, <3>1
    <2>4. ((y * MODULUS + x) \div Pow(m)) % MODULUS = v
      <3>1. v \in 0 .. Pow(n) * Pow(m) - 1  BY <1>5, <2>3 DEF Word
      <3> QED  BY <1>5, <1>6, <3>1, WindowValue
    <2>5. Up(Bits[y], n) \cup Down(Bits[x], m) = Bits[a] \cup Up(Bits[y], n)
      BY <2>2
    <2> HIDE DEF v
    <2> QED  BY <1>3, <1>8, <2>3, <2>4, <2>5 DEF m
  <1> QED  BY <1>7, <1>8

\* ALIGN is a window on rt and rs side by side, at position 0 rt alone: no byte
\* is lost, repeated or taken from the wrong end (executor.hpp:667-690).
THEOREM AlignWindowAlways == Spec => []AlignWindow
  <1>1. Executed => AlignWindow
    <2> SUFFICES ASSUME Executed,
                        ins.op \in {"align_0", "align_1", "align_2", "align_3"}
                 PROVE  out = {((t * MODULUS + s)
                                 \div 2 ^ (BYTE_BITS * (4 - AlignPosition(ins.op))))
                               % MODULUS}
      BY DEF AlignWindow
    <2> DEFINE bp == AlignPosition(ins.op)
    <2>1. s \in Word /\ t \in Word /\ out = BshflOutcomes(ins, s, t)
      BY RecordedByOp DEF BshflOps
    <2>2. bp \in 0 .. 3 /\ BshflOutcomes(ins, s, t) = Align(bp, s, t)
      <3>1. /\ ins.op = "align_0" => bp = 0
            /\ ins.op = "align_1" => bp = 1
            /\ ins.op = "align_2" => bp = 2
            /\ ins.op = "align_3" => bp = 3
        BY DEF AlignPosition
      <3>2. /\ ins.op = "align_0" => BshflOutcomes(ins, s, t) = Align(0, s, t)
            /\ ins.op = "align_1" => BshflOutcomes(ins, s, t) = Align(1, s, t)
            /\ ins.op = "align_2" => BshflOutcomes(ins, s, t) = Align(2, s, t)
            /\ ins.op = "align_3" => BshflOutcomes(ins, s, t) = Align(3, s, t)
        BY DEF BshflOutcomes
      <3> HIDE DEF bp
      <3> QED  BY <3>1, <3>2
    <2> HIDE DEF bp
    <2>3. Align(bp, s, t)
            = {((t * MODULUS + s) \div Pow(BYTE_BITS * (4 - bp))) % MODULUS}
      BY <2>1, <2>2, AlignValue
    <2> QED  BY <2>1, <2>2, <2>3, Zenon DEF Pow, bp
  <1>2. Spec => []Executed  BY ExecutedInvariant
  <1> QED  BY <1>1, <1>2, PTL

-----------------------------------------------------------------------------
(* Fields                                                                   *)

\* The size of a field wraps: it fits the word exactly if its ends are in order.
LEMMA FieldSize ==
  ASSUME NEW lsb \in BitIndex, NEW msb \in BitIndex
  PROVE  /\ FieldFits(lsb, Wrap(msb - lsb + 1)) <=> lsb <= msb
         /\ lsb <= msb => Wrap(msb - lsb + 1) = msb - lsb + 1
  <1> DEFINE n == msb - lsb + 1
  <1>1. /\ WORD_BITS \in Nat \ {0} /\ lsb \in 0 .. WORD_BITS - 1
        /\ msb \in 0 .. WORD_BITS - 1
    BY WordAssumption DEF BitIndex
  <1>2. /\ MODULUS \in Nat /\ WORD_BITS + WORD_BITS <= MODULUS
        /\ Word = 0 .. MODULUS - 1
    <2>1. WORD_BITS - 1 \in Place  BY <1>1 DEF Place
    <2>2. Pow(WORD_BITS - 1) > WORD_BITS - 1  BY <2>1, PowNat
    <2>3. SIGN_BIT > WORD_BITS - 1  BY <2>2, PowWord
    <2> QED  BY <1>1, <2>3, WordAssumption DEF MODULUS, Word
  <1>3. n \in Int  BY <1>1
  <1>4. CASE lsb <= msb
    <2>1. n \in Word  BY <1>1, <1>2, <1>4
    <2>2. Wrap(n) = n  BY <2>1, WrapId
    <2>3. FieldFits(lsb, n)  BY <1>1, <1>4 DEF FieldFits
    <2> QED  BY <1>4, <2>2, <2>3
  <1>5. CASE n = 0
    <2>1. Wrap(n) = 0  BY <1>5, WordInt, WrapId
    <2>2. ~(lsb <= msb)  BY <1>1, <1>5
    <2> HIDE DEF n
    <2>3. ~FieldFits(lsb, Wrap(n))  BY <2>1 DEF FieldFits
    <2> QED  BY <2>2, <2>3 DEF n
  <1>6. CASE n < 0
    <2>1. Wrap(n) = n + MODULUS
      <3>1. -MODULUS <= n  BY <1>1, <1>2
      <3> HIDE DEF n
      <3> QED  BY <1>3, <1>6, <3>1, WrapBelow
    <2>2. n + MODULUS > WORD_BITS /\ ~(lsb <= msb)  BY <1>1, <1>2, <1>6
    <2> HIDE DEF n
    <2>3. ~FieldFits(lsb, Wrap(n))  BY <2>1, <2>2 DEF FieldFits
    <2> QED  BY <2>2, <2>3 DEF n
  <1>7. lsb <= msb \/ n = 0 \/ n < 0  BY <1>1
  <1> QED  BY <1>4, <1>5, <1>6, <1>7

\* The bits of an insertion.
LEMMA InsertedBits ==
  ASSUME NEW i, i.sa \in BitIndex, i.rd \in BitIndex,
         NEW x \in Word, NEW y \in Word, NEW v \in InsOutcomes(i, x, y)
  PROVE  /\ i.sa <= i.rd /\ v \in Word
         /\ \A k \in BitIndex :
              /\ k < i.sa => (Bit(v, k) <=> Bit(y, k))
              /\ k >= i.sa /\ k <= i.rd => (Bit(v, k) <=> Bit(x, k - i.sa))
              /\ k > i.rd => (Bit(v, k) <=> Bit(y, k))
  <1> DEFINE lsb == i.sa  msb == i.rd  size == msb - lsb + 1
             low == {k \in Bits[x] : k < size}
             B == (Bits[y] \ (lsb .. lsb + size - 1)) \cup Up(low, lsb)
  <1>0. BitIndex = 0 .. WORD_BITS - 1 /\ WORD_BITS \in Nat /\ lsb \in Int /\ msb \in Int
    BY WordAssumption DEF BitIndex
  <1>1. FieldFits(lsb, Wrap(size))
    BY DEF InsOutcomes
  <1>2. lsb <= msb /\ Wrap(size) = size  BY <1>1, FieldSize
  <1>3. InsOutcomes(i, x, y) = WordOf(B)
    BY <1>1, <1>2 DEF InsOutcomes
  <1>4. v \in Word /\ Bits[v] = B
    <2> HIDE DEF B
    <2> QED  BY <1>3 DEF WordOf
  <1>5. ASSUME NEW k \in BitIndex
        PROVE  /\ k < lsb => (Bit(v, k) <=> Bit(y, k))
               /\ k >= lsb /\ k <= msb => (Bit(v, k) <=> Bit(x, k - lsb))
               /\ k > msb => (Bit(v, k) <=> Bit(y, k))
    <2>1. Bit(v, k) <=> k \in B  BY <1>4, BitsMember
    <2>2. /\ k \in Bits[y] <=> Bit(y, k)
          /\ k - lsb \in Bits[x] <=> k - lsb \in BitIndex /\ Bit(x, k - lsb)
      BY BitsMember
    <2>3. k \in Up(low, lsb) <=> k - lsb \in Bits[x] /\ k - lsb < size
      BY DEF Up
    <2>4. k \in B <=> \/ k \in Bits[y] /\ k \notin lsb .. lsb + size - 1
                      \/ k \in Up(low, lsb)
      OBVIOUS
    <2>5. k \in lsb .. lsb + size - 1 <=> k >= lsb /\ k <= msb
      BY <1>0
    <2>6. /\ k < lsb => k - lsb \notin BitIndex /\ ~(k >= lsb)
          /\ k >= lsb /\ k <= msb => k - lsb \in BitIndex /\ k - lsb < size
          /\ k > msb => ~(k - lsb < size) /\ ~(k <= msb)
      BY <1>0
    <2> HIDE DEF B, size, low, lsb, msb
    <2>7. k < lsb => (Bit(v, k) <=> Bit(y, k))
      BY <2>1, <2>2, <2>3, <2>4, <2>5, <2>6
    <2>8. k >= lsb /\ k <= msb => (Bit(v, k) <=> Bit(x, k - lsb))
      BY <2>1, <2>2, <2>3, <2>4, <2>5, <2>6
    <2>9. k > msb => (Bit(v, k) <=> Bit(y, k))
      BY <2>1, <2>2, <2>3, <2>4, <2>5, <2>6
    <2> QED  BY <2>7, <2>8, <2>9
  <1> QED  BY <1>2, <1>4, <1>5

\* INS writes the low bits of rs into the field it names and leaves the bits
\* below and above it alone, and EXT of the same field returns them, for every
\* word width and every field (executor.hpp:712-759).
THEOREM InsertExtractAlways == Spec => []InsertExtract
  <1>1. Executed => InsertExtract
    <2> DEFINE lsb == ins.sa  msb == ins.rd  size == msb - lsb + 1
               field == [ins EXCEPT !.rd = size - 1]
    <2> SUFFICES ASSUME Executed, ins.op = "ins", NEW v \in out
                 PROVE  /\ ExtOutcomes(field, v) = {s % 2 ^ size}
                        /\ v % 2 ^ lsb = t % 2 ^ lsb
                        /\ v \div 2 ^ (msb + 1) = t \div 2 ^ (msb + 1)
      BY DEF InsertExtract
    <2>1. /\ s \in Word /\ t \in Word /\ ins \in InsInstr
          /\ v \in InsOutcomes(ins, s, t)
      BY RecordedByOp
    <2>2. lsb \in BitIndex /\ msb \in BitIndex  BY <2>1 DEF InsInstr
    <2>3. field.sa = lsb /\ field.rd = size - 1  BY <2>1 DEF InsInstr
    <2> HIDE DEF field
    <2>4. lsb <= msb /\ v \in Word
      BY <2>1, <2>2, InsertedBits
    <2>5. ASSUME NEW k \in BitIndex
          PROVE  /\ k < lsb => (Bit(v, k) <=> Bit(t, k))
                 /\ k >= lsb /\ k <= msb => (Bit(v, k) <=> Bit(s, k - lsb))
                 /\ k > msb => (Bit(v, k) <=> Bit(t, k))
      BY <2>1, <2>2, InsertedBits
    <2> HIDE DEF lsb, msb
    <2>6. /\ WORD_BITS \in Nat \ {0} /\ BitIndex = 0 .. WORD_BITS - 1
          /\ Place = 0 .. WORD_BITS
      BY WordAssumption DEF BitIndex, Place
    <2>7. /\ size \in Place /\ lsb \in Place /\ msb + 1 \in Place
          /\ WORD_BITS - (msb + 1) \in Place
      BY <2>2, <2>4, <2>6
    <2>8. /\ s \in Int /\ t \in Int /\ v \in Int
          /\ s \in Nat /\ t \in Nat /\ v \in Nat
      BY <2>1, <2>4, PowWord DEF Word
    <2>9. ExtOutcomes(field, v) = {s % Pow(size)}
      <3> DEFINE B == {k \in Down(Bits[v], lsb) : k < size}
      <3>1. FieldFits(lsb, size)  BY <2>2, <2>4, <2>6 DEF FieldFits
      <3>2. ExtOutcomes(field, v) = WordOf(B)
        <4>1. field.rd + 1 = size  BY <2>2, <2>3, <2>6
        <4> HIDE DEF size
        <4> QED  BY <2>3, <3>1, <4>1 DEF ExtOutcomes
      <3>3. s % Pow(size) \in Word
        <4>1. Pow(size) \in Nat \ {0}
          <5> HIDE DEF size
          <5> QED  BY <2>7, PowNat DEF Place
        <4>2. \A x \in Nat, p \in Nat \ {0} : x % p \in 0 .. x
          <5> SUFFICES ASSUME NEW x \in Nat, NEW p \in Nat \ {0} PROVE x % p \in 0 .. x
            OBVIOUS
          <5>1. x \div p \in Nat /\ x % p \in 0 .. p - 1 /\ x = p * (x \div p) + (x % p)
            OBVIOUS
          <5>2. \A q \in Nat : p * q \in Nat  OBVIOUS
          <5> QED  BY <5>1, <5>2
        <4>3. s % Pow(size) \in 0 .. s  BY <2>8, <4>1, <4>2
        <4> QED  BY <2>1, <4>3, PowWord DEF Word
      <3>4. B \in SUBSET BitIndex  BY DEF Down
      <3>5. ASSUME NEW k \in BitIndex PROVE Bit(s % Pow(size), k) <=> k \in B
        <4>1. k \in Place  BY <2>6
        <4>2. Bit(s % Pow(size), k) <=> k < size /\ Bit(s, k)
          <5> HIDE DEF size
          <5> QED  BY <2>7, <2>8, <4>1, BitLow
        <4>3. k \in B <=> k + lsb \in Bits[v] /\ k < size  BY DEF Down
        <4>4. k < size => /\ k + lsb \in BitIndex /\ k + lsb >= lsb
                          /\ k + lsb <= msb /\ (k + lsb) - lsb = k
          BY <2>2, <2>4, <2>6
        <4>5. k + lsb \in Bits[v] <=> k + lsb \in BitIndex /\ Bit(v, k + lsb)
          BY <2>4, BitsMember
        <4>6. k < size => (Bit(v, k + lsb) <=> Bit(s, k))
          <5> SUFFICES ASSUME k < size PROVE Bit(v, k + lsb) <=> Bit(s, k)
            OBVIOUS
          <5> DEFINE j == k + lsb
          <5>1. j \in BitIndex /\ j >= lsb /\ j <= msb /\ j - lsb = k  BY <4>4
          <5> HIDE DEF j
          <5>2. Bit(v, j) <=> Bit(s, j - lsb)  BY <2>5, <5>1
          <5> QED  BY <5>1, <5>2 DEF j
        <4> HIDE DEF B, size
        <4> QED  BY <4>2, <4>3, <4>4, <4>5, <4>6
      <3> HIDE DEF B, size
      <3> QED  BY <3>2, <3>3, <3>4, <3>5, WordOfIs
    <2>10. v % Pow(lsb) = t % Pow(lsb)
      <3>1. Pow(lsb) \in Nat \ {0}  BY <2>7, PowNat DEF Place
      <3>2. v % Pow(lsb) \in 0 .. Pow(lsb) - 1 /\ t % Pow(lsb) \in 0 .. Pow(lsb) - 1
        BY <2>8, <3>1, DivMod
      <3>3. ASSUME NEW k \in 0 .. lsb - 1
            PROVE  Bit(v % Pow(lsb), k) <=> Bit(t % Pow(lsb), k)
        <4>1. k \in BitIndex /\ k \in Place /\ k < lsb  BY <2>2, <2>6
        <4> QED  BY <2>5, <2>7, <2>8, <4>1, BitLow
      <3> QED  BY <2>7, <3>2, <3>3, BitsDecide
    <2>11. v \div Pow(msb + 1) = t \div Pow(msb + 1)
      <3> DEFINE n == msb + 1  m == WORD_BITS - n
      <3>1. /\ n \in Place /\ m \in Place /\ n \in Nat
            /\ \A k \in 0 .. m - 1 : /\ k \in Nat /\ n + k <= WORD_BITS
                                     /\ k + n \in BitIndex /\ k + n > msb
        BY <2>2, <2>6, <2>7
      <3> HIDE DEF n
      <3>2. v \div Pow(n) \in 0 .. Pow(m) - 1 /\ t \div Pow(n) \in 0 .. Pow(m) - 1
        BY <2>1, <2>4, <3>1, DivWord
      <3> HIDE DEF m
      <3>3. ASSUME NEW k \in 0 .. m - 1
            PROVE  Bit(v \div Pow(n), k) <=> Bit(t \div Pow(n), k)
        <4>1. /\ Bit(v \div Pow(n), k) <=> Bit(v, k + n)
              /\ Bit(t \div Pow(n), k) <=> Bit(t, k + n)
          BY <2>8, <3>1, BitDown
        <4>2. Bit(v, k + n) <=> Bit(t, k + n)  BY <2>5, <3>1
        <4> QED  BY <4>1, <4>2
      <3>4. v \div Pow(n) = t \div Pow(n)  BY <3>1, <3>2, <3>3, BitsDecide
      <3> QED  BY <3>4 DEF n
    <2> HIDE DEF size
    <2> QED  BY <2>9, <2>10, <2>11, Zenon DEF Pow
  <1>2. Spec => []Executed  BY ExecutedInvariant
  <1> QED  BY <1>1, <1>2, PTL

-----------------------------------------------------------------------------
(* The number of outcomes                                                   *)

\* A computation the code defines: one word.
One(S) == \E x \in Word : S = {x}

LEMMA OneWrap == ASSUME NEW n \in Int PROVE One({Wrap(n)})
  BY WrapWord DEF One

LEMMA OneFlag == ASSUME NEW p PROVE One({Flag(p)})
  <1>1. 0 \in Word /\ 1 \in Word  BY WordAssumption DEF Word, MODULUS
  <1> QED  BY <1>1 DEF One, Flag

LEMMA OneWordOf == ASSUME NEW B \in SUBSET BitIndex PROVE One(WordOf(B))
  BY WordOfOne DEF One

LEMMA UpDownPlaces ==
  ASSUME NEW B, NEW n PROVE Up(B, n) \subseteq BitIndex /\ Down(B, n) \subseteq BitIndex
  BY DEF Up, Down

LEMMA OneLogic ==
  ASSUME NEW op \in {"and", "andi", "nor", "or", "ori", "xor", "xori"},
         NEW x \in Word, NEW y \in Word
  PROVE  One(Logic(op, x, y))
  <1>1. Bits[x] \in SUBSET BitIndex /\ Bits[y] \in SUBSET BitIndex
    BY BitsSubset
  <1>2. /\ Bits[x] \cap Bits[y] \in SUBSET BitIndex
        /\ Bits[x] \cup Bits[y] \in SUBSET BitIndex
        /\ Xor(Bits[x], Bits[y]) \in SUBSET BitIndex
        /\ BitIndex \ (Bits[x] \cup Bits[y]) \in SUBSET BitIndex
    BY <1>1 DEF Xor
  <1>3. /\ One(WordOf(Bits[x] \cap Bits[y])) /\ One(WordOf(Bits[x] \cup Bits[y]))
        /\ One(WordOf(Xor(Bits[x], Bits[y])))
        /\ One(WordOf(BitIndex \ (Bits[x] \cup Bits[y])))
    BY <1>2, OneWordOf
  <1> QED  BY <1>3 DEF Logic

LEMMA OneSop ==
  ASSUME NEW shamt, NEW a \in Int, NEW b \in Int PROVE One(Sop(shamt, a, b))
  BY OneWrap DEF Sop

LEMMA OneMultiply ==
  ASSUME NEW op \in {"sop30", "sop31"}, NEW shamt, NEW x \in Word, NEW y \in Word
  PROVE  One(Multiply(op, shamt, x, y))
  <1>1. /\ x * y \in Int /\ HiMul(x, y) \in Int
        /\ Signed(x) * Signed(y) \in Int /\ HiMul(Signed(x), Signed(y)) \in Int
    BY HighHalf, WrapWord, WordInt DEF HiMul
  <1>2. One(Sop(shamt, x * y, HiMul(x, y)))  BY <1>1, OneSop
  <1>3. One(Sop(shamt, Signed(x) * Signed(y), HiMul(Signed(x), Signed(y))))
    BY <1>1, OneSop
  <1> QED  BY <1>2, <1>3 DEF Multiply

LEMMA OneDivide ==
  ASSUME NEW op \in DivisionOps, NEW shamt, NEW x \in Word, NEW y \in Word
  PROVE  /\ y = 0 => Divide(op, shamt, x, y) = {}
         /\ y # 0 => One(Divide(op, shamt, x, y))
  <1>1. ASSUME y # 0 PROVE One(Divide(op, shamt, x, y))
    <2>1. /\ Signed(x) \in Int /\ Signed(y) \in Int /\ Signed(y) # 0
          /\ x \in Int /\ y \in Nat \ {0}
      BY <1>1, WordAssumption DEF Signed, Word, MODULUS
    <2>2. /\ Quotient(Signed(x), Signed(y)) \in Int
          /\ Remainder(Signed(x), Signed(y)) \in Int
      BY <2>1, Truncation
    <2>3. x \div y \in Int /\ x % y \in Int
      BY <2>1
    <2>4. /\ One(Sop(shamt, Quotient(Signed(x), Signed(y)),
                     Remainder(Signed(x), Signed(y))))
          /\ One(Sop(shamt, x \div y, x % y))
      BY <2>2, <2>3, OneSop
    <2> QED  BY <1>1, <2>4 DEF Divide, DivisionOps
  <1> QED  BY <1>1 DEF Divide

\* Only the sign fill of a shift by 0 leaves a choice.
LEMMA ArithmeticOutcomes ==
  ASSUME NEW x \in Word, NEW n \in BitIndex
  PROVE  /\ ShiftRightArithmetic(x, n) \subseteq Word
         /\ ShiftRightArithmetic(x, n) # {}
         /\ ~(x >= SIGN_BIT) => One(ShiftRightArithmetic(x, n))
  <1> DEFINE Filled(fill) ==
        WordOf(Down(Bits[x], n) \cup (IF x >= SIGN_BIT THEN fill ELSE {}))
  <1>1. ShiftRightArithmetic(x, n) = UNION {Filled(fill) : fill \in SignFill(n)}
    BY DEF ShiftRightArithmetic
  <1>2. SignFill(n) # {} /\ \A fill \in SignFill(n) : fill \in SUBSET BitIndex
    BY WordAssumption DEF SignFill, BitIndex
  <1>3. \A fill \in SignFill(n) : One(Filled(fill))
    <2> SUFFICES ASSUME NEW fill \in SignFill(n) PROVE One(Filled(fill))
      OBVIOUS
    <2>1. Down(Bits[x], n) \cup (IF x >= SIGN_BIT THEN fill ELSE {})
            \in SUBSET BitIndex
      BY <1>2, UpDownPlaces
    <2> QED  BY <2>1, OneWordOf
  <1>4. ASSUME ~(x >= SIGN_BIT), NEW f \in SignFill(n), NEW g \in SignFill(n)
        PROVE  Filled(f) = Filled(g)
    BY <1>4
  <1> HIDE DEF Filled
  <1>5. PICK f \in SignFill(n) : TRUE  BY <1>2
  <1>6. ASSUME ~(x >= SIGN_BIT) PROVE ShiftRightArithmetic(x, n) = Filled(f)
    <2>1. \A fill \in SignFill(n) : Filled(fill) = Filled(f)  BY <1>4, <1>6
    <2> QED  BY <1>1, <2>1
  <1>7. ShiftRightArithmetic(x, n) \subseteq Word  BY <1>1, <1>3 DEF One
  <1>8. ShiftRightArithmetic(x, n) # {}  BY <1>1, <1>3, <1>5 DEF One
  <1> QED  BY <1>3, <1>6, <1>7, <1>8

LEMMA OneRotated ==
  ASSUME NEW x \in Word, NEW n, NEW rotate PROVE One(ShiftRight(x, n, rotate))
  <1>1. Rotated(x, n) \in SUBSET BitIndex /\ Down(Bits[x], n) \in SUBSET BitIndex
    BY UpDownPlaces DEF Rotated
  <1> QED  BY <1>1, OneWordOf DEF ShiftRight

LEMMA OneShift ==
  ASSUME NEW i, i.sa \in BitIndex, i.op \in ShiftOps, NEW x \in Word, NEW y \in Word
  PROVE  /\ ~(i.op \in {"sra", "srav"} /\ y >= SIGN_BIT) => One(Shift(i, x, y))
         /\ Shift(i, x, y) \subseteq Word /\ Shift(i, x, y) # {}
  <1>1. x % WORD_BITS \in BitIndex
    BY WordAssumption DEF Word, BitIndex, MODULUS
  <1>2. /\ i.op = "sll" => Shift(i, x, y) = WordOf(Up(Bits[y], i.sa))
        /\ i.op = "sllv" => Shift(i, x, y) = WordOf(Up(Bits[y], x % WORD_BITS))
        /\ i.op = "sra" => Shift(i, x, y) = ShiftRightArithmetic(y, i.sa)
        /\ i.op = "srav" => Shift(i, x, y) = ShiftRightArithmetic(y, x % WORD_BITS)
        /\ i.op = "srl" => Shift(i, x, y) = ShiftRight(y, i.sa, i.rs % 2 = 1)
        /\ i.op = "srlv" =>
             Shift(i, x, y) = ShiftRight(y, x % WORD_BITS, i.sa % 2 = 1)
    BY ShiftTable
  <1>3. One(WordOf(Up(Bits[y], i.sa))) /\ One(WordOf(Up(Bits[y], x % WORD_BITS)))
    BY UpDownPlaces, OneWordOf
  <1>4. /\ One(ShiftRight(y, i.sa, i.rs % 2 = 1))
        /\ One(ShiftRight(y, x % WORD_BITS, i.sa % 2 = 1))
    BY OneRotated
  <1>5. \A n \in BitIndex : /\ ShiftRightArithmetic(y, n) \subseteq Word
                            /\ ShiftRightArithmetic(y, n) # {}
                            /\ ~(y >= SIGN_BIT) => One(ShiftRightArithmetic(y, n))
    BY ArithmeticOutcomes
  <1>6. \A S : One(S) => S \subseteq Word /\ S # {}  BY DEF One
  <1>7. i.op \in {"sll", "sllv", "srl", "srlv"} => One(Shift(i, x, y))
    BY <1>2, <1>3, <1>4
  <1>8. i.op \in {"sra", "srav"} => /\ Shift(i, x, y) \subseteq Word
                                    /\ Shift(i, x, y) # {}
                                    /\ ~(y >= SIGN_BIT) => One(Shift(i, x, y))
    BY <1>1, <1>2, <1>5
  <1> QED  BY <1>6, <1>7, <1>8 DEF ShiftOps

\* Both counting loops end, with one count.
LEMMA OneCount ==
  ASSUME NEW x \in Word PROVE One(LeadingZeros(x)) /\ One(LeadingOnes(x))
  <1>1. ASSUME NEW y \in Word PROVE One(LeadingZeros(y))
    <2>1. CASE y = 0
      BY <2>1, LeadingZerosValue, PowWord DEF One
    <2>2. CASE y # 0
      <3>1. PICK c \in BitIndex : /\ SIGN_BIT <= y * Pow(c) /\ y * Pow(c) < MODULUS
                                  /\ \A k \in 0 .. c - 1 : y * Pow(k) < SIGN_BIT
        BY <2>2, LeadingPlace
      <3>2. LeadingZeros(y) = {c}  BY <2>2, <3>1, LeadingZerosValue
      <3>3. c \in Word  BY PowWord DEF BitIndex, Word
      <3> QED  BY <3>2, <3>3 DEF One
    <2> QED  BY <2>1, <2>2
  <1>2. MODULUS - 1 - x \in Word /\ MODULUS - 1 - (MODULUS - 1 - x) = x
    BY PowWord DEF Word
  <1>3. LeadingOnes(MODULUS - 1 - (MODULUS - 1 - x)) = LeadingZeros(MODULUS - 1 - x)
    BY <1>2, LeadingOnesComplement
  <1> QED  BY <1>1, <1>2, <1>3

LEMMA OneRType ==
  ASSUME NEW i \in RTypeInstr, NEW x \in Word, NEW y \in Word
  PROVE  LET S == RTypeOutcomes(i, x, y)
         IN  /\ i.op \in DivisionOps /\ y = 0 => S = {}
             /\ ~(i.op \in DivisionOps /\ y = 0) => S # {} /\ S \subseteq Word
             /\ ~(i.op \in DivisionOps /\ y = 0)
                /\ ~(i.op \in {"sra", "srav"} /\ y >= SIGN_BIT) => One(S)
  <1> DEFINE S == RTypeOutcomes(i, x, y)
  <1>0. i.op \in RTypeDataOps /\ i.sa \in BitIndex  BY DEF RTypeInstr
  <1>a. x \in Int /\ y \in Int /\ 0 \in Word  BY WordInt
  <1>1. i.op \in {"add", "addu", "sub", "subu"} => One(S)
    <2>1. x + y \in Int /\ x - y \in Int  BY <1>a
    <2>2. One({Add(x, y)}) /\ One({Wrap(x - y)})  BY <2>1, OneWrap DEF Add
    <2> QED  BY <2>2, RTypeTable
  <1>2. i.op \in {"sop30", "sop31"} => One(S)  BY OneMultiply, RTypeTable
  <1>3. i.op \in DivisionOps => (y = 0 => S = {}) /\ (y # 0 => One(S))
    <2>1. i.op \in DivisionOps => S = Divide(i.op, i.sa, x, y)  BY RTypeTable
    <2> HIDE DEF S
    <2> QED  BY <2>1, OneDivide
  <1>4. i.op \in {"and", "nor", "or", "xor"} => One(S)
    BY OneLogic, RTypeTable
  <1>5. i.op \in {"slt", "sltu"} => One(S)  BY OneFlag, RTypeTable
  <1>6. i.op \in ShiftOps =>
          /\ ~(i.op \in {"sra", "srav"} /\ y >= SIGN_BIT) => One(S)
          /\ S \subseteq Word /\ S # {}
    <2>1. i.op \in ShiftOps => S = Shift(i, x, y)  BY RTypeTable DEF ShiftOps
    <2> HIDE DEF S
    <2> QED  BY <1>0, <2>1, OneShift
  <1>7. i.op \in {"seleqz", "selnez"} => One(S)
    <2>1. One({IF y # 0 THEN 0 ELSE x}) /\ One({IF y # 0 THEN x ELSE 0})
      BY <1>a DEF One
    <2> QED  BY <2>1, RTypeTable
  <1>8. i.op \in {"clz", "clo"} => One(S)  BY OneCount, RTypeTable
  <1>9. One(S) => S # {} /\ S \subseteq Word  BY DEF One
  <1>10. \A op : op \in DivisionOps => op \notin ShiftOps
    BY DEF DivisionOps, ShiftOps
  <1> HIDE DEF S
  <1>11. \/ i.op \in {"add", "addu", "sub", "subu"} \/ i.op \in {"sop30", "sop31"}
         \/ i.op \in DivisionOps \/ i.op \in {"and", "nor", "or", "xor"}
         \/ i.op \in {"slt", "sltu"} \/ i.op \in ShiftOps
         \/ i.op \in {"seleqz", "selnez"} \/ i.op \in {"clz", "clo"}
    BY <1>0 DEF RTypeDataOps, ShiftOps
  <1>12. i.op \in DivisionOps =>
           i.op \notin {"add", "addu", "sub", "subu", "sop30", "sop31", "and",
                        "nor", "or", "xor", "slt", "sltu", "seleqz", "selnez",
                        "clz", "clo"}
    BY DEF DivisionOps
  <1>13. ASSUME i.op \in DivisionOps, y = 0 PROVE S = {}  BY <1>3, <1>13
  <1>14. ASSUME ~(i.op \in DivisionOps /\ y = 0),
                ~(i.op \in {"sra", "srav"} /\ y >= SIGN_BIT)
         PROVE  One(S)
    BY <1>1, <1>2, <1>3, <1>4, <1>5, <1>6, <1>7, <1>8, <1>11, <1>14
  <1>15. ASSUME ~(i.op \in DivisionOps /\ y = 0) PROVE S # {} /\ S \subseteq Word
    BY <1>6, <1>9, <1>14, <1>15 DEF ShiftOps
  <1> QED  BY <1>13, <1>14, <1>15 DEF S

LEMMA OneIType ==
  ASSUME NEW i \in ITypeInstr, NEW x \in Word PROVE One(ITypeOutcomes(i, x))
  <1>0. i.op \in ITypeDataOps /\ i.imm \in 0 .. IMM_SIZE - 1  BY DEF ITypeInstr
  <1>1. IMM_SIZE \in Nat \ {0}  BY AluAssumption
  <1>2. i.imm \in Int /\ i.imm * IMM_SIZE \in Int /\ x \in Int /\ i.imm \in Word
    <2>1. IMM_SIZE <= MODULUS
      <3>1. \A m \in Nat \ {0} : m <= m * m  OBVIOUS
      <3> QED  BY <1>1, <3>1, HalfWord
    <2> QED  BY <1>0, <1>1, <2>1, WordInt, PowWord DEF Word
  <1>3. \A y \in Int : One({Add(x, SignExt(y, IMM_SIZE))})
    <2> SUFFICES ASSUME NEW y \in Int PROVE One({Add(x, SignExt(y, IMM_SIZE))})
      OBVIOUS
    <2>1. SignExt(y, IMM_SIZE) \in Int  BY <1>1, SignExtWord, WordInt
    <2>2. x + SignExt(y, IMM_SIZE) \in Int  BY <1>2, <2>1
    <2> QED  BY <2>2, OneWrap DEF Add
  <1>4. i.op \in {"andi", "ori", "xori"} => One(Logic(i.op, x, i.imm))
    BY <1>2, OneLogic
  <1>5. i.op \in {"addiu", "aui"} => One(ITypeOutcomes(i, x))
    BY <1>2, <1>3, ITypeTable
  <1>6. i.op \in {"slti", "sltiu"} => One(ITypeOutcomes(i, x))
    BY OneFlag, ITypeTable
  <1>7. i.op \in {"andi", "ori", "xori"} => One(ITypeOutcomes(i, x))
    BY <1>4, ITypeTable
  <1> QED  BY <1>0, <1>5, <1>6, <1>7 DEF ITypeDataOps

LEMMA OneBshfl ==
  ASSUME NEW i \in BshflInstr, NEW x \in Word, NEW y \in Word
  PROVE  One(BshflOutcomes(i, x, y))
  <1>0. i.op \in BshflOps  BY DEF BshflInstr
  <1>1. Bits[y] \in SUBSET BitIndex  BY BitsSubset
  <1>2. /\ {MirroredBit(k) : k \in Bits[y]} \in SUBSET BitIndex
        /\ {SwappedBit(k) : k \in Bits[y]} \in SUBSET BitIndex
    BY <1>1, MirroredTwice, SwappedTwice
  <1>3. \A bp : One(Align(bp, x, y))
    <2> SUFFICES ASSUME NEW bp PROVE One(Align(bp, x, y))  OBVIOUS
    <2>1. Up(Bits[y], BYTE_BITS * bp)
            \cup (IF bp = 0 THEN {} ELSE Down(Bits[x], BYTE_BITS * (4 - bp)))
              \in SUBSET BitIndex
      BY UpDownPlaces
    <2> QED  BY <2>1, OneWordOf DEF Align
  <1>4. \A n \in Nat : One(SignExtendLow(y, n))
    <2> SUFFICES ASSUME NEW n \in Nat PROVE One(SignExtendLow(y, n))  OBVIOUS
    <2>1. n .. WORD_BITS - 1 \subseteq BitIndex  BY WordAssumption DEF BitIndex
    <2>2. {k \in Bits[y] : k < n}
            \cup (IF n - 1 \in Bits[y] THEN n .. WORD_BITS - 1 ELSE {})
              \in SUBSET BitIndex
      BY <1>1, <2>1
    <2> QED  BY <2>2, OneWordOf DEF SignExtendLow
  <1>5. BYTE_BITS \in Nat /\ 2 * BYTE_BITS \in Nat  BY AluAssumption
  <1>6. i.op \in {"bitswap", "wsbh"} => One(BshflOutcomes(i, x, y))
    BY <1>2, OneWordOf, BshflTable
  <1>7. i.op \in {"align_0", "align_1", "align_2", "align_3"} =>
          One(BshflOutcomes(i, x, y))
    <2>1. /\ One(Align(0, x, y)) /\ One(Align(1, x, y))
          /\ One(Align(2, x, y)) /\ One(Align(3, x, y))
      BY <1>3
    <2> QED  BY <2>1 DEF BshflOutcomes
  <1>8. i.op \in {"seb", "seh"} => One(BshflOutcomes(i, x, y))
    BY <1>4, <1>5, BshflTable
  <1> QED  BY <1>0, <1>6, <1>7, <1>8 DEF BshflOps

LEMMA OneField ==
  ASSUME NEW i, i.sa \in BitIndex, i.rd \in BitIndex, NEW x \in Word, NEW y \in Word
  PROVE  /\ IF i.sa + i.rd + 1 > WORD_BITS THEN ExtOutcomes(i, x) = {}
                                           ELSE One(ExtOutcomes(i, x))
         /\ IF i.rd < i.sa THEN InsOutcomes(i, x, y) = {}
                           ELSE One(InsOutcomes(i, x, y))
  <1> DEFINE lsb == i.sa  msb == i.rd
  <1>0. WORD_BITS \in Nat /\ lsb \in 0 .. WORD_BITS - 1 /\ msb \in 0 .. WORD_BITS - 1
    BY WordAssumption DEF BitIndex
  <1>1. FieldFits(lsb, msb + 1) <=> ~(lsb + msb + 1 > WORD_BITS)
    BY <1>0 DEF FieldFits
  <1>2. FieldFits(lsb, Wrap(msb - lsb + 1)) <=> ~(msb < lsb)
    <2>1. lsb <= msb <=> ~(msb < lsb)  BY <1>0
    <2> QED  BY <2>1, FieldSize
  <1>3. {k \in Down(Bits[x], lsb) : k < msb + 1} \in SUBSET BitIndex
    BY UpDownPlaces
  <1>4. \A B, C, D : (Bits[y] \ B) \cup Up(C, D) \in SUBSET BitIndex
    BY BitsSubset, UpDownPlaces
  <1>5. One(WordOf({k \in Down(Bits[x], lsb) : k < msb + 1}))
    BY <1>3, OneWordOf
  <1>6. \A B, C, D : One(WordOf((Bits[y] \ B) \cup Up(C, D)))
    BY <1>4, OneWordOf
  <1>7. IF lsb + msb + 1 > WORD_BITS THEN ExtOutcomes(i, x) = {}
                                     ELSE One(ExtOutcomes(i, x))
    BY <1>1, <1>5 DEF ExtOutcomes
  <1>8. IF msb < lsb THEN InsOutcomes(i, x, y) = {} ELSE One(InsOutcomes(i, x, y))
    BY <1>2, <1>6 DEF InsOutcomes
  <1> QED  BY <1>7, <1>8

\* An instruction has one outcome but for two cases of undefined behaviour and
\* the failures the handlers name; in particular the counting loops end for
\* every word of every width (executor.hpp:17-243, 248-306, 632-759).
THEOREM OutcomeCountAlways == Spec => []OutcomeCount
  <1> DEFINE Fails == \/ ins.op \in DivisionOps /\ t = 0
                      \/ ins.op = "ext" /\ ins.sa + ins.rd + 1 > WORD_BITS
                      \/ ins.op = "ins" /\ ins.rd < ins.sa
             Many == ins.op \in {"sra", "srav"} /\ t >= SIGN_BIT
  <1>1. Executed => /\ Fails => out = {}
                    /\ ~Fails => out # {} /\ out \subseteq Word
                    /\ ~Fails /\ ~Many => One(out)
    <2> SUFFICES ASSUME Executed
                 PROVE  /\ Fails => out = {}
                        /\ ~Fails => out # {} /\ out \subseteq Word
                        /\ ~Fails /\ ~Many => One(out)
      OBVIOUS
    <2>0. s \in Word /\ t \in Word /\ Recorded  BY DEF Executed
    <2>1. One(out) => out # {} /\ out \subseteq Word  BY DEF One
    <2>2. CASE ins \in RTypeInstr /\ out = RTypeOutcomes(ins, s, t)
      <3>1. /\ ins.op \in DivisionOps /\ t = 0 => out = {}
            /\ ~(ins.op \in DivisionOps /\ t = 0) => out # {} /\ out \subseteq Word
            /\ ~(ins.op \in DivisionOps /\ t = 0) /\ ~Many => One(out)
        BY <2>0, <2>2, OneRType
      <3>2. ins.op # "ext" /\ ins.op # "ins"
        BY <2>2 DEF RTypeInstr, RTypeDataOps, DivisionOps
      <3> QED  BY <3>1, <3>2
    <2>3. CASE ins \in ITypeInstr /\ out = ITypeOutcomes(ins, s)
      <3>1. One(out)  BY <2>0, <2>3, OneIType
      <3>2. ~Fails  BY <2>3 DEF ITypeInstr, ITypeDataOps, DivisionOps
      <3> QED  BY <2>1, <3>1, <3>2
    <2>4. CASE ins \in BshflInstr /\ out = BshflOutcomes(ins, s, t)
      <3>1. One(out)  BY <2>0, <2>4, OneBshfl
      <3>2. ~Fails  BY <2>4 DEF BshflInstr, BshflOps, DivisionOps
      <3> QED  BY <2>1, <3>1, <3>2
    <2>5. CASE ins \in ExtInstr /\ out = ExtOutcomes(ins, s)
      <3>1. ins.op = "ext" /\ ins.sa \in BitIndex /\ ins.rd \in BitIndex
        BY <2>5 DEF ExtInstr
      <3>2. Fails <=> ins.sa + ins.rd + 1 > WORD_BITS
        BY <3>1 DEF DivisionOps
      <3>3. IF ins.sa + ins.rd + 1 > WORD_BITS THEN out = {} ELSE One(out)
        BY <2>0, <2>5, <3>1, OneField
      <3> HIDE DEF Fails
      <3> QED  BY <2>1, <3>2, <3>3
    <2>6. CASE ins \in InsInstr /\ out = InsOutcomes(ins, s, t)
      <3>1. ins.op = "ins" /\ ins.sa \in BitIndex /\ ins.rd \in BitIndex
        BY <2>6 DEF InsInstr
      <3>2. Fails <=> ins.rd < ins.sa  BY <3>1 DEF DivisionOps
      <3>3. IF ins.rd < ins.sa THEN out = {} ELSE One(out)
        BY <2>0, <2>6, <3>1, OneField
      <3> HIDE DEF Fails
      <3> QED  BY <2>1, <3>2, <3>3
    <2>7. CASE ins \in BranchInstr /\ out = {0}
      <3>1. One(out)  BY <2>7, WordInt DEF One
      <3>2. ~Fails
        BY <2>7 DEF BranchInstr, BranchOps, ImmBranchOps, LongOps, RegimmOps,
                    DivisionOps
      <3> QED  BY <2>1, <3>1, <3>2
    <2> HIDE DEF Fails, Many
    <2> QED  BY <2>0, <2>2, <2>3, <2>4, <2>5, <2>6, <2>7 DEF Recorded
  <1> HIDE DEF Fails, Many
  <1>2. One(out) => Cardinality(out) = 1
    BY FS_Singleton DEF One
  <1>3. out = {} => Cardinality(out) = 0  BY FS_EmptySet
  <1>4. Executed => OutcomeCount
    <2> SUFFICES ASSUME Executed PROVE OutcomeCount  OBVIOUS
    <2>1. out \subseteq Word  BY <1>1
    <2>2. out = {} <=> Fails  BY <1>1
    <2>3. Cardinality(out) > 1 => Many
      <3> SUFFICES ASSUME ~Many PROVE ~(Cardinality(out) > 1)  OBVIOUS
      <3> QED  BY <1>1, <1>2, <1>3
    <2> QED  BY <2>1, <2>2, <2>3 DEF OutcomeCount, Fails, Many
  <1>5. Spec => []Executed  BY ExecutedInvariant
  <1> QED  BY <1>4, <1>5, PTL
=============================================================================
