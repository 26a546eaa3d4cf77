------------------------ MODULE RegisterFile_proofs -------------------------
(***************************************************************************)
(* What the methods of RegisterFile compute, for any number of registers.  *)
(***************************************************************************)
EXTENDS RegisterFile, MachineWord_proofs

GoodRegs == {r \in [Index -> Word] : r[0] = 0}

LEMMA IndexInt == 0 \in Index /\ Index \subseteq Int
  BY RegisterAssumption DEF Index

\* A masked index is an index of the array; an index is its own mask.
LEMMA MaskedIndex ==
  ASSUME NEW i \in Int PROVE Masked(i) \in Index
  BY RegisterAssumption DEF Masked, Index

LEMMA MaskedId ==
  ASSUME NEW i \in Index PROVE Masked(i) = i
  BY RegisterAssumption DEF Masked, Index

LEMMA ReadWord ==
  ASSUME regs \in [Index -> Word], NEW i \in Int
  PROVE  Read(i) \in Word
  BY MaskedIndex DEF Read

\* Whatever index and value the setters are given, they leave words in the
\* registers and zero in $0.
LEMMA WrittenGood ==
  ASSUME regs \in [Index -> Word], NEW i \in Int, NEW v \in Int
  PROVE  Written(i, v) \in GoodRegs
  <1>1. Masked(i) \in Index  BY MaskedIndex
  <1>2. Wrap(v) \in Word  BY WrapWord
  <1> DEFINE r == [regs EXCEPT ![Masked(i)] = Wrap(v)]
  <1>3. r \in [Index -> Word]  BY <1>1, <1>2
  <1> HIDE DEF r
  <1>4. [r EXCEPT ![0] = 0] \in GoodRegs
    BY <1>3, IndexInt, WordInt DEF GoodRegs
  <1> QED  BY <1>4 DEF Written, r

\* The branchless update_pc is the choice between target and next address.
LEMMA NextPcValue ==
  ASSUME RegisterTypeOK
  PROVE  /\ NextPc = IF branch_flag THEN branch_target ELSE Wrap(pc + 4)
         /\ NextPc \in Word
  <1> DEFINE inc == Wrap(pc + 4)
  <1>1. inc \in Word  BY WrapWord, WordInt DEF RegisterTypeOK
  <1>2. branch_target \in Word  BY DEF RegisterTypeOK
  <1> HIDE DEF inc
  <1>d. branch_target - inc \in Int  BY <1>1, <1>2, WordInt
  <1>3. Wrap(branch_target - inc) \in Int  BY <1>d, WrapWord, WordInt
  <1>4. CASE branch_flag = TRUE
    <2>1. 1 * Wrap(branch_target - inc) = Wrap(branch_target - inc)  BY <1>3
    <2>2. NextPc = branch_target
      BY <1>1, <1>2, <1>4, <2>1, WrapSum DEF NextPc, Flag, inc
    <2> QED  BY <2>2, <1>2, <1>4
  <1>5. CASE branch_flag = FALSE
    <2>1. inc + 0 * Wrap(branch_target - inc) = inc  BY <1>1, <1>3, WordInt
    <2>2. NextPc = inc
      BY <1>1, <1>5, <2>1, WrapId DEF NextPc, Flag, inc
    <2> QED  BY <2>2, <1>1, <1>5 DEF inc
  <1> QED  BY <1>4, <1>5 DEF RegisterTypeOK
=============================================================================
