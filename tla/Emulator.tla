------------------------------- MODULE Emulator -------------------------------
(***************************************************************************)
(* class Emulator (emulator.hpp): a register file, a memory and step(),    *)
(* which runs Executor::step on the two.  The composition of Executor and  *)
(* Memory: an instruction is what the memory holds at the program counter, *)
(* a load delivers what the program stored, and a store may hit the words  *)
(* that are fetched next.                                                  *)
(*                                                                         *)
(* step() is two actions, one for each access to the memory it may make:   *)
(* the fetch, and the handler with its load or store.  Nothing runs        *)
(* between them but the MMIO handler, which is handed neither object.      *)
(***************************************************************************)
EXTENDS Executor  \* reg_file, and what step returned

CONSTANTS OFFSET, SIZE, SIZE_T_MODULUS, ALIGNED_ACCESS, DEVICES,  \* see Memory
          Decode,  \* the instruction each word is (see Codec)
          Images   \* the contents a memory may be constructed with

VARIABLES bytes, reply, stray,   \* memory and its last access
          fetched                \* the instruction between fetch and handler

ramVars      == <<bytes, reply, stray>>
emulatorVars == <<vars, ramVars, fetched>>

RAM == INSTANCE Memory

\* The parameters of Executor that the memory settles, and those of Memory.
ASSUME EmulatorAssumption ==
    /\ Program = {Decode[w] : w \in Word} /\ DOMAIN Decode = Word
    /\ RawInstr = Program
    /\ ZERO_INSTR = Decode[0]
    /\ MemoryData = Word
    /\ Images \subseteq [RAM!Position -> RAM!Byte]
    /\ OFFSET \in Word
    /\ SIZE \in Word
    /\ SIZE_T_MODULUS \in Nat /\ SIZE_T_MODULUS > MODULUS + 4
    /\ ALIGNED_ACCESS \in BOOLEAN
    /\ DEVICES \subseteq Word

NoInstr == [type |-> "none"]

EmulatorInit ==
    /\ Init
    /\ bytes \in Images   \* the vector a RuntimeStaticMemory is given
    /\ RAM!Init
    /\ fetched = NoInstr

-----------------------------------------------------------------------------
(* The fetch *)

\* Mutant of FetchAddress: the fetch follows the instruction to come.
FetchAhead == NextPc

FetchAddress == pc

Fetch ==
    /\ Running /\ fetched = NoInstr
    /\ \/ RAM!ReadBuffer(4, FetchAddress) /\ fetched' = Decode[reply'.value]
       \/ RAM!Mmio(4, FetchAddress) /\ \E w \in Word : fetched' = Decode[w]
    /\ UNCHANGED vars

\* Mutant of FetchFails: update_pc has moved the program counter by then.
FetchFailsLate ==
    /\ fetched = NoInstr /\ Running
    /\ RAM!Unaligned(4, FetchAddress) \/ RAM!OutOfBounds(4, FetchAddress)
    /\ pc' = NextPc
    /\ result' = "failed"
    /\ UNCHANGED <<regs, branch_flag, branch_target, bad_instr, cause_register,
                   fetched>>

\* read returned an error: step returns before it has changed anything.
FetchFails ==
    /\ fetched = NoInstr
    /\ RAM!Unaligned(4, FetchAddress) \/ RAM!OutOfBounds(4, FetchAddress)
    /\ FetchFault
    /\ UNCHANGED fetched

-----------------------------------------------------------------------------
(* The handler *)

\* Of an instruction that leaves the memory alone.
Execute ==
    /\ fetched # NoInstr
    /\ \/ RType(fetched)
       \/ IType(fetched)
       \/ JType(fetched)
       \/ Special3(fetched)
       \/ Regimm(fetched)
       \/ fetched.op = "addiupc" /\ PcRelative1(fetched)
       \/ PcRelative2(fetched)
       \/ Unhandled(fetched)
    /\ fetched' = NoInstr
    /\ UNCHANGED ramVars

\* sizeof(T) of the access of each load and store.
AccessSize == [lb |-> 1, lbu |-> 1, sb |-> 1, lh |-> 2, lhu |-> 2, sh |-> 2,
               lw |-> 4, sw |-> 4]

\* rs + sign_ext_imm(imm).
DataAddress(i) == Wrap(S(i) + SignExt(i.imm, IMM_SIZE))

\* What the read of n bytes just made returns: the bytes of the buffer, whatever
\* a device answers, nothing for a MemoryError.
Delivered(n) ==
    CASE reply'.status = "loaded" -> {reply'.value}
      [] reply'.status = "mmio"   -> RAM!Value(n)
      [] OTHER                    -> {}

Load ==
    /\ Running
    /\ fetched.type = "itype" /\ fetched.op \in LoadOps
    /\ RAM!Read(AccessSize[fetched.op], DataAddress(fetched))
    /\ \/ \E v \in Delivered(AccessSize[fetched.op]) :
            Sequential(Written(fetched.rt, LoadedValue(fetched.op, v)))
       \/ Delivered(AccessSize[fetched.op]) = {} /\ Reject
    /\ fetched' = NoInstr

LoadPcRelative ==
    /\ Running
    /\ fetched.type = "pcrel1" /\ fetched.op = "lwpc"
    /\ RAM!Read(4, PcrelAddress(fetched))
    /\ \/ \E v \in Delivered(4) : Sequential(Written(fetched.rs, v))
       \/ Delivered(4) = {} /\ Reject
    /\ fetched' = NoInstr

\* Mutant of StoreEnds: is_error() is returned without its negation.
StoreEndsInverted ==
    IF reply'.status \in {"stored", "mmio"} THEN Reject
                                            ELSE Sequential(regs)

\* Mutant of StoreEnds: the outcome of the store is not looked at.
StoreEndsAlwaysOk == Sequential(regs)

StoreEnds ==
    IF reply'.status \in {"stored", "mmio"} THEN Sequential(regs)
                                            ELSE Reject

\* Mutant of StoredValue: the whole register.
StoredWord(i) == T(i)

\* rt, cut to the size of the access.
StoredValue(i) == T(i) % RAM!Weight(AccessSize[i.op])

Store ==
    /\ Running
    /\ fetched.type = "itype" /\ fetched.op \in StoreOps
    /\ RAM!Store(AccessSize[fetched.op], DataAddress(fetched), StoredValue(fetched))
    /\ StoreEnds
    /\ fetched' = NoInstr

Step == Fetch \/ FetchFails \/ Execute \/ Load \/ LoadPcRelative \/ Store

\* What every call of step goes through, whatever the device does: a fetch that
\* the buffer answers, a fetch that fails, or the handler of what was fetched.
\* A fetch that a device answers is left out: no call can rely on it.
Progress ==
    \/ Fetch /\ reply'.status = "loaded"
    \/ FetchFails
    \/ Execute
    \/ Load
    \/ LoadPcRelative
    \/ Store

\* A caller that calls step for as long as its process lives.  A device may
\* decline every fetch, and then the call fails, again and again.
EmulatorSpec ==
    EmulatorInit /\ [][Step]_emulatorVars /\ WF_emulatorVars(Progress)

-----------------------------------------------------------------------------
(* Properties *)

EmulatorTypeOK ==
    /\ TypeOK
    /\ RAM!TypeOK
    /\ fetched \in Program \cup {NoInstr}

\* The composition is an executor whose environment happens to be a memory, and
\* a memory whose client happens to be an executor: what is shown of each of
\* them alone holds of the two together.
RefinesExecutor == Spec
RefinesMemory   == RAM!Spec

\* The word the buffer holds at an address, lowest byte first.
BufferWord(a) ==
    LET b(k) == bytes[a - OFFSET + k] * RAM!Weight(k)
    IN  b(0) + b(1) + b(2) + b(3)

\* The instruction that is executed is the one the memory holds at the program
\* counter when it is executed, whatever the program has stored there.
ExecutesCurrentWord ==
    fetched # NoInstr /\ reply.status = "loaded" =>
        fetched = Decode[BufferWord(pc)]

\* A step that returns false has changed neither a register nor a byte; with the
\* memory in the picture that includes a refused store.
FailureHarmless == [][result' = "failed" => UNCHANGED <<regs, bytes>>]_emulatorVars

\* What the bytes from the address of a store are after it: those of rt, the
\* lowest first, and no other byte has changed.
StoredInBuffer(i) ==
    LET n       == AccessSize[i.op]
        first   == DataAddress(i) - OFFSET
        written == first .. first + n - 1
    IN  /\ written \subseteq RAM!Position
        /\ \A k \in 0 .. n - 1 : bytes'[first + k] = RAM!Digit(T(i), k)
        /\ \A p \in RAM!Position \ written : bytes'[p] = bytes[p]

\* A store for which step returns true has happened: rt is in the buffer, or the
\* device at the address has taken it and the buffer is as it was
\* (executor.hpp:532-538, 576-578; memory.hpp:78-105).
StoreReported ==
    [][ fetched.type = "itype" /\ fetched.op \in StoreOps /\ result' = "ok" =>
          \/ StoredInBuffer(fetched)
          \/ /\ DataAddress(fetched) \in DEVICES
             /\ reply'.status = "mmio"
             /\ UNCHANGED bytes ]_emulatorVars

\* A trap was fetched and its condition holds.
TrapFires ==
    /\ fetched.type = "rtype" /\ fetched.op \in TrapOps
    /\ TrapCondition(fetched.op, S(fetched), T(fetched))

\* The exception record names the trap that fired last, as it was fetched: a
\* trap whose condition holds always writes it and fails, whatever happened to
\* its word in memory or to the pc, and no other step touches it
\* (executor.hpp:34-40, register_file.hpp:99-105).
TrapsRecorded ==
    [][ IF TrapFires
        THEN bad_instr' = fetched /\ cause_register' = "tr" /\ result' = "failed"
        ELSE UNCHANGED <<bad_instr, cause_register>> ]_emulatorVars

\* The memory has no word at the program counter.  A device may have one.
NoMemoryAt ==
    /\ fetched = NoInstr
    /\ RAM!Misaligned(4, pc) \/ ~RAM!IsInBounds(4, pc)

\* Where no fetch can succeed: nothing answers at the program counter.
Stuck == NoMemoryAt /\ pc \notin DEVICES

\* Once the program counter has left the memory no later step leaves it there or
\* changes anything: the class has no way to set it again.
StuckForever ==
    [][Stuck => Stuck' /\ UNCHANGED <<regs, bytes, pc>>]_emulatorVars

\* A compact branch that is taken: its set_pc replaces whatever update_pc has
\* left, the target of a pending branch included.
TakesOver(i) ==
    \/ i.type = "jtype" /\ i.op \in {"bc", "balc"}
    \/ /\ i.type = "itype" /\ i.op \in {"pop66", "pop76"}
       /\ i.rs = 0 \/ LongDecision(i, S(i)).taken
    \/ /\ i.type = "itype" /\ i.op \in ImmBranchOps
       /\ LET d == ImmDecision(i, S(i), T(i)) IN d.taken /\ d.how # "delayed"

\* A pending branch lands: if the caller keeps calling step, the pc gets to its
\* target, unless the branch is still pending where the memory has no word for
\* its delay slot or the delay slot holds a compact branch that is taken, or the
\* process has ended (register_file.hpp:88-97, executor.hpp:897-903).
BranchLands ==
    \A target \in Word :
      (branch_flag /\ branch_target = target)
        ~> \/ pc = target
           \/ /\ branch_flag /\ branch_target = target
              /\ NoMemoryAt \/ TakesOver(fetched)
           \/ ~Running
=============================================================================
