# A verification of mips-emulator

`mips-emulator` is a header-only C++ library that interprets MIPS32 Release 6
code: a register file, a memory with optional memory-mapped I/O, an instruction
codec and an executor whose `step` runs one instruction. This directory holds
TLA+ modules of it, the TLC configurations that check them, theorems about them
checked by TLAPS, and `PROJECT.json`, which maps every definition to the lines
it stands for. Paths below are relative to `src/include/mips-emulator/` unless
they name a directory.

## 1. Inventory

The library has no thread, no clock and no persistent state. What makes it hard
is arithmetic at the edges of the word, control state that survives from one
instruction to the next (a pending delayed branch), errors in the middle of an
instruction, and C++ expressions that mean different things in different builds.

| Component | State | Operations | Correct when |
| --- | --- | --- | --- |
| `RegisterFile` (register_file.hpp) | `pc`, `regs`, `branch_flag`, `branch_target`, `bad_instr`, `cause_register` | `set_pc`, `inc_pc`, `set_unsigned`/`set_signed`, `zero_all`, `delayed_branch`, `update_pc`, `signal_exception`, getters | `$0` is zero; a pending branch lands exactly on its target, once |
| `Executor` (executor.hpp) | none of its own | `step` and one handler per instruction type | delay slots, links and compact branches behave as a machine with two program counters; a failing step is all or nothing; the exception record is precise; every instruction computes what its mnemonic means |
| `Memory` with `StaticMemory` and `RuntimeStaticMemory` (memory.hpp, static_memory.hpp, runtime_static_memory.hpp) | the byte buffer, `offset`, the handler | `read`, `store`, the `_no_mmio` variants, `ptr_from_address`, `get_memory` | no access leaves the buffer; overlapping accesses agree; refused accesses change nothing |
| MMIO handler (the user's) | its own | `read`, `store` | external |
| `Instruction` (instruction.hpp) | one raw word seen through 17 views | constructors, `get_type` | the view the handler reads is the one the decoder chose |
| `Emulator` (emulator.hpp) | a `RegisterFile` and a `Memory` | `step` | what `Executor::step` and `Memory` promise apart holds of the two together; the instruction executed is the one in memory; a pending branch lands |
| `Result`, `Span`, `RegisterName` | | tagged union, pointer and length, numbering | |

**Interactions.** `Emulator::step` calls `Executor::step(reg_file, memory)`.
`step` reads the word at `pc` from the memory (1), returns false if that fails,
calls `update_pc` (2), decodes (3), returns false if that fails, and runs one
handler (4), which may read or store in the memory (5). The memory asks the MMIO
handler between its alignment check and its bounds check. So every `pc` a
handler sees has already moved: it is the address of the next instruction or, in
a delay slot, the target of the branch. A failure in (1) leaves the machine as it
was; a failure in (3) to (5) has consumed the instruction and any pending branch.

Observations that are not properties here but that a maintainer should know:

- In the delay-slot calls (`JAL`, `JALR`) the link is the address of the delay
  slot, not the one after it. `src/tests/executor/jtype.cpp` asserts this by
  calling the handler directly. `DelaySlots` has the code's link.
- The PC-relative loads and adds take the following instruction as their base,
  for the same reason.
- Jump targets are never checked for alignment. `zero_all` clears the registers
  and leaves `pc` and the pending branch.
- `StaticMemory` leaves its buffer uninitialized and `RegisterFile` its
  `cause_register`; both are modelled as arbitrary.
- Both memories derive from `Memory` with the default `aligned_access = false`;
  only a user's class can have it true.
- An `Emulator` starts at address 0 and has no way to set the pc. Over a memory
  with an offset, or once a jump has left the memory, no later step succeeds
  (`StuckForever`, `OffsetNeverStarts`).
- `Span::get_data` has no return statement (span.hpp:11-12) and no caller;
  `Emulator::step` is `noexcept` although an MMIO handler may throw.

`PROJECT.json` lists the hazards of this code at their lines with the properties
that watch them, and a note for those no property watches.

## 2. Modules

| Module | Models | Extends / instantiates |
| --- | --- | --- |
| `MachineWord` | `uint32_t`/`int32_t`, the `Register` union, sign extension | |
| `RegisterFile` | the fields and what the methods compute | `MachineWord` |
| `RegisterFileClient` | the class under any sequence of public calls | `RegisterFile` |
| `Alu` | what every data instruction computes | `MachineWord` |
| `Branches` | which branches are taken and how | `MachineWord` |
| `Executor` | `step`: one action per handler | `RegisterFile`, `Alu`, `Branches`; implements `DelaySlots` |
| `DelaySlots` | abstract: a machine with two program counters | `MachineWord` |
| `Memory` | the buffer, its checks and accesses | `MachineWord`; implements `AddressSpace` |
| `AddressSpace` | abstract: one cell per guest address | `MachineWord` |
| `Codec` | the union of views, the constructors, `get_type`, what the handlers read | |
| `Emulator` | `Emulator::step`: fetch, then handler with its load or store | `Executor`, `Memory` (as `RAM`); implements both |
| `MCInstructions` | one instruction of `Alu` or `Branches` per step, against its meaning as arithmetic | `Alu`, `Branches` |
| other `MC*` | instances for TLC | the module they name |
| `MachineWord_proofs`, `RegisterFile_proofs` | lemmas | `TLAPS` |
| `RegisterFileClient_proofs`, `Executor_proofs`, `Memory_proofs`, `Instructions_proofs`, `Codec_proofs`, `Emulator_proofs` | theorems | `TLAPS` |

**Words.** A register is its unsigned value; C++ arithmetic is exact arithmetic
followed by `Wrap`. Bit operations act on the set of positions of the one bits.
The width is the constant `WORD_BITS`, so that TLC can exhaust a 4-bit machine
and TLAPS can prove for all of them. Signed additions and multiplications whose
overflow C++ leaves undefined are modelled as wrapping, what every supported
compiler does with a result that is only stored. So is the `(1 << 31) - 1` in the
masks of EXT and INS for a field of 31 bits (executor.hpp:726, 751): its
difference leaves `int`, and modelled is the mask of 31 ones it wraps to.

**Outcomes.** `Alu` gives each instruction a set of outcomes: one word, several
where the C++ expression is undefined and builds differ (`~0 << 32` in SRA by 0),
none where the handler returns false (zero divisor, bad field). INT_MIN / -1 may
end the host process (`Executor!Kill`) or wrap. The byte swaps and the masks of
`ext` and `ins` are modelled by the bits they move.

**Executor.** An instruction ends in one of the ways `Sequential`, `Delayed`,
`Compact`, `Reject`, `TrapStep` or `Kill`, each of which includes the
`update_pc` that ran before the handler. The memory is the environment: at each
step any instruction of the constant `Program` may be fetched, and any read or
store may fail or deliver any member of `MemoryData`. This covers
self-modifying code and MMIO, and makes the safety results independent of the
memory. The decoder is abstracted to a field `type`; `longimm_itype` is part of
`itype` as in `step`, and the three FPU types are one, since `step` rejects them.
What decoding does to the word is the business of `Codec`.

**Codec.** A word is the set of the positions of its one bits, at the real
width, and a view maps the names of its fields to first bit and width. A
constructor assigns fields of a zero word, and an assignment cuts the value to
the width of the field, as a C++ bit field does. `intent` is history: what the
caller of the constructor asked for. `Reads` lists for each type every field
that its handler reads an operand from, which often are fields of several views;
`IntentDecoded` demands that they all hold what was asked for. The members are
public, so `Patch` overwrites an operand of an existing instruction, any of those
its handler reads. `Handled` lists the case labels of each handler's switch,
`Mnemonic` names the instruction that is carried out where one opcode stands for
several, told apart by an operand, and `Selectors` the operands that do so. BEQZC and
BNEZC have no constructor: their 21-bit immediate is written as rt and a 16-bit
immediate (`ITypeIntent`). The views use the bit-field order of GCC and Clang on
little-endian hosts, low bit first.

**Emulator.** `step` is two actions, one per access to the memory: `Fetch` (or
`FetchFails`) and the handler with its load or store. Splitting it loses
nothing, since no other code runs in between except the MMIO handler, which sees
neither object, and it lets the memory answer once per action. `fetched` is the
instruction between the two. `Decode` is a constant that maps every word to an
instruction: the real one is `Codec`'s, TLC is given a small one, the theorems
hold for every one. `BufferWord` recomposes the word the buffer holds, and
`ExecutesCurrentWord` compares it with what is being executed.

**Memory.** `bytes` is the buffer, `reply` the last call as its caller knows it
(address, size, value and how it ended), and `stray` a history
variable that becomes true if an access dereferences a byte outside the buffer.
Of an access a device took, `reply` keeps only that: the handler is not part of
the repository's memory, and what it delivers is passed on. The bounds check
keeps both widths of the code: a 32-bit difference and a `size_t` sum. `DEVICES` is
the set of addresses the handler may answer, empty for `NullMMIO`.

**Abstract specifications.** `DelaySlots` replaces the flag and the target by a
second counter `npc`; the refinement maps `npc` to the target if the flag is set
and to `pc + 4` otherwise. `AddressSpace` replaces offset and buffer by cells
indexed by guest address, and reads address, size and value of a step off the
reply, so that a load, a store and a refusal are each judged by the access they
answer. It must allow one oddity of the code, the refusal of the highest cell
(finding 5).

## 3. Runs

| Run | Question | Instance |
| --- | --- | --- |
| `registers` | is the class consistent under any calls? | 3-bit words, 2 registers, setter indices up to twice the array |
| `alu_arith` | do arithmetic, shifts, counts and comparisons compute what they mean, and are the POP variants decided consistently? | every pair of 4-bit operands, all operations and shift amounts; for branches four register numbers, which show every order of rs, rt and 0 |
| `alu_bytes` | do byte and field instructions move the right bits? | 8-bit words of four 2-bit bytes, all values of rt, all fields |
| `executor` | does `step` implement `DelaySlots`, atomically and precisely? | 4-bit addresses (4 instruction slots, so everything wraps), 4 registers, about 80 instructions: every branch, jump, trap and failure, a data instruction of every handler |
| `memory` | does the buffer implement its cells? | 16 addresses of 1-bit bytes, a buffer of 5 in the middle, so that each size straddles both ends and addresses below the offset wrap; with and without `aligned_access`; a device that may answer anywhere |
| `codec` | do constructors, `get_type` and handlers agree, and which operands may be overwritten without making another instruction? | real widths, every enumerator, registers 0, 1 and 31, arguments at the ends of their fields and beyond; raw words with every opcode and every choice of the bits that tell types apart |
| `emulator` | does the composition implement both parts, does every store it reports and every trap that fires leave its trace, and does a pending branch land? | 4-bit words, `$0` and one register, 16 instructions (one per word: a no-op, arithmetic, loads and stores of each size, branches, a link, a conditional compact branch, a trap, a division, an undecodable word), a buffer of 9 bytes with every initial content, so that programs overwrite themselves; a device above it |
| `sra_portable`, `bovc_overflow`, `jialc`, `addiupc`, `memory_reach` | the findings below | as the run they belong to |

The bounds are small because nothing in the code depends on a width except
through the top bit, the wrap and the position of fields, all of which a 4-bit
word has. No counter is capped: every variable is bounded by the word. A buffer
of five cells is the smallest in which the code admits a word access at all.
`executor` is run with `CHECK_DEADLOCK FALSE` because the system really stops
when a division kills the host process.

What the properties mean, beyond their comments:

- `RefinesDelaySlots` has every interplay of branches: a branch in a delay slot,
  a compact branch in a delay slot, a failing instruction or a trap in one, a
  link taken there.
- `FailedStepAtomic` separates the two kinds of failure a caller of `step` can
  not tell apart from its return value.
- `OutcomeCount` says in particular that the loops of CLZ and CLO end, with one
  result, and that failures happen exactly for the stated operands.
- `ProductExact` and `DivisionExact` tie the two results of a SOP opcode
  together, low and high half or quotient and remainder, signed and unsigned.
- `OppositesPartition` relates two opcodes to each other, which a test of one
  instruction cannot do. `ComparisonsOrder` ties each branch on an order to SLT or
  SLTU of the values its mnemonic compares: a comparison of the wrong signedness,
  in the wrong direction or wrong about equality breaks it, also where the
  opposite opcode has the same slip.
- `PatchKeepsInstruction` allows exactly the changes the encoding is made of: rt
  of BLEZ makes BLEZALC, shamt of MUL makes MUH, rs of JIC makes BEQZC (of another
  type), and the operands that do this are listed in `Selectors`. Every other
  operand, whatever is written into it, leaves the instruction what it was.
- `FailureHarmless` and `StoreReported` are the two directions of what `step`
  returns for a store: false, nothing happened; true, rt is in the buffer or with
  the device and no other byte has changed.
- `TrapsRecorded` ties the exception record to the very instruction that was
  fetched, in both directions; `TrapsPrecise` says of `Executor` alone that whatever
  is recorded had its condition met.

Every property has a mutant in `PROJECT.json`: an operator with a plausible bug
(defined next to the operator it replaces) under which the property fails.

**Fairness and liveness.** The library does nothing by itself. `EmulatorSpec` has
one fairness condition, weak fairness of `Progress`: a caller that goes on calling
`step`. Every call contains a `Progress` step, whatever the device does: a fetch
the buffer answers, a fetch that fails or the handler of what was fetched. A fetch
that a device answers is not part of it, since nothing obliges a device to answer:
at an address without memory it may decline for ever, and the call fails for
ever. The library's own part of the fairness, that a call returns, is what
`OutcomeCount` shows of the counting loops, the only ones in the code. Under it
`BranchLands` says that the pc gets to the target of a pending branch, with three
exceptions: the branch is still pending where the memory has no word for its delay
slot (a device may or may not supply one), the delay slot holds a compact branch
that is taken, or the process has ended. The instance meets the first two, and
the property fails without either. That nothing but the delay slot is executed
before the target is what `RefinesDelaySlots` shows. No liveness is claimed of the
other components; their callers may stop.

`emulator` has `CHECK_DEADLOCK FALSE` for the reason `executor` has.

## 4. Findings

Each is a violation run with one property that states what a comment, a test or
a name in the repository says.

1. `jialc`: JIALC writes `$31` before it reads the register it jumps through
   (executor.hpp:498-500); through `$31` it jumps to its own link.
2. `bovc_overflow`: BOVC and BNVC see an overflow whenever the operands have
   opposite signs (executor.hpp:396-398, 420-422).
3. `addiupc`: the 19-bit immediate of ADDIUPC and LWPC is never sign extended
   (executor.hpp:807), against the comment below it. The tests side with the
   code: "Max imm-value" (src/tests/executor/pcrel.cpp:53-61) asserts the unsigned
   sum.
4. `sra_portable`: SRA and SRAV by 0 shift by the width of the word
   (executor.hpp:136, 151), against the comment that claims portability.
5. `memory_reach`: `is_in_bounds` refuses the last byte of the buffer
   (memory.hpp:155-157).

## 5. Proofs

All theorems hold for every word width, every number of registers, every
program, every memory content, every offset and size, and those of `Codec`, at
its real widths, for every argument and every word. They assume only the named
`ASSUME`s: `WordAssumption` (the sign bit is a power of two), `PowerAssumption`
(2^(k+1) = 2 * 2^k up to the word: true of every width, but the provers know the
powers of literal numbers only), `RegisterAssumption`, `AluAssumption` (a word is
four bytes, an immediate two), `DriverAssumption` (the operands are words),
`ExecutorAssumption` (instructions and data are well formed),
`MemoryAssumption` (offset and size are words, `size_t` is a little wider),
`CodecAssumption` (registers, bytes and immediates are in range) and
`EmulatorAssumption` (the instructions are those the decoder gives the words).
TLC evaluates each of them in the runs, `MemoryAssumption` where `MCMemory` extends
`Memory`. Everything else about powers, such as that four bytes make a word
(`Memory_proofs!Weights`), is proved.

- **`MachineWord_proofs`**: what `Wrap` does to integers. The key lemma is
  `WrapSum`: adding the wrapped difference of two words to the second gives the
  first, the trick `update_pc` relies on. The rest is a library that turns
  arithmetic into bits and back. `SetInduction` is induction over a *set* of
  naturals, drawn from the well-foundedness of `<`: the induction theorems of the
  standard library have an operator parameter, which no prover here can
  instantiate, but a set it can. With it: powers grow and multiply as they
  should (`PowNat`, `PowSum`, `PowMonotone`), two numbers with the same bits are
  equal (`BitsDecide`) and every choice of bits is a number (`BitsExist`). Hence
  `WordOf` gives exactly one word for every set of positions (`WordOfIs`), moving
  bits up is the wrapped product (`UpWord`), moving them down the quotient
  (`DownWord`), and low bits next to moved up ones are a sum (`JoinWord`).
- **`RegisterFile_proofs`**: the setters leave words and a zero `$0` whatever the
  index and value (`WrittenGood`); `NextPc` is the choice of target or following
  address (`NextPcValue`).
- **`RegisterFileClient_proofs`**: `TypeOK /\ ZeroRegister` is inductive. From it
  `ClientTypeOK`, and from it
  and `NextPcValue` follow `BranchlessUpdate` and `PendingBranchKept`.
- **`Executor_proofs`**: the proof has a waist. Each handler is shown to end in
  one of six forms (`StepForms`): nothing touched, a rejection, a trap, a write of
  good registers, a delayed branch, a compact branch. Below the waist are the
  typing lemmas (every outcome of every instruction is an integer, every target a
  word); above it the invariant `TypeOK /\ ZeroRegister`, `FailedStepAtomic`,
  `TrapsPrecise` and the refinement of `DelaySlots` are checked on six forms
  instead of sixty instructions. `ZeroRegister` is part of the invariant because
  the refinement needs it: if the only register were `$0`, linking would leave it
  zero.
- **`Memory_proofs`**: `InBoundsExact` shows that the two wrapping operations of
  `is_in_bounds` decide exactly `OFFSET <= a /\ a - OFFSET + n < SIZE`. From it
  follow `AccessesInsideBuffer` and, action by action, the refinement of
  `AddressSpace`. The invariant adds that `bytes` is a function on the positions.
  `MemoryTypeOK` adds the types: what is stored is cut to bytes.
- **`Instructions_proofs`**: `Decided`, every decision is the one of an
  instruction that was fetched on operands `$0` and equal register fields allow,
  is inductive. Under it the claims about branches are finite case distinctions
  over the variant chains and the order of the integers; for `ComparisonsOrder` the
  chains are first tabulated by what they compare (`ComparingTable`), row by row.
  The values of the data instructions rest on a second inductive invariant,
  `Executed`: the operands are words and what was recorded are the outcomes of the
  recorded instruction, whose fields are those its view can hold. The properties
  alone are not inductive, since they say nothing of where `out` comes from. Under
  it each property is a fact about words of any width:
  `ProductExact` and `DivisionExact` are about the exact product and the
  truncating quotient, cut to a word without loss; `ShiftsExact`, `AlignWindow` and
  `InsertExtract` read bit positions as products and quotients by the lemmas
  above; `CountsExact` compares the topmost one bit with the powers around the
  word; `SwapsInvolutive` shows that the permutations of the positions are their
  own inverses; `ConstantsFromHalves` is about two halves of a word and the borrow.
  `OutcomeCount` puts them together: each instruction has one outcome, except where C++
  leaves it open, and none exactly for the operands the handlers refuse.
- **`Codec_proofs`**: an assignment to a field leaves every field apart from it
  as it is (`GetPutApart`), and the opcode and function fields are apart from every
  operand (`OperandsApart`), so that a patch keeps the operation. The type depends
  on an operand only for opcodes 54 and 62 (`LongPatch`), and the mnemonic only on
  the operands in `Selectors` (`SelectorsKept`): hence `PatchKeepsInstruction`. For
  `IntentDecoded` each constructor establishes the invariant that the fields in
  `Reads` hold the arguments of the intent, and a patch keeps it because the
  operands of one type are the same field or apart, except for the 21-bit immediate of
  BEQZC and BNEZC, which is rt and the 16-bit one next to each other.
  `OpcodesHandled` compares the case labels of `get_type` and of the handlers with
  the enumerations.
- **`Emulator_proofs`**: each handler of the composition is a handler of
  `Executor` whose environment delivered what the memory returned
  (`EmulatorRefinesExecutor`), and each access is a step of `Memory` because
  addresses and stored values are in range (`EmulatorRefinesMemory`, which needs
  the types of the executor). Hence everything proved of the two holds here
  (`EmulatorInherits`, `EmulatorTypes`, `EmulatorStaysInsideBuffer`).
  `EmulatorFailureHarmless`, `EmulatorTrapsRecorded` and `EmulatorStuckForever` are
  about single steps; `OffsetNeverStarts` follows from the last.
  `EmulatorStoreReported` needs that the low bytes of rt are those of rt cut to the
  size of the store (`CutDigits`) and that an admitted access is inside the buffer. `EmulatorExecutesCurrentWord` is
  inductive given the types of the executor, once `FourDigits` (a value below the fourth power of the
  base is the sum of its four digits) ties the value a read delivers to the bytes
  it came from.

Every invariant, action property and refinement of a passing run is a theorem. Only
model-checked: liveness under fairness (`BranchLands`), which the
prover does not reach, and the five findings, which are counterexamples.

## 6. Not modelled

- The real decoder inside `Emulator`: `Codec` has 2^32 words, and `Decode` is a
  constant of `Emulator` instead. The two are tied by the names of types and
  operations, which both take from the code: `OpcodesHandled` shows of `Codec` that
  every word has a case in its handler or is rejected, and the disjuncts of
  `Executor!Next` have an arm for each. That these arms are complete is read off,
  not checked.
- What FPU instructions would compute: `step` rejects them.
- MMIO handlers with state the guest can observe, that throw, or that are null; a
  vector of 4 GiB or more behind `RuntimeStaticMemory`, or an empty one; hosts with
  a 32-bit `size_t`; big-endian hosts.
- `Result` and `Span` as classes: they hold a value each and have no operation that
  changes state. How a call of `Memory` ended is a field of `reply`. Their undefined uses (`get_value` of an error, `Span::get_data`)
  have no caller.
- The tests and the build files.

## 7. What is left

The components of the library are modelled. What would add to the project:

1. That `Executor` and `MCInstructions` agree is by construction: both use the
   operators of `Alu` and `Branches`. A theorem that states the value properties of a
   step of `Executor` itself, with the registers as operands, would make it formal.
2. A decoder instance of `Emulator` at the real widths, for which the state space
   would have to be explored by simulation rather than exhausted.
