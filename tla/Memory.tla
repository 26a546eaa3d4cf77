------------------------------- MODULE Memory -------------------------------
(***************************************************************************)
(* template class Memory (memory.hpp) over a StaticMemory or a             *)
(* RuntimeStaticMemory: a host buffer of SIZE bytes that the guest sees    *)
(* from address OFFSET on, with an optional MMIO handler asked first.      *)
(*                                                                         *)
(* `reply` is the last call as its caller knows it: its address, its size, *)
(* its value and how it ended; of one a device took, only that.  `stray`   *)
(* is history too: whether some access dereferenced a byte outside the     *)
(* buffer, where it reads arbitrary bytes of the host.  The host is little *)
(* endian.                                                                 *)
(***************************************************************************)
EXTENDS MachineWord

CONSTANTS OFFSET,          \* guest address of the buffer
          SIZE,            \* get_size()
          BYTE_BITS,       \* 8
          SIZE_T_MODULUS,  \* 2^64: is_in_bounds adds sizeof(T), a size_t
          ALIGNED_ACCESS,  \* the template parameter aligned_access
          DEVICES          \* addresses the MMIO handler may answer; {}: NullMMIO

ASSUME MemoryAssumption ==
    /\ OFFSET \in Word
    /\ SIZE \in Word
    /\ BYTE_BITS \in Nat \ {0}
    /\ WORD_BITS = 4 * BYTE_BITS
    /\ SIZE_T_MODULUS \in Nat /\ SIZE_T_MODULUS > MODULUS + 4
    /\ ALIGNED_ACCESS \in BOOLEAN
    /\ DEVICES \subseteq Word

VARIABLES bytes, reply, stray

vars == <<bytes, reply, stray>>

BYTE     == 2 ^ BYTE_BITS
Byte     == 0 .. BYTE - 1
Position == 0 .. SIZE - 1
Sizes    == {1, 2, 4}

\* What byte number k of a value counts for.
Weight(k) == 2 ^ (BYTE_BITS * k)

Value(n) == 0 .. Weight(n) - 1

Status == {"none", "loaded", "stored", "located", "mmio",
           "out_of_bounds_access", "unaligned_access"}

Reply(status, address, size, value) ==
    [status |-> status, address |-> address, size |-> size, value |-> value]

TypeOK ==
    /\ bytes \in [Position -> Byte]
    /\ reply \in [status : Status, address : Word, size : Sizes \cup {0},
                  value : Word]
    /\ stray \in BOOLEAN

\* StaticMemory leaves its array uninitialized; RuntimeStaticMemory is given
\* its contents.
Init ==
    /\ bytes \in [Position -> Byte]
    /\ reply = Reply("none", 0, 0, 0)
    /\ stray = FALSE

\* Mutant of Digit: the higher bytes of the value are kept.
DigitUnmasked(v, k) == v \div Weight(k)

Digit(v, k) == (v \div Weight(k)) % BYTE

IsAligned(n, address) == address % n = 0

\* Mutant of IsInBounds: the size of the access is left out of the sum.
IsInBoundsFirstByte(n, address) ==
    /\ Wrap(address - OFFSET) < SIZE
    /\ address >= OFFSET

\* The difference is an uint32_t and wraps; the sum is a size_t.
IsInBounds(n, address) ==
    /\ (Wrap(address - OFFSET) + n) % SIZE_T_MODULUS < SIZE
    /\ address >= OFFSET

\* get_memory() + address - offset, and the n bytes from there.
Dereferenced(n, address) ==
    {address - OFFSET + k : k \in 0 .. n - 1}

Access(n, address) ==
    stray' = (stray \/ ~ (Dereferenced(n, address) \subseteq Position))

-----------------------------------------------------------------------------
(* read, store and their no_mmio variants *)

Misaligned(n, address) == ALIGNED_ACCESS /\ n > 1 /\ ~IsAligned(n, address)

Unaligned(n, address) ==
    /\ Misaligned(n, address)
    /\ reply' = Reply("unaligned_access", address, n, 0)
    /\ UNCHANGED <<bytes, stray>>

OutOfBounds(n, address) ==
    /\ ~Misaligned(n, address)
    /\ ~IsInBounds(n, address)
    /\ reply' = Reply("out_of_bounds_access", address, n, 0)
    /\ UNCHANGED <<bytes, stray>>

\* The handler is asked after the alignment check and before the bounds check;
\* it takes the access or leaves it to the buffer.  The value a device gives a
\* read is passed on and left out.
Mmio(n, address) ==
    /\ address \in DEVICES
    /\ ~Misaligned(n, address)
    /\ reply' = Reply("mmio", 0, 0, 0)
    /\ UNCHANGED <<bytes, stray>>

ReadBuffer(n, address) ==
    /\ ~Misaligned(n, address)
    /\ IsInBounds(n, address)
    /\ Access(n, address)
    /\ \E v \in Value(n) :
         /\ \A k \in 0 .. n - 1 :
              address - OFFSET + k \in Position =>
                Digit(v, k) = bytes[address - OFFSET + k]
         /\ reply' = Reply("loaded", address, n, v)
    /\ UNCHANGED bytes

\* Mutant of StoreBuffer: the bytes are stored in the opposite order.
StoreBufferReversed(n, address, value) ==
    /\ ~Misaligned(n, address)
    /\ IsInBounds(n, address)
    /\ Access(n, address)
    /\ bytes' = [p \in Position |->
                   IF p \in Dereferenced(n, address)
                   THEN Digit(value, n - 1 - (p - (address - OFFSET)))
                   ELSE bytes[p]]
    /\ reply' = Reply("stored", address, n, value)

StoreBuffer(n, address, value) ==
    /\ ~Misaligned(n, address)
    /\ IsInBounds(n, address)
    /\ Access(n, address)
    /\ bytes' = [p \in Position |->
                   IF p \in Dereferenced(n, address)
                   THEN Digit(value, p - (address - OFFSET)) ELSE bytes[p]]
    /\ reply' = Reply("stored", address, n, value)

ReadNoMmio(n, address) ==
    \/ Unaligned(n, address)
    \/ OutOfBounds(n, address)
    \/ ReadBuffer(n, address)

Read(n, address) ==
    \/ Mmio(n, address)
    \/ ReadNoMmio(n, address)

StoreNoMmio(n, address, value) ==
    \/ Unaligned(n, address)
    \/ OutOfBounds(n, address)
    \/ StoreBuffer(n, address, value)

Store(n, address, value) ==
    \/ Mmio(n, address)
    \/ StoreNoMmio(n, address, value)

PtrFromAddress(address) ==
    /\ IF IsInBounds(1, address)
       THEN reply' = Reply("located", address, 1, address - OFFSET)
       ELSE reply' = Reply("out_of_bounds_access", address, 1, 0)
    /\ UNCHANGED <<bytes, stray>>

\* The host writes through the Span of get_memory.
HostWrite(p, byte) ==
    /\ bytes' = [bytes EXCEPT ![p] = byte]
    /\ UNCHANGED <<reply, stray>>

Next ==
    \/ \E n \in Sizes, a \in Word : Read(n, a)
    \/ \E n \in Sizes, a \in Word : ReadNoMmio(n, a)
    \/ \E n \in Sizes, a \in Word : \E v \in Value(n) : Store(n, a, v)
    \/ \E n \in Sizes, a \in Word : \E v \in Value(n) : StoreNoMmio(n, a, v)
    \/ \E a \in Word : PtrFromAddress(a)
    \/ \E p \in Position, b \in Byte : HostWrite(p, b)

Spec == Init /\ [][Next]_vars

-----------------------------------------------------------------------------
(* Properties *)

\* No access dereferences a byte outside the buffer, whatever the address and
\* the size, although the difference to the offset wraps and is added to.
AccessesInsideBuffer == ~stray

\* The buffer implements an array of cells indexed by guest address: accesses
\* of any size and alignment read back each other's bytes, a refused store
\* changes nothing, a device hides the buffer but does not change it, and
\* no access to the buffer is refused but one of its last byte.
AS == INSTANCE AddressSpace
        WITH cell <- [a \in OFFSET .. OFFSET + SIZE - 1 |-> bytes[a - OFFSET]]

RefinesAddressSpace == AS!Spec

\* An access is reported as MemoryError::out_of_bounds_access only if it leaves
\* the buffer; a StaticMemory of SIZE 1, which the assertion in
\* static_memory.hpp:9 admits ("SIZE of StaticMemory can't be zero"), holds one
\* byte the guest can use.
WholeBufferReachable ==
    [][ \A n \in Sizes, a \in Word :
          OutOfBounds(n, a) =>
            ~ (Dereferenced(n, a) \subseteq Position) ]_vars
=============================================================================
