--------------------------- MODULE Memory_proofs ----------------------------
(***************************************************************************)
(* Theorems about Memory for any offset, any size of the buffer and any    *)
(* contents: an access stays inside the buffer, and the buffer implements  *)
(* the cells of AddressSpace.                                              *)
(***************************************************************************)
EXTENDS Memory, MachineWord_proofs

LEMMA Constants ==
  /\ MODULUS \in Int /\ MODULUS >= 2
  /\ OFFSET \in Word /\ OFFSET \in Int
  /\ SIZE \in Int /\ SIZE >= 0 /\ SIZE < MODULUS
  /\ SIZE_T_MODULUS \in Int /\ SIZE_T_MODULUS > MODULUS + 4
  BY WordAssumption, MemoryAssumption DEF Word, MODULUS

\* The wrapping comparison of is_in_bounds is the exact one: neither the 32-bit
\* difference nor the 64-bit sum wraps when the address is not below the
\* offset.
LEMMA InBoundsExact ==
  ASSUME NEW n \in Sizes, NEW a \in Word
  PROVE  IsInBounds(n, a) <=> OFFSET <= a /\ a - OFFSET + n < SIZE
  <1>0. a \in Int /\ 0 <= a /\ a < MODULUS /\ n \in Int /\ 0 < n /\ n <= 4
    BY Constants DEF Word, Sizes
  <1>1. CASE OFFSET <= a
    <2>1. a - OFFSET \in Word
      BY <1>0, <1>1, Constants DEF Word
    <2>2. Wrap(a - OFFSET) = a - OFFSET  BY <2>1, WrapId
    <2>3. (a - OFFSET + n) % SIZE_T_MODULUS = a - OFFSET + n
      <3>1. /\ a - OFFSET + n \in Int
            /\ 0 <= a - OFFSET + n /\ a - OFFSET + n < SIZE_T_MODULUS
        BY <1>0, <1>1, <2>1, Constants DEF Word
      <3>2. \A x, m \in Int : 0 <= x /\ x < m => x % m = x  OBVIOUS
      <3> QED  BY <3>1, <3>2, Constants
    <2> QED  BY <1>0, <1>1, <2>2, <2>3, Constants DEF IsInBounds
  <1>2. CASE ~ (OFFSET <= a)
    BY <1>0, <1>2, Constants DEF IsInBounds
  <1> QED  BY <1>1, <1>2

LEMMA DereferencedInside ==
  ASSUME NEW n \in Sizes, NEW a \in Word, IsInBounds(n, a)
  PROVE  Dereferenced(n, a) \subseteq Position
  <1>1. OFFSET <= a /\ a - OFFSET + n < SIZE  BY InBoundsExact
  <1>2. a \in Int /\ n \in Int  BY WordInt DEF Sizes
  <1> QED  BY <1>1, <1>2, Constants DEF Dereferenced, Position

-----------------------------------------------------------------------------
(* Accesses stay inside the buffer *)

\* bytes is a function on the positions of the buffer.
Buffer == bytes = [p \in Position |-> bytes[p]]

IInv == AccessesInsideBuffer /\ stray \in BOOLEAN /\ Buffer

LEMMA AccessKeepsStray ==
  ASSUME ~stray, NEW n, NEW a, Access(n, a), Dereferenced(n, a) \subseteq Position
  PROVE  ~stray' /\ stray' \in BOOLEAN
  BY Zenon DEF Access

LEMMA StepIInv == IInv /\ [Next]_vars => IInv'
  <1> SUFFICES ASSUME IInv, [Next]_vars PROVE IInv'  OBVIOUS
  <1>0. ~stray /\ stray \in BOOLEAN /\ Buffer  BY DEF IInv, AccessesInsideBuffer
  <1>k. ASSUME UNCHANGED <<bytes, stray>> PROVE IInv'
    BY <1>0, <1>k, Zenon DEF IInv, AccessesInsideBuffer, Buffer
  <1>1. ASSUME NEW n \in Sizes, NEW a \in Word, ReadBuffer(n, a) PROVE IInv'
    <2>1. Access(n, a) /\ IsInBounds(n, a) /\ bytes' = bytes
      BY <1>1, Zenon DEF ReadBuffer
    <2>2. ~stray' /\ stray' \in BOOLEAN
      BY <1>0, <2>1, DereferencedInside, AccessKeepsStray, Zenon
    <2>3. Buffer'  BY <1>0, <2>1, Zenon DEF Buffer
    <2> QED  BY <2>2, <2>3, Zenon DEF IInv, AccessesInsideBuffer
  <1>2. ASSUME NEW n \in Sizes, NEW a \in Word, NEW v, StoreBuffer(n, a, v)
        PROVE  IInv'
    <2>1. Access(n, a) /\ IsInBounds(n, a)  BY <1>2, Zenon DEF StoreBuffer
    <2>2. ~stray' /\ stray' \in BOOLEAN
      BY <1>0, <2>1, DereferencedInside, AccessKeepsStray, Zenon
    <2>3. Buffer'  BY <1>2 DEF StoreBuffer, Buffer
    <2> QED  BY <2>2, <2>3, Zenon DEF IInv, AccessesInsideBuffer
  <1>3. ASSUME NEW p \in Position, NEW b \in Byte, HostWrite(p, b) PROVE IInv'
    <2>1. ~stray' /\ stray' \in BOOLEAN  BY <1>0, <1>3, Zenon DEF HostWrite
    <2>2. Buffer'  BY <1>0, <1>3 DEF HostWrite, Buffer
    <2> QED  BY <2>1, <2>2, Zenon DEF IInv, AccessesInsideBuffer
  <1>4. ASSUME NEW n, NEW a,
               \/ Unaligned(n, a) \/ OutOfBounds(n, a)
               \/ Mmio(n, a)
               \/ PtrFromAddress(a)
        PROVE  UNCHANGED <<bytes, stray>>
    BY <1>4, Zenon DEF Unaligned, OutOfBounds, Mmio, PtrFromAddress
  <1>5. CASE UNCHANGED vars  BY <1>k, <1>5, Zenon DEF vars
  <1>6. CASE Next
    BY <1>k, <1>1, <1>2, <1>3, <1>4, <1>6
    DEF Next, Read, ReadNoMmio, Store, StoreNoMmio
  <1> QED  BY <1>5, <1>6

LEMMA InitIInv == Init => IInv
  BY DEF Init, IInv, AccessesInsideBuffer, Buffer

\* The invariant both theorems below rest on (memory.hpp:28-139).
THEOREM MemoryInvariant == Spec => []IInv
  BY InitIInv, StepIInv, PTL DEF Spec

\* No read and no store reaches outside the buffer, for any offset, size, address and access size (memory.hpp:154-159).
THEOREM MemoryAccessesInsideBuffer == Spec => []AccessesInsideBuffer
  <1>1. IInv => AccessesInsideBuffer  BY DEF IInv
  <1> QED  BY <1>1, MemoryInvariant, PTL

-----------------------------------------------------------------------------
(* Types *)

\* Four bytes make a word, and each counts a byte's values times the one below.
LEMMA Weights ==
  /\ BYTE \in Nat \ {0}
  /\ Weight(0) = 1
  /\ \A k \in 0 .. 4 : Weight(k) \in 1 .. MODULUS
  /\ \A k \in 0 .. 3 : Weight(k + 1) = BYTE * Weight(k)
  <1> DEFINE b == BYTE_BITS
  <1>1. b \in Nat \ {0} /\ WORD_BITS = 4 * b  BY MemoryAssumption
  <1>2. b * 0 = 0  BY <1>1
  <1>3. ASSUME NEW k \in 0 .. 4
        PROVE  Weight(k) = Pow(b * k) /\ b * k \in Place
    <2>1. b * k \in Nat /\ b * k <= 4 * b
      <3>1. k = 0 \/ k = 1 \/ k = 2 \/ k = 3 \/ k = 4  BY <1>3
      <3> QED  BY <1>1, <3>1
    <2> QED  BY <1>1, <2>1 DEF Weight, Pow, Place
  <1>4. BYTE = Pow(b) /\ b \in Place  BY <1>1 DEF BYTE, Pow, Place
  <1>5. ASSUME NEW k \in 0 .. 4 PROVE Weight(k) \in 1 .. MODULUS
    <2>1. WORD_BITS \in Place /\ b * k <= WORD_BITS
      BY <1>1, <1>3, WordAssumption DEF Place
    <2>2. Pow(b * k) <= Pow(WORD_BITS)  BY <1>3, <2>1, PowMonotone
    <2>3. Pow(b * k) \in Nat /\ Pow(b * k) > 0
      BY <1>3, PowNat DEF Place
    <2> QED  BY <1>3, <2>2, <2>3, PowWord
  <1>6. ASSUME NEW k \in 0 .. 3 PROVE Weight(k + 1) = BYTE * Weight(k)
    <2>1. k \in 0 .. 4 /\ k + 1 \in 0 .. 4  OBVIOUS
    <2>2. b * (k + 1) = b + b * k /\ b * k \in Nat /\ b + b * k <= WORD_BITS
      <3>1. k = 0 \/ k = 1 \/ k = 2 \/ k = 3  OBVIOUS
      <3> QED  BY <1>1, <3>1
    <2>3. Pow(b + b * k) = Pow(b) * Pow(b * k)  BY <1>1, <2>2, PowSum
    <2> QED  BY <1>3, <1>4, <2>1, <2>2, <2>3
  <1>7. Weight(0) = 1  BY <1>2, <1>3, PowZero
  <1>8. BYTE \in Nat \ {0}
    <2>1. Pow(b) \in Nat /\ Pow(b) > b  BY <1>4, PowNat
    <2> QED  BY <1>1, <1>4, <2>1
  <1> QED  BY <1>5, <1>6, <1>7, <1>8

LEMMA ValueWord == ASSUME NEW n \in Sizes PROVE Value(n) \subseteq Word
  <1>1. n \in 0 .. 4  BY DEF Sizes
  <1>2. Weight(n) \in 1 .. MODULUS  BY <1>1, Weights
  <1> QED  BY <1>2, Constants DEF Value, Word

LEMMA DigitByte ==
  ASSUME NEW v \in Int, NEW k \in 0 .. 4 PROVE Digit(v, k) \in Byte
  <1>1. Weight(k) \in 1 .. MODULUS /\ BYTE \in Nat \ {0}  BY Weights
  <1>2. v \div Weight(k) \in Int  BY <1>1, Constants
  <1> QED  BY <1>1, <1>2 DEF Digit, Byte

LEMMA StoredBytes ==
  ASSUME TypeOK, NEW n \in Sizes, NEW a \in Word, NEW v \in Value(n),
         StoreBuffer(n, a, v)
  PROVE  bytes' \in [Position -> Byte]
  <1>1. v \in Int /\ a \in Int /\ n \in 0 .. 4
    <2>1. v \in Word  BY ValueWord
    <2> QED  BY <2>1, WordInt DEF Sizes
  <1>2. ASSUME NEW p \in Position, p \in Dereferenced(n, a)
        PROVE  p - (a - OFFSET) \in 0 .. 4
    <2>1. PICK k \in 0 .. n - 1 : p = a - OFFSET + k
      BY <1>2 DEF Dereferenced
    <2> QED  BY <1>1, <2>1, Constants
  <1>3. ASSUME NEW p \in Position
        PROVE  (IF p \in Dereferenced(n, a) THEN Digit(v, p - (a - OFFSET))
                ELSE bytes[p]) \in Byte
    BY <1>1, <1>2, <1>3, DigitByte DEF TypeOK
  <1> QED  BY <1>3 DEF StoreBuffer

\* The reply of a call is well formed.
LEMMA ReplyType ==
  ASSUME NEW st \in Status, NEW a \in Word, NEW n \in Sizes \cup {0},
         NEW v \in Word
  PROVE  Reply(st, a, n, v) \in [status : Status, address : Word,
                                 size : Sizes \cup {0}, value : Word]
  BY DEF Reply

LEMMA StepTypeOK == TypeOK /\ IInv /\ [Next]_vars => TypeOK'
  <1> SUFFICES ASSUME TypeOK, IInv, [Next]_vars PROVE TypeOK'  OBVIOUS
  <1>0. 0 \in Word /\ 1 \in Sizes  BY WordInt DEF Sizes
  <1>a. stray' \in BOOLEAN
    <2>1. IInv'  BY StepIInv
    <2> QED  BY <2>1 DEF IInv
  <1>k. ASSUME NEW st \in Status, NEW a \in Word, NEW n \in Sizes \cup {0},
               NEW v \in Word, reply' = Reply(st, a, n, v),
               bytes' \in [Position -> Byte]
        PROVE  TypeOK'
    BY <1>a, <1>k, ReplyType DEF TypeOK
  <1>b. bytes \in [Position -> Byte]  BY DEF TypeOK
  <1>1. ASSUME NEW n \in Sizes, NEW a \in Word, ReadNoMmio(n, a) PROVE TypeOK'
    <2>1. CASE Unaligned(n, a)
      BY <1>0, <1>b, <1>k, <2>1 DEF Unaligned, Status
    <2>2. CASE OutOfBounds(n, a)
      BY <1>0, <1>b, <1>k, <2>2 DEF OutOfBounds, Status
    <2>3. CASE ReadBuffer(n, a)
      BY <1>b, <1>k, <2>3, ValueWord DEF ReadBuffer, Status
    <2> QED  BY <1>1, <2>1, <2>2, <2>3 DEF ReadNoMmio
  <1>2. ASSUME NEW n \in Sizes, NEW a \in Word, NEW v \in Value(n),
               StoreNoMmio(n, a, v)
        PROVE  TypeOK'
    <2>1. CASE Unaligned(n, a)
      BY <1>0, <1>b, <1>k, <2>1 DEF Unaligned, Status
    <2>2. CASE OutOfBounds(n, a)
      BY <1>0, <1>b, <1>k, <2>2 DEF OutOfBounds, Status
    <2>3. CASE StoreBuffer(n, a, v)
      <3>1. bytes' \in [Position -> Byte]  BY <2>3, StoredBytes
      <3> QED  BY <1>k, <2>3, <3>1, ValueWord DEF StoreBuffer, Status
    <2> QED  BY <1>2, <2>1, <2>2, <2>3 DEF StoreNoMmio
  <1>3. ASSUME NEW n \in Sizes, NEW a \in Word, Mmio(n, a) PROVE TypeOK'
    BY <1>0, <1>b, <1>k, <1>3 DEF Mmio, Status
  <1>4. ASSUME NEW a \in Word, PtrFromAddress(a) PROVE TypeOK'
    <2>1. CASE IsInBounds(1, a)
      <3>1. a - OFFSET \in Word
        BY <1>0, <2>1, InBoundsExact, WordInt, Constants DEF Word
      <3> QED  BY <1>0, <1>b, <1>k, <1>4, <2>1, <3>1 DEF PtrFromAddress, Status
    <2>2. CASE ~IsInBounds(1, a)
      BY <1>0, <1>b, <1>k, <1>4, <2>2 DEF PtrFromAddress, Status
    <2> QED  BY <2>1, <2>2
  <1>5. ASSUME NEW p \in Position, NEW b \in Byte, HostWrite(p, b)
        PROVE  TypeOK'
    BY <1>a, <1>5 DEF HostWrite, TypeOK
  <1>6. CASE UNCHANGED vars  BY <1>6 DEF vars, TypeOK
  <1>7. CASE Next
    BY <1>1, <1>2, <1>3, <1>4, <1>5, <1>7 DEF Next, Read, Store
  <1> QED  BY <1>6, <1>7

LEMMA InitTypeOK == Init => TypeOK
  <1> SUFFICES ASSUME Init PROVE TypeOK  OBVIOUS
  <1>1. 0 \in Word  BY WordInt
  <1>2. "none" \in Status  BY DEF Status
  <1>3. Reply("none", 0, 0, 0) \in [status : Status, address : Word,
                                   size : Sizes \cup {0}, value : Word]
    BY <1>1, <1>2, ReplyType
  <1>4. reply = Reply("none", 0, 0, 0) /\ stray \in BOOLEAN
        /\ bytes \in [Position -> Byte]
    BY DEF Init
  <1> QED  BY <1>3, <1>4 DEF TypeOK

\* The bytes stay bytes and every reply names a word sized address and value
\* (memory.hpp:28-146).
THEOREM MemoryTypeOK == Spec => []TypeOK
  BY InitTypeOK, StepTypeOK, MemoryInvariant, PTL DEF Spec

-----------------------------------------------------------------------------
(* The refinement of AddressSpace *)

\* The cells the buffer stands for.
Cells == [a \in OFFSET .. OFFSET + SIZE - 1 |-> bytes[a - OFFSET]]

\* The two modules agree on everything but the state.
LEMMA SameData ==
  /\ AS!Word = Word /\ AS!Sizes = Sizes /\ AS!Byte = Byte
  /\ AS!Address = OFFSET .. OFFSET + SIZE - 1
  /\ \A n : AS!Value(n) = Value(n)
  /\ \A v, k : AS!Digit(v, k) = Digit(v, k)
  /\ \A a, n : AS!Span(a, n) = a .. a + n - 1
  /\ \A st, a, n, v : AS!Reply(st, a, n, v) = Reply(st, a, n, v)
  BY DEF AS!Word, AS!MODULUS, Word, MODULUS, AS!Sizes, Sizes, AS!Byte, Byte,
         AS!BYTE, BYTE, AS!Address, AS!Value, Value, AS!Weight, Weight, AS!Digit,
         Digit, AS!Span, AS!Reply, Reply

\* An address is one of the cells exactly when its position is in the buffer.
LEMMA AddressPosition ==
  /\ \A a \in OFFSET .. OFFSET + SIZE - 1 : a \in Int /\ a - OFFSET \in Position
  /\ \A p \in Position : p \in Int /\ p + OFFSET \in OFFSET .. OFFSET + SIZE - 1
  BY Constants DEF Position

LEMMA LoadRefined ==
  ASSUME NEW n \in Sizes, NEW a \in Word, ReadBuffer(n, a)
  PROVE  AS!Next
  <1>1. OFFSET <= a /\ a - OFFSET + n < SIZE
    BY InBoundsExact DEF ReadBuffer
  <1>2. a \in Int /\ n \in Int /\ n > 0  BY WordInt DEF Sizes
  <1>3. AS!Span(a, n) \subseteq AS!Address
    BY <1>1, <1>2, Constants, SameData
  <1>4. \A k \in 0 .. n - 1 :
          /\ a - OFFSET + k \in Position
          /\ a + k \in OFFSET .. OFFSET + SIZE - 1
          /\ (a + k) - OFFSET = a - OFFSET + k
    BY <1>1, <1>2, Constants DEF Position
  <1>5. PICK v \in Value(n) :
          /\ \A k \in 0 .. n - 1 :
               a - OFFSET + k \in Position =>
                 Digit(v, k) = bytes[a - OFFSET + k]
          /\ reply' = Reply("loaded", a, n, v)
    BY DEF ReadBuffer
  <1>6. \A k \in 0 .. n - 1 : Cells[a + k] = AS!Digit(v, k)
    BY <1>4, <1>5, SameData DEF Cells
  <1>7. Cells' = Cells  BY DEF ReadBuffer, Cells
  <1>8. AS!Load(a, n, v)
    BY <1>3, <1>5, <1>6, <1>7, SameData DEF AS!Load, Cells
  <1>9. reply'.address = a /\ reply'.size = n /\ reply'.value = v
    BY <1>5 DEF Reply
  <1>10. AS!Load(reply'.address, reply'.size, reply'.value)
    BY <1>8, <1>9, Zenon
  <1> QED  BY <1>10, Zenon DEF AS!Next

LEMMA StoreRefined ==
  ASSUME NEW n \in Sizes, NEW a \in Word, NEW v \in Value(n), StoreBuffer(n, a, v)
  PROVE  AS!Next
  <1>1. OFFSET <= a /\ a - OFFSET + n < SIZE
    BY InBoundsExact DEF StoreBuffer
  <1>2. a \in Int /\ n \in Int /\ n > 0  BY WordInt DEF Sizes
  <1>3. AS!Span(a, n) \subseteq AS!Address
    BY <1>1, <1>2, Constants, SameData
  <1>4. ASSUME NEW b \in OFFSET .. OFFSET + SIZE - 1
        PROVE  bytes'[b - OFFSET] =
                 IF b \in a .. a + n - 1 THEN Digit(v, b - a) ELSE Cells[b]
    <2>1. b \in Int /\ b - OFFSET \in Position  BY AddressPosition
    <2>2. b - OFFSET \in Dereferenced(n, a) <=> b \in a .. a + n - 1
      <3>1. ASSUME b \in a .. a + n - 1 PROVE b - OFFSET \in Dereferenced(n, a)
        <4>1. b - a \in 0 .. n - 1 /\ b - OFFSET = a - OFFSET + (b - a)
          BY <1>2, <2>1, <3>1, Constants
        <4> QED  BY <4>1 DEF Dereferenced
      <3>2. ASSUME b - OFFSET \in Dereferenced(n, a) PROVE b \in a .. a + n - 1
        <4>1. PICK k \in 0 .. n - 1 : b - OFFSET = a - OFFSET + k
          BY <3>2 DEF Dereferenced
        <4> QED  BY <1>2, <2>1, <4>1, Constants
      <3> QED  BY <3>1, <3>2
    <2>3. (b - OFFSET) - (a - OFFSET) = b - a  BY <1>2, <2>1, Constants
    <2> QED  BY <2>1, <2>2, <2>3 DEF StoreBuffer, Cells
  <1>5. Cells' = [b \in AS!Address |->
                    IF b \in AS!Span(a, n) THEN AS!Digit(v, b - a) ELSE Cells[b]]
    BY <1>4, SameData DEF Cells
  <1>6. reply' = Reply("stored", a, n, v)  BY DEF StoreBuffer
  <1>7. reply'.address = a /\ reply'.size = n /\ reply'.value = v
    BY <1>6 DEF Reply
  <1>8. AS!Store(reply'.address, reply'.size, reply'.value)
    BY <1>3, <1>5, <1>6, <1>7, SameData DEF AS!Store, Cells
  <1> QED  BY <1>8, Zenon DEF AS!Next

\* Every refusal is one the abstract memory may make.
LEMMA RefuseRefined ==
  ASSUME NEW n \in Sizes, NEW a \in Word,
         \/ Unaligned(n, a)
         \/ /\ ~IsInBounds(n, a)
            /\ reply' = Reply("out_of_bounds_access", a, n, 0)
            /\ UNCHANGED bytes
  PROVE  AS!Next
  <1>0. Cells' = Cells  BY DEF Unaligned, Cells
  <1>1. ASSUME Unaligned(n, a) PROVE AS!Refuse(a, n)
    BY <1>0, <1>1, SameData
    DEF Unaligned, Misaligned, IsAligned, AS!Refuse, Cells
  <1>2. ASSUME ~IsInBounds(n, a),
               reply' = Reply("out_of_bounds_access", a, n, 0),
               UNCHANGED bytes
        PROVE  AS!Refuse(a, n)
    <2>1. ~ (OFFSET <= a /\ a - OFFSET + n < SIZE)  BY <1>2, InBoundsExact
    <2>2. a \in Int /\ n \in Int /\ n > 0  BY WordInt DEF Sizes
    <2>3. a \in AS!Span(a, n) /\ a + n - 1 \in AS!Span(a, n)
      BY <2>2, SameData
    <2>4. ASSUME AS!Span(a, n) \subseteq AS!Address \ {OFFSET + SIZE - 1}
          PROVE  FALSE
      <3>1. /\ a \in OFFSET .. OFFSET + SIZE - 1
            /\ a + n - 1 \in OFFSET .. OFFSET + SIZE - 1
            /\ a + n - 1 # OFFSET + SIZE - 1
        BY <2>3, <2>4, SameData
      <3> QED  BY <2>1, <2>2, <3>1, Constants
    <2> QED  BY <1>0, <1>2, <2>4, SameData DEF AS!Refuse, Cells
  <1>3. reply'.address = a /\ reply'.size = n
    BY DEF Unaligned, Reply
  <1> QED  BY <1>1, <1>2, <1>3 DEF AS!Next

LEMMA StepAddressSpace == IInv /\ [Next]_vars => [AS!Next]_AS!vars
  <1> SUFFICES ASSUME IInv, [Next]_vars PROVE [AS!Next]_AS!vars  OBVIOUS
  <1>1. ASSUME NEW n \in Sizes, NEW a \in Word, ReadNoMmio(n, a)
        PROVE  AS!Next
    BY <1>1, LoadRefined, RefuseRefined DEF ReadNoMmio, OutOfBounds
  <1>2. ASSUME NEW n \in Sizes, NEW a \in Word, NEW v \in Value(n),
               StoreNoMmio(n, a, v)
        PROVE  AS!Next
    BY <1>2, StoreRefined, RefuseRefined DEF StoreNoMmio, OutOfBounds
  <1>3. ASSUME NEW n \in Sizes, NEW a, Mmio(n, a) PROVE AS!Next
    <2>1. Cells' = Cells  BY <1>3 DEF Mmio, Cells
    <2>2. AS!Device
      BY <1>3, <2>1, SameData DEF Mmio, AS!Device, Cells
    <2> QED  BY <2>2 DEF AS!Next
  <1>4. ASSUME NEW a \in Word, PtrFromAddress(a) PROVE AS!Next
    <2>0. 1 \in Sizes  BY DEF Sizes
    <2>1. CASE IsInBounds(1, a)
      <3>1. OFFSET <= a /\ a - OFFSET + 1 < SIZE  BY <2>0, <2>1, InBoundsExact
      <3>2. a \in AS!Address  BY <3>1, WordInt, Constants, SameData
      <3>3. Cells' = Cells  BY <1>4 DEF PtrFromAddress, Cells
      <3>4. reply' = Reply("located", a, 1, a - OFFSET)
        BY <1>4, <2>1 DEF PtrFromAddress
      <3>5. AS!Locate(a, a - OFFSET)
        BY <3>2, <3>3, <3>4, SameData DEF AS!Locate, Cells
      <3>6. reply'.address = a /\ reply'.value = a - OFFSET
        BY <3>4 DEF Reply
      <3> QED  BY <3>5, <3>6 DEF AS!Next
    <2>2. CASE ~IsInBounds(1, a)
      BY <1>4, <2>0, <2>2, RefuseRefined DEF PtrFromAddress
    <2> QED  BY <2>1, <2>2
  <1>5. ASSUME NEW p \in Position, NEW b \in Byte, HostWrite(p, b)
        PROVE  AS!Next
    <2>1. p \in Int /\ p + OFFSET \in AS!Address
      BY AddressPosition, SameData
    <2>2. bytes = [q \in Position |-> bytes[q]]  BY DEF IInv, Buffer
    <2>3. \A a \in AS!Address :
            bytes'[a - OFFSET] = IF a = p + OFFSET THEN b ELSE bytes[a - OFFSET]
      BY <1>5, <2>1, <2>2, AddressPosition, Constants, SameData DEF HostWrite
    <2>4. Cells' = [Cells EXCEPT ![p + OFFSET] = b]
      BY <2>1, <2>3, SameData DEF Cells
    <2>5. AS!HostWrite(p + OFFSET, b)
      BY <1>5, <2>4 DEF HostWrite, AS!HostWrite, Cells
    <2> QED  BY <2>1, <2>5, SameData DEF AS!Next
  <1>6. CASE UNCHANGED vars  BY <1>6 DEF vars, AS!vars
  <1>7. CASE Next
    BY <1>1, <1>2, <1>3, <1>4, <1>5, <1>7 DEF Next, Read, Store
  <1> QED  BY <1>6, <1>7

LEMMA InitAddressSpace == Init => AS!Init
  <1> SUFFICES ASSUME Init PROVE AS!Init  OBVIOUS
  <1>1. Cells \in [AS!Address -> AS!Byte]
    BY AddressPosition, SameData DEF Init, Cells
  <1> QED  BY <1>1, SameData DEF Init, AS!Init, Cells

\* The buffer with its offset, its bounds check and its accesses of three sizes
\* implements one cell per guest address (memory.hpp:28-146).
THEOREM MemoryRefinesAddressSpace == Spec => RefinesAddressSpace
  <1>1. Spec => AS!Init  BY InitAddressSpace DEF Spec
  <1>2. Spec => [][AS!Next]_AS!vars
    BY StepAddressSpace, MemoryInvariant, PTL DEF Spec
  <1> QED  BY <1>1, <1>2 DEF RefinesAddressSpace, AS!Spec
=============================================================================
