----------------------------- MODULE MachineWord -----------------------------
(***************************************************************************)
(* The 32-bit machine word of the emulator (RegisterFile::Unsigned and     *)
(* RegisterFile::Signed, one union) with its width as a parameter.         *)
(*                                                                         *)
(* A word is kept as its unsigned value.  Arithmetic is exact arithmetic   *)
(* followed by Wrap, bit operations act on the set of the positions of the *)
(* one bits.  Nothing here is recursive: the proof modules use this one.   *)
(***************************************************************************)
EXTENDS Integers

CONSTANTS WORD_BITS,  \* 32 in the code
          SIGN_BIT    \* 2^31 in the code, the 0x80000000 mask

ASSUME WordAssumption ==
    /\ WORD_BITS \in Nat \ {0}
    /\ SIGN_BIT \in Nat \ {0}
    /\ SIGN_BIT = 2 ^ (WORD_BITS - 1)

\* No restriction on the constants: the law of powers of two as far as the word
\* goes, which the provers know of literal exponents only.
ASSUME PowerAssumption ==
    \A k \in 0 .. WORD_BITS - 1 : 2 ^ (k + 1) = 2 * 2 ^ k

MODULUS  == 2 * SIGN_BIT
Word     == 0 .. MODULUS - 1
BitIndex == 0 .. WORD_BITS - 1

\* The value an assignment to an Unsigned (or to a Signed) keeps.
Wrap(n) == n % MODULUS

Add(x, y) == Wrap(x + y)

\* Register::s, the two's complement reading of Register::u.
Signed(x) == IF x >= SIGN_BIT THEN x - MODULUS ELSE x

\* sign_ext_imm and its siblings: (ext * (top bit of imm)) | imm, where ext
\* has ones above the field of `size` values.
SignExt(imm, size) ==
    IF (imm \div (size \div 2)) % 2 = 1 THEN Wrap(imm + MODULUS - size)
                                        ELSE Wrap(imm)

\* The value of a C++ comparison stored in a register.
Flag(b) == IF b THEN 1 ELSE 0

-----------------------------------------------------------------------------
(* Bit operations *)

\* The positions of the one bits of a word.
Bits == [x \in Word |-> {k \in BitIndex : (x \div 2 ^ k) % 2 = 1}]

\* The word whose one bits are B, as a singleton: an instruction's outcome is
\* a set of words (see Alu).
WordOf(B) == {x \in Word : Bits[x] = B}

\* Bits moved up or down n places; those that leave the word are lost.
Up(B, n)   == {k \in BitIndex : k - n \in B}
Down(B, n) == {k \in BitIndex : k + n \in B}

Xor(A, B) == (A \ B) \cup (B \ A)
=============================================================================
