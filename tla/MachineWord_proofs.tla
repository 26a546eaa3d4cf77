------------------------- MODULE MachineWord_proofs -------------------------
(***************************************************************************)
(* Facts about the machine word, of any width, the other proofs rest on.   *)
(***************************************************************************)
EXTENDS MachineWord, TLAPS, WellFoundedInduction

\* Wrap reduces every integer to a word and leaves words alone.
LEMMA WrapWord == ASSUME NEW n \in Int PROVE Wrap(n) \in Word
  BY WordAssumption DEF Wrap, Word, MODULUS

LEMMA WrapId == ASSUME NEW x \in Word PROVE Wrap(x) = x
  BY WordAssumption DEF Wrap, Word, MODULUS

LEMMA WordInt == Word \subseteq Int /\ 0 \in Word
  BY WordAssumption DEF Word, MODULUS

LEMMA SignedInt == ASSUME NEW x \in Word PROVE Signed(x) \in Int
  BY WordAssumption DEF Signed, Word, MODULUS

LEMMA SignExtWord ==
  ASSUME NEW x \in Int, NEW size \in Nat PROVE SignExt(x, size) \in Word
  <1>1. MODULUS \in Int  BY WordAssumption DEF MODULUS
  <1>2. x + MODULUS - size \in Int  BY <1>1
  <1> QED  BY <1>2, WrapWord DEF SignExt

LEMMA AddWord ==
  ASSUME NEW x \in Int, NEW y \in Int PROVE Add(x, y) \in Word
  <1>1. x + y \in Int  OBVIOUS
  <1> QED  BY <1>1, WrapWord DEF Add

LEMMA WordOfWord == ASSUME NEW B PROVE WordOf(B) \subseteq Word
  BY DEF WordOf

LEMMA WrapBelow ==
  ASSUME NEW n \in Int, -MODULUS <= n, n < 0
  PROVE  Wrap(n) = n + MODULUS
  BY WordAssumption DEF Wrap, MODULUS

LEMMA WrapAbove ==
  ASSUME NEW n \in Int, MODULUS <= n, n < 2 * MODULUS
  PROVE  Wrap(n) = n - MODULUS
  BY WordAssumption DEF Wrap, MODULUS

\* The branchless sum of update_pc, on words: adding the wrapped difference
\* lands exactly on the target.
LEMMA WrapSum ==
  ASSUME NEW x \in Word, NEW y \in Word
  PROVE  Wrap(x + Wrap(y - x)) = y
  <1>0. /\ MODULUS \in Int
        /\ x \in Int /\ y \in Int
        /\ 0 <= x /\ x < MODULUS /\ 0 <= y /\ y < MODULUS
    BY WordAssumption DEF Word, MODULUS
  <1>1. CASE x <= y
    <2>1. y - x \in Word  BY <1>0, <1>1 DEF Word
    <2>2. x + Wrap(y - x) = y  BY <1>0, <2>1, WrapId
    <2> QED  BY <2>2, WrapId
  <1>2. CASE y < x
    <2>1. Wrap(y - x) = y - x + MODULUS  BY <1>0, <1>2, WrapBelow
    <2>2. x + Wrap(y - x) = y + MODULUS  BY <1>0, <2>1
    <2>3. Wrap(y + MODULUS) = y  BY <1>0, WrapAbove
    <2> QED  BY <2>2, <2>3
  <1> QED  BY <1>0, <1>1, <1>2

-----------------------------------------------------------------------------
(* Induction up to n for a SET of naturals.  The induction theorems of the   *)
(* library are about operators; this one is drawn from the well-foundedness  *)
(* of < on Nat.                                                              *)

LEMMA LessThanRelation ==
  \A x, y \in Nat : <<x, y>> \in OpToRel(<, Nat) <=> x < y
  BY DEF OpToRel

LEMMA LeastElement ==
  ASSUME NEW T \in SUBSET Nat, T # {}
  PROVE  \E m \in T : \A k \in T : m <= k
  <1>1. \E x \in T : \A y \in T : ~ (<<y, x>> \in OpToRel(<, Nat))
    BY NatLessThanWellFounded, WFMin
  <1>2. PICK x \in T : \A y \in T : ~ (<<y, x>> \in OpToRel(<, Nat))
    BY <1>1
  <1>3. \A y \in T : ~(y < x)  BY <1>2, LessThanRelation
  <1> QED  BY <1>3

LEMMA SetInduction ==
  ASSUME NEW n \in Nat, NEW S \in SUBSET Nat, 0 \in S,
         \A k \in S : k < n => k + 1 \in S
  PROVE  \A k \in 0 .. n : k \in S
  <1> SUFFICES ASSUME NEW j \in 0 .. n, j \notin S PROVE FALSE  OBVIOUS
  <1> DEFINE T == (0 .. n) \ S
  <1>0. T \in SUBSET Nat /\ T # {}  OBVIOUS
  <1>1. PICK m \in T : \A k \in T : m <= k
    <2> HIDE DEF T
    <2> QED  BY <1>0, LeastElement
  <1>2. m # 0  OBVIOUS
  <1>3. m - 1 \in 0 .. n /\ m - 1 \in S  BY <1>1, <1>2
  <1> QED  BY <1>3

-----------------------------------------------------------------------------
(* Quotients and remainders                                                 *)

LEMMA DivMod ==
  ASSUME NEW x \in Int, NEW b \in Nat \ {0}
  PROVE  /\ x \div b \in Int /\ x % b \in 0 .. b - 1
         /\ x = b * (x \div b) + (x % b)
  OBVIOUS

LEMMA DivNat ==
  ASSUME NEW x \in Nat, NEW b \in Nat \ {0} PROVE x \div b \in Nat
  OBVIOUS

\* A number is divided in one way only.
LEMMA DivUnique ==
  ASSUME NEW b \in Nat \ {0}, NEW q \in Int, NEW r \in 0 .. b - 1
  PROVE  (b * q + r) \div b = q /\ (b * q + r) % b = r
  OBVIOUS

LEMMA DivOfDiv ==
  ASSUME NEW x \in Int, NEW a \in Nat \ {0}, NEW b \in Nat \ {0}
  PROVE  (x \div a) \div b = x \div (a * b)
  OBVIOUS

LEMMA DivFactor ==
  ASSUME NEW x \in Int, NEW a \in Nat \ {0}, NEW b \in Nat \ {0}
  PROVE  (a * x) \div (a * b) = x \div b
  OBVIOUS

-----------------------------------------------------------------------------
(* Powers of two up to the modulus, hidden behind a name *)

Pow(k) == 2 ^ k

LEMMA PowZero == Pow(0) = 1  BY DEF Pow

LEMMA PowNext == ASSUME NEW k \in BitIndex PROVE Pow(k + 1) = 2 * Pow(k)
  BY PowerAssumption DEF Pow, BitIndex

Place == 0 .. WORD_BITS

LEMMA PowNat == ASSUME NEW k \in Place PROVE Pow(k) \in Nat /\ Pow(k) > k
  <1> DEFINE S == {j \in Nat : Pow(j) \in Nat /\ Pow(j) > j}
  <1>1. 0 \in S  BY PowZero
  <1>2. ASSUME NEW j \in S, j < WORD_BITS PROVE j + 1 \in S
    <2>1. Pow(j + 1) = 2 * Pow(j)
      BY <1>2, PowNext, WordAssumption DEF BitIndex
    <2> QED  BY <2>1
  <1>3. \A j \in 0 .. WORD_BITS : j \in S
    <2>1. WORD_BITS \in Nat /\ S \in SUBSET Nat  BY WordAssumption
    <2> HIDE DEF S
    <2> QED  BY <1>1, <1>2, <2>1, SetInduction
  <1> QED  BY <1>3 DEF Place

LEMMA PowSum ==
  ASSUME NEW a \in Nat, NEW b \in Nat, a + b <= WORD_BITS
  PROVE  Pow(a + b) = Pow(a) * Pow(b)
  <1> DEFINE S == {j \in Nat : a + j <= WORD_BITS => Pow(a + j) = Pow(a) * Pow(j)}
  <1>0. WORD_BITS \in Nat  BY WordAssumption
  <1>1. 0 \in S
    <2>1. Pow(a) \in Nat  BY <1>0, PowNat DEF Place
    <2> QED  BY <2>1, PowZero
  <1>2. ASSUME NEW j \in S, j < b PROVE j + 1 \in S
    <2>1. /\ Pow(j) \in Nat /\ Pow(a) \in Nat /\ Pow(a + j) \in Nat
          /\ Pow(j + 1) = 2 * Pow(j)
          /\ Pow((a + j) + 1) = 2 * Pow(a + j)
      BY <1>0, <1>2, PowNext, PowNat DEF BitIndex, Place
    <2>2. Pow(a + j) = Pow(a) * Pow(j)  BY <1>0, <1>2
    <2>3. Pow((a + j) + 1) = Pow(a) * Pow(j + 1)  BY <2>1, <2>2
    <2> QED  BY <2>3
  <1>3. \A j \in 0 .. b : j \in S
    <2>1. S \in SUBSET Nat  OBVIOUS
    <2> HIDE DEF S
    <2> QED  BY <1>1, <1>2, <2>1, SetInduction
  <1> QED  BY <1>3

LEMMA PowWord ==
  /\ Pow(WORD_BITS) = MODULUS /\ Pow(WORD_BITS - 1) = SIGN_BIT
  /\ WORD_BITS \in Word /\ MODULUS \in Nat \ {0}
  <1>1. Pow(WORD_BITS - 1) = SIGN_BIT  BY WordAssumption DEF Pow
  <1>2. Pow((WORD_BITS - 1) + 1) = 2 * Pow(WORD_BITS - 1)
    BY PowNext, WordAssumption DEF BitIndex
  <1>3. (WORD_BITS - 1) + 1 = WORD_BITS /\ WORD_BITS \in Place
    BY WordAssumption DEF Place
  <1>4. Pow(WORD_BITS) = MODULUS  BY <1>1, <1>2, <1>3 DEF MODULUS
  <1>5. Pow(WORD_BITS) > WORD_BITS /\ Pow(WORD_BITS) \in Nat  BY <1>3, PowNat
  <1> QED  BY <1>1, <1>4, <1>5, WordAssumption DEF Word

LEMMA PowMonotone ==
  ASSUME NEW a \in Place, NEW b \in Place, a <= b
  PROVE  Pow(b) = Pow(a) * Pow(b - a) /\ Pow(a) <= Pow(b)
  <1>1. a \in Nat /\ b - a \in Nat /\ a + (b - a) = b /\ b <= WORD_BITS /\ b - a \in Place
    BY WordAssumption DEF Place
  <1>2. Pow(b) = Pow(a) * Pow(b - a)  BY <1>1, PowSum
  <1>3. Pow(a) \in Nat /\ Pow(b - a) \in Nat /\ Pow(b - a) > 0
    BY <1>1, PowNat
  <1>4. \A x, y \in Nat : y > 0 => x <= x * y  OBVIOUS
  <1> QED  BY <1>2, <1>3, <1>4

-----------------------------------------------------------------------------
(* The bits of a number *)

Bit(x, k) == (x \div Pow(k)) % 2 = 1

LEMMA BitsMember ==
  ASSUME NEW x \in Word, NEW k
  PROVE  k \in Bits[x] <=> k \in BitIndex /\ Bit(x, k)
  BY DEF Bits, Bit, Pow

LEMMA BitIndexPlace == ASSUME NEW k \in BitIndex
  PROVE k \in Place /\ k + 1 \in Place /\ k \in Nat
  BY WordAssumption DEF BitIndex, Place

\* A sum a + b * 2^n with a below 2^n has the bits of a, then those of b.
LEMMA BitOfSum ==
  ASSUME NEW n \in Place, NEW a \in 0 .. Pow(n) - 1, NEW b \in Int, NEW k \in Place
  PROVE  Bit(a + b * Pow(n), k) <=> IF k < n THEN Bit(a, k) ELSE Bit(b, k - n)
  <1>0. /\ Pow(n) \in Nat \ {0} /\ Pow(k) \in Nat \ {0} /\ n \in Nat /\ k \in Nat
        /\ a \in Nat
    BY PowNat, WordAssumption DEF Place
  <1>1. CASE k < n
    <2> DEFINE m == n - (k + 1)
    <2>1. k + 1 \in Place /\ m \in Place
      BY <1>1, <1>0, WordAssumption DEF Place
    <2>2. Pow(n) = Pow(k + 1) * Pow(m) /\ Pow(k + 1) = 2 * Pow(k) /\ Pow(m) \in Nat
      <3>1. k \in BitIndex  BY <1>0, <1>1, WordAssumption DEF BitIndex, Place
      <3>2. k + 1 <= n  BY <1>0, <1>1
      <3> HIDE DEF m
      <3>3. Pow(n) = Pow(k + 1) * Pow(n - (k + 1))  BY <2>1, <3>2, PowMonotone
      <3> QED  BY <3>1, <3>3, <2>1, PowNext, PowNat DEF m
    <2> HIDE DEF m
    <2> DEFINE p == Pow(k)  u == Pow(m)
    <2>3. /\ p \in Nat \ {0} /\ u \in Nat
          /\ a + b * Pow(n) = p * (2 * (b * u)) + a
      BY <1>0, <2>2
    <2> HIDE DEF p, u
    <2>4. \A c, y \in Int : (p * (2 * c) + y) \div p = 2 * c + (y \div p)
      BY <2>3
    <2>5. b * u \in Int  BY <2>3
    <2>6. (a + b * Pow(n)) \div p = 2 * (b * u) + (a \div p)
      BY <2>3, <2>4, <2>5, <1>0
    <2>7. a \div p \in Int  BY <1>0, <2>3
    <2>8. ((a + b * Pow(n)) \div p) % 2 = (a \div p) % 2
      BY <2>5, <2>6, <2>7
    <2> QED  BY <1>1, <2>8 DEF Bit, p
  <1>2. CASE k >= n
    <2>1. k - n \in Place  BY <1>0, <1>2, WordAssumption DEF Place
    <2>2. Pow(k) = Pow(n) * Pow(k - n) /\ Pow(k - n) \in Nat \ {0}
      BY <1>2, <2>1, PowMonotone, PowNat DEF Place
    <2> DEFINE p == Pow(n)  u == Pow(k - n)
    <2>3. p \in Nat \ {0} /\ u \in Nat \ {0} /\ Pow(k) = p * u /\ a \in 0 .. p - 1
      BY <1>0, <2>2
    <2> HIDE DEF p, u
    <2>4. (a + b * p) \div p = b
      <3>1. p * b + a = a + b * p  BY <2>3, <1>0
      <3> QED  BY <2>3, <3>1, DivUnique
    <2>5. (a + b * p) \div (p * u) = b \div u
      <3>1. a + b * p \in Int  BY <2>3, <1>0
      <3> QED  BY <2>3, <2>4, <3>1, DivOfDiv
    <2> QED  BY <1>0, <1>2, <2>3, <2>5 DEF Bit, p, u
  <1> QED  BY <1>0, <1>1, <1>2

\* What is below 2^n has no bit from n on.
LEMMA BitHigh ==
  ASSUME NEW n \in Place, NEW a \in 0 .. Pow(n) - 1, NEW k \in Place, k >= n
  PROVE  ~Bit(a, k)
  <1>0. Pow(n) \in Nat /\ a \in Nat /\ k - n \in Place /\ n \in Nat /\ k \in Nat
    BY PowNat, WordAssumption DEF Place
  <1>1. a + 0 * Pow(n) = a  BY <1>0
  <1>2. Bit(a + 0 * Pow(n), k) <=> Bit(0, k - n)
    <2>1. 0 \in Int /\ ~(k < n)  BY <1>0
    <2> QED  BY <2>1, BitOfSum
  <1>3. Pow(k - n) \in Nat \ {0}  BY <1>0, PowNat DEF Place
  <1>4. ~Bit(0, k - n)  BY <1>3 DEF Bit
  <1> QED  BY <1>1, <1>2, <1>4

\* The remainder by 2^n keeps the low n bits, the quotient the others, the
\* product moves all of them up.
LEMMA BitLow ==
  ASSUME NEW n \in Place, NEW x \in Int, NEW k \in Place
  PROVE  Bit(x % Pow(n), k) <=> k < n /\ Bit(x, k)
  <1>0. Pow(n) \in Nat \ {0} /\ n \in Nat /\ k \in Nat
    BY PowNat, WordAssumption DEF Place
  <1> DEFINE a == x % Pow(n)  b == x \div Pow(n)
  <1>1. a \in 0 .. Pow(n) - 1 /\ b \in Int /\ x = a + b * Pow(n)
    <2>1. \A p \in Nat \ {0} : /\ x % p \in 0 .. p - 1 /\ x \div p \in Int
                               /\ x = (x % p) + (x \div p) * p
      OBVIOUS
    <2> QED  BY <1>0, <2>1
  <1> HIDE DEF a, b
  <1>2. k < n => (Bit(x, k) <=> Bit(a, k))  BY <1>1, BitOfSum
  <1>3. k >= n => ~Bit(a, k)  BY <1>1, BitHigh
  <1>4. k < n \/ k >= n  BY <1>0
  <1>5. ~(k < n /\ k >= n)  BY <1>0
  <1> QED  BY <1>2, <1>3, <1>4, <1>5 DEF a

LEMMA BitDown ==
  ASSUME NEW n \in Nat, NEW x \in Int, NEW k \in Nat, n + k <= WORD_BITS
  PROVE  Bit(x \div Pow(n), k) <=> Bit(x, k + n)
  <1>1. Pow(n + k) = Pow(n) * Pow(k)  BY PowSum
  <1>2. n \in Place /\ k \in Place  BY WordAssumption DEF Place
  <1>3. Pow(n) \in Nat \ {0} /\ Pow(k) \in Nat \ {0}
    BY <1>2, PowNat DEF Place
  <1>4. (x \div Pow(n)) \div Pow(k) = x \div (Pow(n) * Pow(k))
    BY <1>3, DivOfDiv
  <1>5. n + k = k + n  OBVIOUS
  <1> QED  BY <1>1, <1>4, <1>5 DEF Bit

LEMMA BitUp ==
  ASSUME NEW n \in Place, NEW x \in Int, NEW k \in Place
  PROVE  Bit(x * Pow(n), k) <=> k >= n /\ Bit(x, k - n)
  <1>0. Pow(n) \in Nat \ {0} /\ n \in Nat /\ k \in Nat
    BY PowNat, WordAssumption DEF Place
  <1>1. 0 \in 0 .. Pow(n) - 1 /\ 0 + x * Pow(n) = x * Pow(n)  BY <1>0
  <1>2. Bit(0 + x * Pow(n), k) <=> IF k < n THEN Bit(0, k) ELSE Bit(x, k - n)
    BY <1>1, BitOfSum
  <1>3. Pow(k) \in Nat \ {0}  BY <1>0, PowNat DEF Place
  <1>4. ~Bit(0, k)  BY <1>3 DEF Bit
  <1>5. k < n <=> ~(k >= n)  BY <1>0
  <1> QED  BY <1>1, <1>2, <1>4, <1>5

\* Two numbers below 2^n with the same n bits are equal, by induction on n.
LEMMA BitsDecide ==
  ASSUME NEW n \in Place, NEW x \in 0 .. Pow(n) - 1, NEW y \in 0 .. Pow(n) - 1,
         \A k \in 0 .. n - 1 : Bit(x, k) <=> Bit(y, k)
  PROVE  x = y
  <1> DEFINE S == {j \in Nat : j \in Place => x % Pow(j) = y % Pow(j)}
  <1>0. x \in Nat /\ y \in Nat /\ n \in Nat  
    BY PowNat, WordAssumption DEF Place
  <1>1. 0 \in S
    <2>1. x % 1 = 0 /\ y % 1 = 0  BY <1>0
    <2> QED  BY <2>1, PowZero
  <1>2. ASSUME NEW j \in S, j < n PROVE j + 1 \in S
    <2>1. j \in BitIndex /\ j \in Place /\ j \in 0 .. n - 1
      BY <1>0, <1>2, WordAssumption DEF BitIndex, Place
    <2>2. Pow(j) \in Nat \ {0} /\ Pow(j + 1) = 2 * Pow(j)
      BY <2>1, PowNat, PowNext DEF Place
    <2> DEFINE p == Pow(j)
    <2>3. p \in Nat \ {0} /\ Pow(j + 1) = 2 * p  BY <2>2
    <2>4. ((x \div p) % 2 = 1 <=> (y \div p) % 2 = 1) /\ x % p = y % p
      BY <2>1, <1>2 DEF Bit
    <2> HIDE DEF p
    <2>5. \A z \in Nat : /\ (z % (2 * p)) = p * ((z \div p) % 2) + (z % p)
                         /\ (z \div p) % 2 \in {0, 1}
      <3> SUFFICES ASSUME NEW z \in Nat
                   PROVE  /\ (z % (2 * p)) = p * ((z \div p) % 2) + (z % p)
                          /\ (z \div p) % 2 \in {0, 1}
        OBVIOUS
      <3> DEFINE q == z \div p  r == z % p
      <3>1. q \in Nat /\ r \in 0 .. p - 1 /\ z = p * q + r  BY <2>3
      <3> HIDE DEF q, r
      <3> DEFINE h == q \div 2  l == q % 2
      <3>2. h \in Nat /\ l \in {0, 1} /\ q = 2 * h + l  BY <3>1
      <3> HIDE DEF h, l
      <3>3. z = (2 * p) * h + (p * l + r)  BY <2>3, <3>1, <3>2
      <3>4. p * l + r \in 0 .. (2 * p) - 1  BY <2>3, <3>1, <3>2
      <3>5. z % (2 * p) = p * l + r
        <4>1. 2 * p \in Nat \ {0}  BY <2>3
        <4> QED  BY <4>1, <3>2, <3>3, <3>4, DivUnique
      <3> QED  BY <3>2, <3>5 DEF q, r, l
    <2>6. x % (2 * p) = y % (2 * p)
      BY <1>0, <2>3, <2>4, <2>5
    <2> QED  BY <2>3, <2>6, <1>2
  <1>3. \A j \in 0 .. n : j \in S
    <2>1. S \in SUBSET Nat  OBVIOUS
    <2> HIDE DEF S
    <2> QED  BY <1>0, <1>1, <1>2, <2>1, SetInduction
  <1>4. x % Pow(n) = y % Pow(n)  BY <1>0, <1>3
  <1>5. Pow(n) \in Nat \ {0}  BY PowNat, <1>0
  <1> QED  BY <1>4, <1>5

\* Every choice of n bits is a number below 2^n, by induction on n.
LEMMA BitsExist ==
  ASSUME NEW B, NEW n \in Place
  PROVE  \E x \in 0 .. Pow(n) - 1 : \A k \in 0 .. n - 1 : Bit(x, k) <=> k \in B
  <1> DEFINE Has(j) == \E x \in 0 .. Pow(j) - 1 :
                         \A k \in 0 .. j - 1 : Bit(x, k) <=> k \in B
             S == {j \in Nat : Has(j)}
  <1>0. n \in Nat  BY WordAssumption DEF Place
  <1>1. 0 \in S
    <2>1. 0 \in 0 .. Pow(0) - 1  BY PowZero
    <2>2. \A k \in 0 .. 0 - 1 : Bit(0, k) <=> k \in B  OBVIOUS
    <2> QED  BY <2>1, <2>2
  <1>2. ASSUME NEW j \in S, j < n PROVE j + 1 \in S
    <2>1. PICK x \in 0 .. Pow(j) - 1 : \A k \in 0 .. j - 1 : Bit(x, k) <=> k \in B
      OBVIOUS
    <2>2. j \in BitIndex /\ j \in Place /\ j \in Nat
      BY <1>0, <1>2, WordAssumption DEF BitIndex, Place
    <2>3. Pow(j) \in Nat \ {0} /\ Pow(j + 1) = 2 * Pow(j)
      BY <2>2, PowNat, PowNext DEF Place
    <2> DEFINE l == IF j \in B THEN 1 ELSE 0
    <2>4. l \in {0, 1} /\ (l = 1 <=> j \in B)  OBVIOUS
    <2> HIDE DEF l
    <2> DEFINE y == x + l * Pow(j)
    <2>5. y \in 0 .. Pow(j + 1) - 1  BY <2>3, <2>4
    <2>6. ASSUME NEW k \in 0 .. (j + 1) - 1 PROVE Bit(y, k) <=> k \in B
      <3>1. k \in Place /\ k \in Nat  BY <2>2, WordAssumption DEF BitIndex, Place
      <3>2. Bit(y, k) <=> IF k < j THEN Bit(x, k) ELSE Bit(l, k - j)
        <4>1. l \in Int  BY <2>4
        <4> QED  BY <2>2, <3>1, <4>1, BitOfSum
      <3>3. CASE k < j
        <4>1. k \in 0 .. j - 1  BY <3>1, <3>3, <2>2
        <4> QED  BY <2>1, <3>2, <3>3, <4>1
      <3>4. CASE k = j
        <4>1. Bit(l, 0) <=> l = 1  BY <2>4, PowZero DEF Bit
        <4>2. k - j = 0 /\ ~(k < j)  BY <3>4, <2>2
        <4> QED  BY <2>4, <3>2, <3>4, <4>1, <4>2
      <3> QED  BY <3>1, <2>2, <3>3, <3>4
    <2> HIDE DEF y
    <2>7. Has(j + 1)  BY <2>5, <2>6
    <2> QED  BY <2>2, <2>7
  <1>3. \A j \in 0 .. n : j \in S
    <2>1. S \in SUBSET Nat  OBVIOUS
    <2> HIDE DEF S
    <2> QED  BY <1>0, <1>1, <1>2, <2>1, SetInduction
  <1> QED  BY <1>0, <1>3

-----------------------------------------------------------------------------
(* The words with given bits *)

LEMMA WordPow == Word = 0 .. Pow(WORD_BITS) - 1 /\ WORD_BITS \in Place
                 /\ BitIndex = 0 .. WORD_BITS - 1
  BY PowWord, WordAssumption DEF Word, Place, BitIndex

\* The bits determine the word, and every set of places is the bits of one.
LEMMA WordOfIs ==
  ASSUME NEW x \in Word, NEW B \in SUBSET BitIndex,
         \A k \in BitIndex : Bit(x, k) <=> k \in B
  PROVE  WordOf(B) = {x} /\ Bits[x] = B
  <1>1. Bits[x] = B  BY BitsMember
  <1>2. ASSUME NEW y \in Word, Bits[y] = B PROVE y = x
    <2>1. \A k \in BitIndex : Bit(y, k) <=> Bit(x, k)  BY <1>2, BitsMember
    <2> QED  BY <2>1, WordPow, BitsDecide
  <1> QED  BY <1>1, <1>2 DEF WordOf

LEMMA WordOfOne ==
  ASSUME NEW B \in SUBSET BitIndex
  PROVE  \E x \in Word : WordOf(B) = {x} /\ Bits[x] = B
  <1>1. \E x \in 0 .. Pow(WORD_BITS) - 1 :
            \A k \in 0 .. WORD_BITS - 1 : Bit(x, k) <=> k \in B
    BY WordPow, BitsExist
  <1>2. PICK x \in Word : \A k \in BitIndex : Bit(x, k) <=> k \in B
    BY <1>1, WordPow
  <1> QED  BY <1>2, WordOfIs

LEMMA BitsSubset == ASSUME NEW x \in Word PROVE Bits[x] \in SUBSET BitIndex
  BY DEF Bits

LEMMA WordOfBits == ASSUME NEW x \in Word PROVE WordOf(Bits[x]) = {x}
  BY BitsSubset, BitsMember, WordOfIs

\* Moving bits up is the wrapped product, moving them down the quotient.
LEMMA UpWord ==
  ASSUME NEW x \in Word, NEW n \in Place
  PROVE  WordOf(Up(Bits[x], n)) = {Wrap(x * Pow(n))}
  <1>0. x \in Int /\ Pow(n) \in Nat /\ n \in Nat /\ MODULUS \in Nat \ {0}
    BY PowNat, PowWord, WordPow, WordAssumption DEF Place, Word
  <1>1. x * Pow(n) \in Int  BY <1>0
  <1>2. Wrap(x * Pow(n)) \in Word  BY <1>1, WrapWord
  <1>3. ASSUME NEW k \in BitIndex
        PROVE  Bit(Wrap(x * Pow(n)), k) <=> k \in Up(Bits[x], n)
    <2>1. k \in Place /\ k < WORD_BITS /\ k \in Nat  
       BY WordAssumption DEF Place, BitIndex
    <2>2. Bit(Wrap(x * Pow(n)), k) <=> Bit(x * Pow(n), k)
      BY <1>1, <2>1, WordPow, PowWord, BitLow DEF Wrap
    <2>3. Bit(x * Pow(n), k) <=> k >= n /\ Bit(x, k - n)
      BY <1>0, <2>1, BitUp
    <2>4. k - n \in BitIndex <=> k >= n
      BY <1>0, <2>1, WordAssumption DEF BitIndex
    <2> QED  BY <2>2, <2>3, <2>4, BitsMember DEF Up
  <1>4. Up(Bits[x], n) \in SUBSET BitIndex  BY DEF Up
  <1> QED  BY <1>2, <1>3, <1>4, WordOfIs

LEMMA DivWord ==
  ASSUME NEW x \in Word, NEW n \in Place
  PROVE  x \div Pow(n) \in 0 .. Pow(WORD_BITS - n) - 1 /\ x \div Pow(n) \in Word
  <1>1. Pow(WORD_BITS) = Pow(n) * Pow(WORD_BITS - n)
    BY WordPow, PowMonotone, WordAssumption DEF Place
  <1>2. Pow(n) \in Nat \ {0} /\ Pow(WORD_BITS - n) \in Nat \ {0}
    BY PowNat, WordAssumption DEF Place
  <1>3. \A p, q \in Nat \ {0} : \A y \in 0 .. p * q - 1 :
          y \div p \in 0 .. q - 1 /\ y \div p \in 0 .. p * q - 1
    <2> SUFFICES ASSUME NEW p \in Nat \ {0}, NEW q \in Nat \ {0}, NEW y \in 0 .. p * q - 1
                 PROVE  y \div p \in 0 .. q - 1 /\ y \div p \in 0 .. p * q - 1
      OBVIOUS
    <2>0. p * q \in Nat /\ q <= p * q  OBVIOUS
    <2> DEFINE d == y \div p  r == y % p
    <2>1. y \in Nat /\ d \in Nat /\ r \in 0 .. p - 1 /\ y = p * d + r  BY <2>0
    <2> HIDE DEF d, r
    <2>2. d < q
      <3> SUFFICES ASSUME d >= q PROVE FALSE  BY <2>1
      <3>1. p * d >= p * q  BY <2>1
      <3> QED  BY <3>1, <2>0, <2>1
    <2> QED  BY <2>0, <2>1, <2>2 DEF d
  <1> QED  BY <1>1, <1>2, <1>3, WordPow

LEMMA DownWord ==
  ASSUME NEW x \in Word, NEW n \in Place
  PROVE  WordOf(Down(Bits[x], n)) = {x \div Pow(n)}
  <1>0. x \in Int /\ n \in Nat /\ n <= WORD_BITS /\ WORD_BITS \in Nat
    BY PowWord, WordPow, WordAssumption DEF Place, Word, MODULUS
  <1>1. x \div Pow(n) \in Word  BY DivWord
  <1>2. ASSUME NEW k \in BitIndex
        PROVE  Bit(x \div Pow(n), k) <=> k \in Down(Bits[x], n)
    <2>1. k \in Nat /\ k < WORD_BITS  BY WordAssumption DEF BitIndex
    <2>2. CASE n + k < WORD_BITS
      <3>1. Bit(x \div Pow(n), k) <=> Bit(x, k + n)
        <4>1. n + k <= WORD_BITS  BY <1>0, <2>1, <2>2
        <4> QED BY <1>0, <2>1, <4>1, BitDown
      <3>2. k + n \in BitIndex  BY <1>0, <2>1, <2>2 DEF BitIndex
      <3> QED  BY <3>1, <3>2, BitsMember DEF Down
    <2>3. CASE n + k >= WORD_BITS
      <3>1. k + n \notin BitIndex  BY <1>0, <2>1, <2>3 DEF BitIndex
      <3>2. WORD_BITS - n \in Place /\ k >= WORD_BITS - n /\ k \in Place
        BY <1>0, <2>1, <2>3 DEF Place
      <3>3. ~Bit(x \div Pow(n), k)  BY <3>2, BitHigh, DivWord
      <3>4. k + n \notin Bits[x]  BY <3>1, BitsSubset
      <3> QED  BY <3>3, <3>4 DEF Down
    <2> QED  BY <1>0, <2>1, <2>2, <2>3
  <1>3. Down(Bits[x], n) \in SUBSET BitIndex  BY DEF Down
  <1> QED  BY <1>1, <1>2, <1>3, WordOfIs

\* Low bits of one word and the moved up bits of another are a sum.
LEMMA JoinWord ==
  ASSUME NEW n \in Place, NEW a \in 0 .. Pow(n) - 1, NEW x \in Word
  PROVE  LET v == a + (x % Pow(WORD_BITS - n)) * Pow(n)
         IN  v \in Word /\ WordOf(Bits[a] \cup Up(Bits[x], n)) = {v}
  <1> DEFINE b == x % Pow(WORD_BITS - n)
             v == a + b * Pow(n)
  <1>0. /\ n \in Nat /\ WORD_BITS \in Nat /\ WORD_BITS - n \in Place
        /\ WORD_BITS - n \in Nat /\ x \in Int
    BY WordAssumption, WordPow DEF Place, Word
  <1>1. /\ Pow(n) \in Nat \ {0} /\ Pow(WORD_BITS - n) \in Nat \ {0}
        /\ Pow(WORD_BITS) = Pow(n) * Pow(WORD_BITS - n) /\ Pow(n) <= Pow(WORD_BITS)
    <2>1. n <= WORD_BITS /\ WORD_BITS \in Place  BY <1>0, WordPow DEF Place
    <2>2. /\ Pow(WORD_BITS) = Pow(n) * Pow(WORD_BITS - n)
          /\ Pow(n) <= Pow(WORD_BITS)
      BY <2>1, PowMonotone
    <2>3. /\ Pow(n) \in Nat /\ Pow(n) > n
          /\ Pow(WORD_BITS - n) \in Nat /\ Pow(WORD_BITS - n) > WORD_BITS - n
      BY <1>0, PowNat
    <2> QED  BY <1>0, <2>2, <2>3
  <1>2. a \in Word /\ a \in Nat  BY <1>1, WordPow
  <1>3. b \in 0 .. Pow(WORD_BITS - n) - 1
    <2>1. \A p \in Nat \ {0} : x % p \in 0 .. p - 1  BY <1>0
    <2> QED  BY <1>1, <2>1
  <1> HIDE DEF b
  <1>4. v \in Word
    <2>1. \A p, q \in Nat \ {0} : \A i \in 0 .. p - 1, j \in 0 .. q - 1 :
            i + j * p \in 0 .. p * q - 1
      <3> SUFFICES ASSUME NEW p \in Nat \ {0}, NEW q \in Nat \ {0},
                          NEW i \in 0 .. p - 1, NEW j \in 0 .. q - 1
                   PROVE  i + j * p \in 0 .. p * q - 1
        OBVIOUS
      <3>1. j * p <= (q - 1) * p /\ j * p >= 0  OBVIOUS
      <3>2. (q - 1) * p = p * q - p  OBVIOUS
      <3> QED  BY <3>1, <3>2
    <2>2. v \in 0 .. Pow(n) * Pow(WORD_BITS - n) - 1  BY <1>1, <1>3, <2>1
    <2> QED  BY <1>1, <2>2, WordPow
  <1>5. ASSUME NEW k \in BitIndex
        PROVE  Bit(v, k) <=> k \in Bits[a] \cup Up(Bits[x], n)
    <2>1. k \in Place /\ k \in Nat /\ k < WORD_BITS
      BY WordAssumption DEF BitIndex, Place
    <2>2. Bit(v, k) <=> IF k < n THEN Bit(a, k) ELSE Bit(b, k - n)
      <3>1. b \in Int  BY <1>3, <1>1
      <3> QED  BY <2>1, <3>1, BitOfSum
    <2>3. CASE k < n
      <3>1. k - n \notin BitIndex  BY <1>0, <2>1, <2>3 DEF BitIndex
      <3>2. k \notin Up(Bits[x], n)  BY <3>1, BitsSubset DEF Up
      <3> QED  BY <1>2, <2>2, <2>3, <3>2, BitsMember
    <2>4. CASE k >= n
      <3>1. k - n \in BitIndex /\ k - n \in Place /\ k - n < WORD_BITS - n /\ ~(k < n)
        BY <1>0, <2>1, <2>4 DEF BitIndex, Place
      <3>2. ~Bit(a, k)  BY <2>1, <2>4, BitHigh
      <3>3. Bit(b, k - n) <=> Bit(x, k - n)
        BY <1>0, <3>1, BitLow DEF b
      <3> QED  BY <1>2, <2>2, <3>1, <3>2, <3>3, BitsMember DEF Up
    <2> QED  BY <1>0, <2>1, <2>3, <2>4
  <1>6. Bits[a] \cup Up(Bits[x], n) \in SUBSET BitIndex
    BY <1>2, BitsSubset DEF Up
  <1> HIDE DEF v
  <1>7. v \in Word /\ WordOf(Bits[a] \cup Up(Bits[x], n)) = {v}
    BY <1>4, <1>5, <1>6, WordOfIs
  <1> QED  BY <1>7 DEF v, b

\* The word of ones.
LEMMA AllOnes == MODULUS - 1 \in Word /\ Bits[MODULUS - 1] = BitIndex
  <1>1. MODULUS - 1 \in Word  BY PowWord DEF Word
  <1>2. ASSUME NEW k \in BitIndex PROVE Bit(MODULUS - 1, k)
    <2>1. k + 1 \in Place /\ k \in Place /\ WORD_BITS - (k + 1) \in Place
          /\ k + 1 <= WORD_BITS
      BY WordAssumption DEF BitIndex, Place
    <2> DEFINE p == Pow(k)  u == Pow(WORD_BITS - (k + 1))
    <2>2. p \in Nat \ {0} /\ u \in Nat \ {0}  BY <2>1, PowNat DEF Place
    <2>3. MODULUS = (2 * p) * u
      BY <2>1, PowMonotone, PowNext, PowWord, WordPow
    <2> HIDE DEF p, u
    <2>4. MODULUS - 1 = p * (2 * u - 1) + (p - 1)  BY <2>2, <2>3
    <2>5. (MODULUS - 1) \div p = 2 * u - 1
      <3>1. 2 * u - 1 \in Int /\ p - 1 \in 0 .. p - 1  BY <2>2
      <3> QED  BY <2>2, <2>4, <3>1, DivUnique
    <2>6. (2 * u - 1) % 2 = 1  BY <2>2
    <2> QED  BY <2>5, <2>6 DEF Bit, p
  <1> QED  BY <1>1, <1>2, BitsMember, BitsSubset

\* The two's complement reading of a wrapped number that fits is the number.
LEMMA SignedWrap ==
  ASSUME NEW n \in Int, -SIGN_BIT <= n, n < SIGN_BIT
  PROVE  Signed(Wrap(n)) = n
  <1>0. SIGN_BIT \in Nat \ {0} /\ MODULUS = 2 * SIGN_BIT
    BY WordAssumption DEF MODULUS
  <1>1. CASE 0 <= n
    <2>1. n \in Word  BY <1>0, <1>1 DEF Word
    <2> QED  BY <1>0, <2>1, WrapId DEF Signed
  <1>2. CASE n < 0
    <2>1. Wrap(n) = n + MODULUS  BY <1>0, <1>2, WrapBelow
    <2> QED  BY <1>0, <1>2, <2>1 DEF Signed
  <1> QED  BY <1>1, <1>2

LEMMA SignedBounds ==
  ASSUME NEW x \in Word
  PROVE  /\ Signed(x) \in Int /\ -SIGN_BIT <= Signed(x) /\ Signed(x) < SIGN_BIT
         /\ x \in Int /\ 0 <= x /\ x < MODULUS
  BY WordAssumption DEF Signed, Word, MODULUS
=============================================================================
