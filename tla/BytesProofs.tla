---------------------------- MODULE BytesProofs -----------------------------
(***************************************************************************)
(* The loop of do_breed on bytes computes what KittyDna says of bits, for  *)
(* bytes of any width and kitties of any length.  What is said of numbers  *)
(* of n bits is shown by induction on n, in the form of a set of numbers   *)
(* that holds 0 and the successors of its elements.                        *)
(***************************************************************************)
EXTENDS KittyBytes, FiniteSetTheorems, TLAPS

-----------------------------------------------------------------------------
(* Induction *)

\* A set of numbers that is not empty has a smallest element.
LEMMA SmallestNumber ==
  ASSUME NEW S, S \subseteq Nat, S # {}
  PROVE  \E n \in S : \A m \in S : n <= m
  <1>1. PICK k \in S : TRUE
    OBVIOUS
  <1> DEFINE Low == {n \in S : n <= k}
             B   == {0 .. n : n \in Low}
  <1>2. IsFiniteSet(0 .. k)
    BY FS_Interval
  <1>3. IsWellFoundedOn(StrictSubsetOrdering(0 .. k), FiniteSubsetsOf(0 .. k))
    BY FS_StrictSubsetOrderingWellFounded
  <1>4. B \subseteq FiniteSubsetsOf(0 .. k) /\ B # {}
    <2>1. ASSUME NEW n \in Low PROVE 0 .. n \subseteq 0 .. k
      OBVIOUS
    <2>2. B \subseteq SUBSET (0 .. k)
      BY <2>1
    <2> QED
      BY <2>2, <1>2, FS_FiniteSubsetsOfFinite
  <1>5. \E s \in B : \A t \in B : ~ (<<t, s>> \in StrictSubsetOrdering(0 .. k))
    BY <1>3, <1>4, WFMin
  <1>6. PICK n \in Low : \A m \in Low : ~ (<<0 .. m, 0 .. n>> \in StrictSubsetOrdering(0 .. k))
    BY <1>5
  <1>7. ASSUME NEW m \in S, m < n PROVE FALSE
    <2>1. m \in Low /\ m \in Nat /\ n \in Nat /\ k \in Nat /\ n <= k
      BY <1>6, <1>7
    <2>2. n \in 0 .. n /\ n \notin 0 .. m
      BY <2>1, <1>7
    <2>3. 0 .. m \subseteq 0 .. n /\ 0 .. m # 0 .. n /\ 0 .. n \subseteq 0 .. k /\ 0 .. m \subseteq 0 .. k
      BY <2>1, <2>2, <1>7
    <2>4. <<0 .. m, 0 .. n>> \in StrictSubsetOrdering(0 .. k)
      BY <2>3 DEF StrictSubsetOrdering
    <2> QED
      BY <2>1, <2>4, <1>6
  <1> QED
    BY <1>6, <1>7

\* A set that holds 0 and with a number the next holds all numbers.
LEMMA Induction ==
  ASSUME NEW S, 0 \in S, \A n \in Nat : n \in S => n + 1 \in S
  PROVE  Nat \subseteq S
  <1> SUFFICES ASSUME Nat \ S # {} PROVE FALSE
    OBVIOUS
  <1>1. PICK n \in Nat \ S : \A m \in Nat \ S : n <= m
    <2>1. Nat \ S \subseteq Nat
      OBVIOUS
    <2> QED
      BY <2>1, SmallestNumber
  <1>2. n - 1 \in Nat /\ n - 1 < n /\ (n - 1) + 1 = n
    BY <1>1
  <1>3. n - 1 \in S
    BY <1>1, <1>2
  <1> QED
    BY <1>2, <1>3

-----------------------------------------------------------------------------
(* Powers of two *)

\* p holds the powers up to the n-th.
Powers(p, n) == p \in [0 .. n -> Nat] /\ p[0] = 1 /\ \A k \in 1 .. n : p[k] = 2 * p[k - 1]

\* However many powers are wanted, they can be written down.
LEMMA PowersExist == \A n \in Nat : \E p : Powers(p, n)
  <1> DEFINE S == {n \in Nat : \E p : Powers(p, n)}
  <1>1. 0 \in S
    <2>1. Powers([k \in 0 .. 0 |-> 1], 0)
      BY DEF Powers
    <2> QED
      BY <2>1
  <1>2. ASSUME NEW n \in Nat, n \in S PROVE n + 1 \in S
    <2>1. PICK p : Powers(p, n)
      BY <1>2
    <2> DEFINE q == [k \in 0 .. n + 1 |-> IF k = n + 1 THEN 2 * p[n] ELSE p[k]]
    <2>2. p[n] \in Nat /\ \A k \in 0 .. n : p[k] \in Nat /\ q[k] = p[k]
      BY <2>1 DEF Powers
    <2>3. q \in [0 .. n + 1 -> Nat] /\ q[0] = 1 /\ q[n + 1] = 2 * q[n]
      BY <2>1, <2>2 DEF Powers
    <2>4. ASSUME NEW k \in 1 .. n + 1 PROVE q[k] = 2 * q[k - 1]
      <3>1. CASE k = n + 1
        BY <3>1, <2>3
      <3>2. CASE k # n + 1
        <4>1. k \in 1 .. n /\ k - 1 \in 0 .. n /\ k \in 0 .. n
          BY <3>2
        <4> HIDE DEF q
        <4> QED
          BY <4>1, <2>1, <2>2 DEF Powers
      <3> QED
        BY <3>1, <3>2
    <2>5. Powers(q, n + 1)
      <3> HIDE DEF q
      <3> QED
        BY <2>3, <2>4 DEF Powers
    <2> QED
      BY <2>5
  <1> HIDE DEF S
  <1>3. Nat \subseteq S
    BY <1>1, <1>2, Induction
  <1> QED
    BY <1>3 DEF S

\* They can be written down in one way only.
LEMMA PowersUnique ==
  ASSUME NEW m \in Nat, NEW n \in Nat, NEW p, NEW q, Powers(p, m), Powers(q, n)
  PROVE  \A k \in 0 .. m : k <= n => p[k] = q[k]
  <1> DEFINE S == {k \in Nat : k <= m /\ k <= n => p[k] = q[k]}
  <1>1. 0 \in S
    BY DEF Powers
  <1>2. ASSUME NEW k \in Nat, k \in S PROVE k + 1 \in S
    <2> SUFFICES ASSUME k + 1 <= m, k + 1 <= n PROVE p[k + 1] = q[k + 1]
      OBVIOUS
    <2>1. p[k] = q[k] /\ k + 1 \in 1 .. m /\ k + 1 \in 1 .. n /\ (k + 1) - 1 = k
      BY <1>2
    <2> QED
      BY <2>1 DEF Powers
  <1> HIDE DEF S
  <1>3. Nat \subseteq S
    BY <1>1, <1>2, Induction
  <1> QED
    BY <1>3 DEF S

\* Pow2 is what its definition says.
LEMMA Pow2Def == Pow2 = [n \in Nat |-> IF n = 0 THEN 1 ELSE 2 * Pow2[n - 1]]
  <1> DEFINE P(n) == CHOOSE p : Powers(p, n)
             f    == [n \in Nat |-> P(n)[n]]
  <1>1. \A n \in Nat : Powers(P(n), n)
    BY PowersExist
  <1> HIDE DEF P
  <1>2. f[0] = 1
    BY <1>1 DEF Powers
  <1>3. ASSUME NEW n \in Nat, n # 0 PROVE f[n] = 2 * f[n - 1]
    <2>1. n - 1 \in Nat /\ n \in 1 .. n /\ n - 1 \in 0 .. (n - 1) /\ n - 1 <= n
      BY <1>3
    <2>2. Powers(P(n), n) /\ Powers(P(n - 1), n - 1)
      BY <1>1, <2>1
    <2>3. P(n)[n] = 2 * P(n)[n - 1]
      BY <2>1, <2>2 DEF Powers
    <2>4. P(n - 1)[n - 1] = P(n)[n - 1]
      BY <2>1, <2>2, PowersUnique
    <2> QED
      BY <2>1, <2>3, <2>4
  <1>4. f = [n \in Nat |-> IF n = 0 THEN 1 ELSE 2 * f[n - 1]]
    <2>1. \A n \in Nat : f[n] = IF n = 0 THEN 1 ELSE 2 * f[n - 1]
      BY <1>2, <1>3
    <2> QED
      BY <2>1
  <1> HIDE DEF f
  <1> QED
    BY <1>4 DEF Pow2

LEMMA Pow2Zero == Pow2[0] = 1
  <1>1. Pow2[0] = IF 0 = 0 THEN 1 ELSE 2 * Pow2[0 - 1]
    BY Pow2Def
  <1> QED
    BY <1>1

LEMMA Pow2Next ==
  ASSUME NEW n \in Nat
  PROVE  Pow2[n + 1] = 2 * Pow2[n]
  <1>1. n + 1 \in Nat /\ n + 1 # 0 /\ (n + 1) - 1 = n
    OBVIOUS
  <1>2. Pow2[n + 1] = IF n + 1 = 0 THEN 1 ELSE 2 * Pow2[(n + 1) - 1]
    BY <1>1, Pow2Def
  <1> QED
    BY <1>1, <1>2

LEMMA Pow2Positive == \A n \in Nat : Pow2[n] \in Nat \ {0}
  <1> DEFINE S == {n \in Nat : Pow2[n] \in Nat \ {0}}
  <1>1. 0 \in S
    BY Pow2Zero
  <1>2. ASSUME NEW n \in Nat, n \in S PROVE n + 1 \in S
    <2>1. Pow2[n + 1] = 2 * Pow2[n]
      BY Pow2Next
    <2> QED
      BY <1>2, <2>1
  <1> HIDE DEF S
  <1>3. Nat \subseteq S
    BY <1>1, <1>2, Induction
  <1> QED
    BY <1>3 DEF S

-----------------------------------------------------------------------------
(* Bits *)

\* Dividing twice is dividing by the product.
LEMMA DivTwice ==
  ASSUME NEW a \in Nat, NEW b \in Nat \ {0}, NEW c \in Nat \ {0}
  PROVE  (a \div b) \div c = a \div (b * c)
  OBVIOUS

\* The lowest bit is the parity, and the others are those of the half.
LEMMA BitShift ==
  ASSUME NEW a \in Nat
  PROVE  /\ Bit(a, 0) = a % 2
         /\ \A n \in Nat : Bit(a, n + 1) = Bit(a \div 2, n)
  <1>1. Bit(a, 0) = a % 2
    BY Pow2Zero DEF Bit
  <1>2. ASSUME NEW n \in Nat PROVE Bit(a, n + 1) = Bit(a \div 2, n)
    <2>1. Pow2[n] \in Nat \ {0} /\ Pow2[n + 1] = 2 * Pow2[n]
      BY Pow2Positive, Pow2Next
    <2>2. (a \div 2) \div Pow2[n] = a \div (2 * Pow2[n])
      BY <2>1, DivTwice
    <2> QED
      BY <2>1, <2>2 DEF Bit
  <1> QED
    BY <1>1, <1>2

LEMMA BitType ==
  ASSUME NEW a \in Nat, NEW n \in Nat
  PROVE  Bit(a, n) \in {0, 1}
  <1>1. Pow2[n] \in Nat \ {0}
    BY Pow2Positive
  <1>2. a \div Pow2[n] \in Nat
    BY <1>1
  <1> QED
    BY <1>2 DEF Bit

\* There is a number of w bits for any w bits.
LEMMA NumberOfBits ==
  \A w \in Nat : \A f \in [Nat -> {0, 1}] :
    \E c \in 0 .. Pow2[w] - 1 : \A n \in 0 .. w - 1 : Bit(c, n) = f[n]
  <1> DEFINE Exists(w, f) == \E c \in 0 .. Pow2[w] - 1 : \A n \in 0 .. w - 1 : Bit(c, n) = f[n]
             S == {w \in Nat : \A f \in [Nat -> {0, 1}] : Exists(w, f)}
  <1>1. 0 \in S
    <2>1. 0 \in 0 .. Pow2[0] - 1 /\ 0 .. 0 - 1 = {}
      BY Pow2Zero
    <2> QED
      BY <2>1
  <1>2. ASSUME NEW w \in Nat, w \in S PROVE w + 1 \in S
    <2> SUFFICES ASSUME NEW f \in [Nat -> {0, 1}] PROVE Exists(w + 1, f)
      OBVIOUS
    <2> DEFINE g == [n \in Nat |-> f[n + 1]]
    <2>1. g \in [Nat -> {0, 1}]
      OBVIOUS
    <2>2. Exists(w, g)
      BY <1>2, <2>1
    <2>3. PICK c \in 0 .. Pow2[w] - 1 : \A n \in 0 .. w - 1 : Bit(c, n) = g[n]
      BY <2>2
    <2> DEFINE d == 2 * c + f[0]
    <2>4. Pow2[w] \in Nat \ {0} /\ Pow2[w + 1] = 2 * Pow2[w] /\ f[0] \in {0, 1}
      BY Pow2Positive, Pow2Next
    <2>5. c \in Nat /\ d \in Nat /\ d \in 0 .. Pow2[w + 1] - 1 /\ d % 2 = f[0] /\ d \div 2 = c
      BY <2>3, <2>4
    <2>6. ASSUME NEW n \in 0 .. w PROVE Bit(d, n) = f[n]
      <3> HIDE DEF d
      <3>1. CASE n = 0
        BY <3>1, <2>5, BitShift
      <3>2. CASE n # 0
        <4>1. n - 1 \in 0 .. w - 1 /\ n - 1 \in Nat /\ (n - 1) + 1 = n
          BY <3>2
        <4>2. Bit(d, (n - 1) + 1) = Bit(c, n - 1)
          BY <4>1, <2>5, BitShift
        <4>3. Bit(c, n - 1) = f[(n - 1) + 1]
          BY <4>1, <2>3
        <4> QED
          BY <4>1, <4>2, <4>3
      <3> QED
        BY <3>1, <3>2
    <2>7. 0 .. (w + 1) - 1 = 0 .. w
      OBVIOUS
    <2> HIDE DEF d
    <2> QED
      BY <2>5, <2>6, <2>7
  <1>3. Nat \subseteq S
    <2> HIDE DEF S
    <2> QED
      BY <1>1, <1>2, Induction
  <1> QED
    BY <1>3

\* The complement of s under an odd maximum 2 * p - 1, and its half.
LEMMA HalfComplement ==
  ASSUME NEW p \in Nat \ {0}, NEW s \in 0 .. 2 * p - 1
  PROVE  /\ s \div 2 \in 0 .. p - 1
         /\ 2 * p - 1 - s \in Nat
         /\ (2 * p - 1 - s) \div 2 = p - 1 - s \div 2
         /\ (2 * p - 1 - s) % 2 = 1 - (s % 2)
  <1> DEFINE h == s \div 2
             b == s % 2
  <1>1. h \in Nat /\ b \in {0, 1} /\ s = 2 * h + b
    OBVIOUS
  <1> HIDE DEF h, b
  <1>2. 2 * p - 1 - s = 2 * (p - 1 - h) + (1 - b) /\ p - 1 - h \in Nat /\ 1 - b \in {0, 1}
    BY <1>1
  <1>3. (2 * (p - 1 - h) + (1 - b)) \div 2 = p - 1 - h /\ (2 * (p - 1 - h) + (1 - b)) % 2 = 1 - b
    BY <1>2
  <1> QED
    BY <1>1, <1>2, <1>3 DEF h, b

\* Complementing a number of w bits flips each of them.
LEMMA ComplementFlips ==
  \A w \in Nat : \A s \in 0 .. Pow2[w] - 1 :
    \A n \in 0 .. w - 1 : Bit(Pow2[w] - 1 - s, n) = 1 - Bit(s, n)
  <1> DEFINE Flips(w, s) == \A n \in 0 .. w - 1 : Bit(Pow2[w] - 1 - s, n) = 1 - Bit(s, n)
             S == {w \in Nat : \A s \in 0 .. Pow2[w] - 1 : Flips(w, s)}
  <1>1. 0 \in S
    <2>1. 0 .. 0 - 1 = {}
      OBVIOUS
    <2> QED
      BY <2>1
  <1>2. ASSUME NEW w \in Nat, w \in S PROVE w + 1 \in S
    <2> SUFFICES ASSUME NEW s \in 0 .. Pow2[w + 1] - 1, NEW n \in 0 .. (w + 1) - 1
                 PROVE  Bit(Pow2[w + 1] - 1 - s, n) = 1 - Bit(s, n)
      OBVIOUS
    <2> DEFINE h == s \div 2
               c == Pow2[w] - 1 - h
               d == Pow2[w + 1] - 1 - s
    <2>1. Pow2[w] \in Nat \ {0} /\ Pow2[w + 1] = 2 * Pow2[w]
      BY Pow2Positive, Pow2Next
    <2>2. s \in Nat /\ d \in Nat /\ h \in 0 .. Pow2[w] - 1 /\ d \div 2 = c /\ d % 2 = 1 - (s % 2)
      BY <2>1, HalfComplement
    <2>3. Flips(w, h)
      BY <2>2, <1>2
    <2> HIDE DEF d, h
    <2>4. CASE n = 0
      <3>1. Bit(d, 0) = d % 2 /\ Bit(s, 0) = s % 2
        BY <2>2, BitShift
      <3> QED
        BY <3>1, <2>4, <2>2 DEF d
    <2>5. CASE n # 0
      <3>1. n - 1 \in 0 .. w - 1 /\ n - 1 \in Nat /\ (n - 1) + 1 = n
        BY <2>5
      <3>2. Bit(d, (n - 1) + 1) = Bit(c, n - 1)
        BY <3>1, <2>2, BitShift
      <3>3. Bit(s, (n - 1) + 1) = Bit(h, n - 1)
        BY <3>1, <2>2, BitShift DEF h
      <3>4. Bit(c, n - 1) = 1 - Bit(h, n - 1)
        BY <3>1, <2>3
      <3> QED
        BY <3>1, <3>2, <3>3, <3>4 DEF d
    <2> QED
      BY <2>4, <2>5
  <1>3. Nat \subseteq S
    <2> HIDE DEF S
    <2> QED
      BY <1>1, <1>2, Induction
  <1> QED
    BY <1>3

-----------------------------------------------------------------------------
(* The operators on bytes *)

\* The byte with given bits exists and has them.
LEMMA ByteOfBits ==
  ASSUME NEW f \in [0 .. ByteBits - 1 -> {0, 1}]
  PROVE  ByteOf(f) \in 0 .. ByteMax /\ \A n \in 0 .. ByteBits - 1 : Bit(ByteOf(f), n) = f[n]
  <1> DEFINE g == [n \in Nat |-> IF n \in 0 .. ByteBits - 1 THEN f[n] ELSE 0]
  <1>1. g \in [Nat -> {0, 1}] /\ ByteBits \in Nat
    BY BytesAssumption
  <1>2. PICK c \in 0 .. Pow2[ByteBits] - 1 : \A n \in 0 .. ByteBits - 1 : Bit(c, n) = g[n]
    <2> HIDE DEF g
    <2> QED
      BY <1>1, NumberOfBits
  <1>3. \A n \in 0 .. ByteBits - 1 : g[n] = f[n]
    BY <1>1
  <1>4. \E d \in 0 .. ByteMax : \A n \in 0 .. ByteBits - 1 : Bit(d, n) = f[n]
    BY <1>2, <1>3 DEF ByteMax
  <1> QED
    BY <1>4 DEF ByteOf

LEMMA ByteIsNat ==
  ASSUME NEW a \in 0 .. ByteMax
  PROVE  a \in Nat /\ \A n \in 0 .. ByteBits - 1 : Bit(a, n) \in {0, 1}
  <1>1. a \in Nat /\ ByteBits \in Nat
    BY BytesAssumption, Pow2Positive DEF ByteMax
  <1> QED
    BY <1>1, BitType

\* The operators work on every bit by itself.
LEMMA AndBits ==
  ASSUME NEW a \in 0 .. ByteMax, NEW b \in 0 .. ByteMax
  PROVE  /\ BitAnd(a, b) \in 0 .. ByteMax
         /\ \A n \in 0 .. ByteBits - 1 : Bit(BitAnd(a, b), n) = Bit(a, n) * Bit(b, n)
  <1> DEFINE f == [n \in 0 .. ByteBits - 1 |-> Bit(a, n) * Bit(b, n)]
  <1>1. f \in [0 .. ByteBits - 1 -> {0, 1}]
    <2>1. ASSUME NEW n \in 0 .. ByteBits - 1 PROVE Bit(a, n) * Bit(b, n) \in {0, 1}
      <3>1. Bit(a, n) \in {0, 1} /\ Bit(b, n) \in {0, 1}
        BY ByteIsNat
      <3> QED
        BY <3>1
    <2> QED
      BY <2>1
  <1>2. \A n \in 0 .. ByteBits - 1 : f[n] = Bit(a, n) * Bit(b, n)
    OBVIOUS
  <1>3. BitAnd(a, b) = ByteOf(f)
    BY DEF BitAnd
  <1> HIDE DEF f
  <1> QED
    BY <1>1, <1>2, <1>3, ByteOfBits

LEMMA OrBits ==
  ASSUME NEW a \in 0 .. ByteMax, NEW b \in 0 .. ByteMax
  PROVE  /\ BitOr(a, b) \in 0 .. ByteMax
         /\ \A n \in 0 .. ByteBits - 1 :
              Bit(BitOr(a, b), n) = IF Bit(a, n) = 1 THEN 1 ELSE Bit(b, n)
  <1> DEFINE f == [n \in 0 .. ByteBits - 1 |-> IF Bit(a, n) = 1 THEN 1 ELSE Bit(b, n)]
  <1>1. f \in [0 .. ByteBits - 1 -> {0, 1}]
    BY ByteIsNat
  <1>2. \A n \in 0 .. ByteBits - 1 : f[n] = IF Bit(a, n) = 1 THEN 1 ELSE Bit(b, n)
    OBVIOUS
  <1>3. BitOr(a, b) = ByteOf(f)
    BY DEF BitOr
  <1> HIDE DEF f
  <1> QED
    BY <1>1, <1>2, <1>3, ByteOfBits

LEMMA ComplementBits ==
  ASSUME NEW a \in 0 .. ByteMax
  PROVE  /\ Complement(a) \in 0 .. ByteMax
         /\ \A n \in 0 .. ByteBits - 1 : Bit(Complement(a), n) = 1 - Bit(a, n)
  <1>1. ByteBits \in Nat /\ Pow2[ByteBits] \in Nat \ {0}
    BY BytesAssumption, Pow2Positive
  <1>2. \A n \in 0 .. ByteBits - 1 : Bit(Pow2[ByteBits] - 1 - a, n) = 1 - Bit(a, n)
    BY <1>1, ComplementFlips DEF ByteMax
  <1> QED
    BY <1>1, <1>2 DEF Complement, ByteMax

\* combine_dna takes each bit from the parent that the selector's bit names.
LEMMA CombineByteBits ==
  ASSUME NEW d1 \in 0 .. ByteMax, NEW d2 \in 0 .. ByteMax, NEW s \in 0 .. ByteMax
  PROVE  /\ CombineByte(d1, d2, s) \in 0 .. ByteMax
         /\ \A n \in 0 .. ByteBits - 1 :
              Bit(CombineByte(d1, d2, s), n) = IF Bit(s, n) = 1 THEN Bit(d2, n) ELSE Bit(d1, n)
  <1> DEFINE c == Complement(s)
             x == BitAnd(c, d1)
             y == BitAnd(s, d2)
  <1>1. /\ c \in 0 .. ByteMax
        /\ \A n \in 0 .. ByteBits - 1 : Bit(c, n) = 1 - Bit(s, n)
    BY ComplementBits
  <1> HIDE DEF c
  <1>2. /\ x \in 0 .. ByteMax
        /\ \A n \in 0 .. ByteBits - 1 : Bit(x, n) = Bit(c, n) * Bit(d1, n)
    BY <1>1, AndBits
  <1>3. /\ y \in 0 .. ByteMax
        /\ \A n \in 0 .. ByteBits - 1 : Bit(y, n) = Bit(s, n) * Bit(d2, n)
    BY AndBits
  <1>4. CombineByte(d1, d2, s) = BitOr(x, y)
    BY DEF CombineByte, c
  <1> HIDE DEF x, y
  <1>5. ASSUME NEW n \in 0 .. ByteBits - 1
        PROVE  Bit(BitOr(x, y), n) = IF Bit(s, n) = 1 THEN Bit(d2, n) ELSE Bit(d1, n)
    <2>1. Bit(s, n) \in {0, 1} /\ Bit(d1, n) \in {0, 1} /\ Bit(d2, n) \in {0, 1}
      BY ByteIsNat
    <2>2. Bit(BitOr(x, y), n) = IF Bit(x, n) = 1 THEN 1 ELSE Bit(y, n)
      BY <1>2, <1>3, OrBits
    <2>3. Bit(x, n) = (1 - Bit(s, n)) * Bit(d1, n) /\ Bit(y, n) = Bit(s, n) * Bit(d2, n)
      BY <1>1, <1>2, <1>3
    <2> QED
      BY <2>1, <2>2, <2>3
  <1> QED
    BY <1>2, <1>3, <1>4, <1>5, OrBits

-----------------------------------------------------------------------------
(* The loop *)

\* The bytes before i are those of the kitten.
BInv ==
  /\ kitty1 \in Bytes /\ kitty2 \in Bytes /\ selector \in Bytes
  /\ GenderOfBytes(kitty1) # GenderOfBytes(kitty2)
  /\ i \in 0 .. Length
  /\ new_dna \in Bytes
  /\ \A n \in 0 .. i - 1 : new_dna[n] = CombineByte(kitty1[n], kitty2[n], selector[n])

LEMMA BytesSafety == BSpec => []BInv
  <1>1. BInit => BInv
    <2>1. 0 \in 0 .. ByteMax
      BY BytesAssumption, Pow2Positive DEF ByteMax
    <2> QED
      BY <2>1, BytesAssumption DEF BInit, BInv, Bytes
  <1>2. ASSUME BInv, Combine PROVE BInv'
    <2> DEFINE c == CombineByte(kitty1[i], kitty2[i], selector[i])
    <2>1. Length \in Nat /\ i \in 0 .. Length - 1 /\ i' = i + 1 /\ i + 1 \in 0 .. Length
      BY <1>2, BytesAssumption DEF BInv, Combine
    <2>2. c \in 0 .. ByteMax
      <3>1. kitty1[i] \in 0 .. ByteMax /\ kitty2[i] \in 0 .. ByteMax /\ selector[i] \in 0 .. ByteMax
        BY <1>2, <2>1 DEF BInv, Bytes
      <3> QED
        BY <3>1, CombineByteBits
    <2>3. new_dna' = [new_dna EXCEPT ![i] = c] /\ UNCHANGED <<kitty1, kitty2, selector>>
      BY <1>2 DEF Combine
    <2>4. c = CombineByte(kitty1[i], kitty2[i], selector[i])
      OBVIOUS
    <2> HIDE DEF c
    <2>5. new_dna' \in Bytes /\ new_dna'[i] = c /\ \A n \in 0 .. i - 1 : new_dna'[n] = new_dna[n]
      BY <1>2, <2>1, <2>2, <2>3 DEF BInv, Bytes
    <2>6. ASSUME NEW n \in 0 .. (i + 1) - 1
          PROVE  new_dna'[n] = CombineByte(kitty1[n], kitty2[n], selector[n])
      <3>1. n = i \/ n \in 0 .. i - 1
        BY <2>1
      <3> QED
        BY <3>1, <1>2, <2>4, <2>5 DEF BInv
    <2>7. \A n \in 0 .. i' - 1 : new_dna'[n] = CombineByte(kitty1[n], kitty2[n], selector[n])
      BY <2>1, <2>6
    <2>8. (\A n \in 0 .. i - 1 : new_dna[n] = CombineByte(kitty1[n], kitty2[n], selector[n]))'
      BY <2>3, <2>7
    <2>9. (GenderOfBytes(kitty1) # GenderOfBytes(kitty2))'
      BY <1>2, <2>3 DEF BInv, GenderOfBytes
    <2> QED
      BY <1>2, <2>1, <2>3, <2>5, <2>8, <2>9 DEF BInv, Bytes
  <1>3. BInv /\ UNCHANGED bytesVars => BInv'
    BY DEF BInv, bytesVars, Bytes, GenderOfBytes
  <1> QED
    BY <1>1, <1>2, <1>3, PTL DEF BSpec

\* The bits of a byte sequence, as Booleans.
LEMMA ToBitsAt ==
  ASSUME NEW b \in Bytes, NEW n \in Bits
  PROVE  /\ n \in Nat
         /\ n \div ByteBits \in 0 .. Length - 1
         /\ n % ByteBits \in 0 .. ByteBits - 1
         /\ b[n \div ByteBits] \in 0 .. ByteMax
         /\ ToBits(b)[n] = (Bit(b[n \div ByteBits], n % ByteBits) = 1)
  <1>1. Length \in Nat \ {0} /\ ByteBits \in Nat \ {0} /\ DnaBits = Length * ByteBits /\ n \in Nat
    BY BytesAssumption, DnaBitsAssumption DEF Bits
  <1>2. n < Length * ByteBits
    BY <1>1 DEF Bits
  <1>3. n \div ByteBits \in Nat /\ ByteBits * (n \div ByteBits) <= n
    BY <1>1
  <1>4. n \div ByteBits < Length
    BY <1>1, <1>2, <1>3
  <1>5. n % ByteBits \in 0 .. ByteBits - 1
    BY <1>1
  <1>6. n \div ByteBits \in 0 .. Length - 1
    BY <1>1, <1>3, <1>4
  <1> QED
    BY <1>1, <1>5, <1>6 DEF Bytes, ToBits

\* The kitten of the finished loop, bit by bit.
LEMMA KittenBits ==
  ASSUME BInv, i = Length, NEW n \in Bits
  PROVE  ToBits(new_dna)[n] = IF ToBits(selector)[n] THEN ToBits(kitty2)[n] ELSE ToBits(kitty1)[n]
  <1> DEFINE q == n \div ByteBits
             r == n % ByteBits
  <1>1. q \in 0 .. Length - 1 /\ r \in 0 .. ByteBits - 1
    BY ToBitsAt DEF BInv
  <1>2. /\ kitty1[q] \in 0 .. ByteMax
        /\ kitty2[q] \in 0 .. ByteMax
        /\ selector[q] \in 0 .. ByteMax
    BY ToBitsAt DEF BInv
  <1>3. /\ ToBits(new_dna)[n] = (Bit(new_dna[q], r) = 1)
        /\ ToBits(selector)[n] = (Bit(selector[q], r) = 1)
        /\ ToBits(kitty1)[n] = (Bit(kitty1[q], r) = 1)
        /\ ToBits(kitty2)[n] = (Bit(kitty2[q], r) = 1)
    BY ToBitsAt DEF BInv
  <1> HIDE DEF q, r
  <1>4. new_dna[q] = CombineByte(kitty1[q], kitty2[q], selector[q])
    BY <1>1 DEF BInv
  <1>5. Bit(new_dna[q], r)
          = IF Bit(selector[q], r) = 1 THEN Bit(kitty2[q], r) ELSE Bit(kitty1[q], r)
    <2>1. \A m \in 0 .. ByteBits - 1 :
            Bit(CombineByte(kitty1[q], kitty2[q], selector[q]), m)
              = IF Bit(selector[q], m) = 1 THEN Bit(kitty2[q], m) ELSE Bit(kitty1[q], m)
      BY <1>2, CombineByteBits
    <2> QED
      BY <2>1, <1>1, <1>4, Zenon
  <1>6. CASE Bit(selector[q], r) = 1
    <2>1. Bit(new_dna[q], r) = Bit(kitty2[q], r)
      BY <1>5, <1>6
    <2> QED
      BY <1>3, <1>6, <2>1, Zenon
  <1>7. CASE Bit(selector[q], r) # 1
    <2>1. Bit(new_dna[q], r) = Bit(kitty1[q], r)
      BY <1>5, <1>7
    <2> QED
      BY <1>3, <1>7, <2>1, Zenon
  <1> QED
    BY <1>6, <1>7

LEMMA Parity ==
  ASSUME NEW a \in Nat
  PROVE  a % 2 \in {0, 1}
  OBVIOUS

\* The lowest bit of the DNA is the parity of its first byte, so gender is the same
\* of bytes and of bits.
LEMMA GenderBit ==
  ASSUME NEW b \in Bytes
  PROVE  /\ 0 \in Bits
         /\ b[0] % 2 \in {0, 1}
         /\ ToBits(b)[0] = (b[0] % 2 = 1)
         /\ Gender(ToBits(b)) = GenderOfBytes(b)
  <1>1. ByteBits \in Nat \ {0} /\ Length \in Nat \ {0} /\ 0 \in Bits
    BY BytesAssumption, DnaBitsAssumption DEF Bits
  <1>2. 0 \div ByteBits = 0 /\ 0 % ByteBits = 0
    BY <1>1
  <1>3. b[0] \in Nat
    BY <1>1, <1>2, ToBitsAt, ByteIsNat
  <1>4. ToBits(b)[0] = (Bit(b[0], 0) = 1)
    BY <1>1, <1>2, ToBitsAt
  <1>5. Bit(b[0], 0) = b[0] % 2
    BY <1>3, BitShift
  <1>6. b[0] % 2 \in {0, 1}
    BY <1>3, Parity
  <1>7. ToBits(b)[0] = (b[0] % 2 = 1)
    BY <1>4, <1>5, Zenon
  <1>8. CASE b[0] % 2 = 0
    <2>1. b[0] % 2 # 1
      BY <1>8
    <2>2. ~ToBits(b)[0]
      BY <1>7, <2>1, Zenon
    <2>3. Gender(ToBits(b)) = "Male"
      BY <2>2, Zenon DEF Gender
    <2> QED
      BY <1>1, <1>6, <1>7, <1>8, <2>3, Zenon DEF GenderOfBytes
  <1>9. CASE b[0] % 2 = 1
    <2>1. b[0] % 2 # 0
      BY <1>9
    <2>2. ToBits(b)[0] /\ b[0] % 2 # 0
      BY <1>7, <1>9, <2>1, Zenon
    <2>3. Gender(ToBits(b)) = "Female"
      BY <2>2, Zenon DEF Gender
    <2> QED
      BY <1>1, <1>6, <1>7, <2>2, <2>3, Zenon DEF GenderOfBytes
  <1> QED
    BY <1>6, <1>8, <1>9

\* The loop of do_breed, with &, | and ! on bytes, gives the kitten that the
\* definition on bits gives, for every length of the DNA and every width of a byte.
THEOREM BytesInherit == BSpec => []BytesCombineBits
  <1>1. BInv => BytesCombineBits
    <2> SUFFICES ASSUME BInv, i = Length
                 PROVE  ToBits(new_dna) = CombineDna(ToBits(kitty1), ToBits(kitty2), ToBits(selector))
      BY DEF BytesCombineBits
    <2>1. ASSUME NEW n \in Bits
          PROVE  ToBits(new_dna)[n]
                   = CombineDna(ToBits(kitty1), ToBits(kitty2), ToBits(selector))[n]
      <3> DEFINE s == ToBits(selector)[n]
                 x == ToBits(kitty1)[n]
                 y == ToBits(kitty2)[n]
      <3>1. s \in BOOLEAN /\ x \in BOOLEAN /\ y \in BOOLEAN
        BY ToBitsAt DEF BInv
      <3>2. ToBits(new_dna)[n] = IF s THEN y ELSE x
        BY KittenBits
      <3>3. CombineDna(ToBits(kitty1), ToBits(kitty2), ToBits(selector))[n] = ((~s /\ x) \/ (s /\ y))
        BY DEF CombineDna
      <3> HIDE DEF s, x, y
      <3> QED
        BY <3>1, <3>2, <3>3
    <2>2. /\ ToBits(new_dna) = [n \in Bits |-> ToBits(new_dna)[n]]
          /\ CombineDna(ToBits(kitty1), ToBits(kitty2), ToBits(selector))
               = [n \in Bits |-> CombineDna(ToBits(kitty1), ToBits(kitty2), ToBits(selector))[n]]
      BY DEF ToBits, CombineDna
    <2> QED
      BY <2>1, <2>2
  <1> QED
    BY <1>1, BytesSafety, PTL

\* The gender of the kitten is that of the parent the lowest bit of the selector
\* names, and gender reads the bit that combine_dna wrote.
THEOREM GenderIsInherited == BSpec => []GenderFollowsSelector
  <1>1. BInv => GenderFollowsSelector
    <2> SUFFICES ASSUME BInv, i = Length
                 PROVE  /\ Gender(ToBits(kitty1)) # Gender(ToBits(kitty2))
                        /\ Gender(ToBits(new_dna))
                             = IF selector[0] % 2 = 0 THEN GenderOfBytes(kitty1)
                               ELSE GenderOfBytes(kitty2)
      BY DEF GenderFollowsSelector
    <2>1. /\ 0 \in Bits
          /\ selector[0] % 2 \in {0, 1}
          /\ ToBits(selector)[0] = (selector[0] % 2 = 1)
          /\ Gender(ToBits(kitty1)) = GenderOfBytes(kitty1)
          /\ Gender(ToBits(kitty2)) = GenderOfBytes(kitty2)
      BY GenderBit DEF BInv
    <2>2. ToBits(new_dna)[0]
            = IF ToBits(selector)[0] THEN ToBits(kitty2)[0] ELSE ToBits(kitty1)[0]
      BY <2>1, KittenBits
    <2>3. CASE selector[0] % 2 = 0
      <3>1. selector[0] % 2 # 1
        BY <2>3
      <3>2. ToBits(new_dna)[0] = ToBits(kitty1)[0]
        BY <2>1, <2>2, <3>1, Zenon
      <3>3. Gender(ToBits(new_dna)) = GenderOfBytes(kitty1)
        BY <2>1, <3>2 DEF Gender
      <3> QED
        BY <2>1, <2>3, <3>3 DEF BInv
    <2>4. CASE selector[0] % 2 = 1
      <3>1. selector[0] % 2 # 0
        BY <2>4
      <3>2. ToBits(new_dna)[0] = ToBits(kitty2)[0]
        BY <2>1, <2>2, <2>4, Zenon
      <3>3. Gender(ToBits(new_dna)) = GenderOfBytes(kitty2)
        BY <2>1, <3>2 DEF Gender
      <3> QED
        BY <2>1, <3>1, <3>3 DEF BInv
    <2> QED
      BY <2>1, <2>3, <2>4
  <1> QED
    BY <1>1, BytesSafety, PTL

=============================================================================
