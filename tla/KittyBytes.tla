----------------------------- MODULE KittyBytes -----------------------------
(***************************************************************************)
(* The loop of do_breed on the bytes of the DNA, with the machine          *)
(* arithmetic of combine_dna and gender.                                   *)
(***************************************************************************)
EXTENDS KittyDna

CONSTANTS
  Length,    \* bytes of a Kitty, 16 in the code
  ByteBits   \* bits of a byte, 8 in the code

ASSUME BytesAssumption ==
  /\ Length \in Nat \ {0}
  /\ ByteBits \in Nat \ {0}
  /\ DnaBits = Length * ByteBits

Pow2[n \in Nat] == IF n = 0 THEN 1 ELSE 2 * Pow2[n - 1]

ByteMax == Pow2[ByteBits] - 1
Bytes   == [0 .. Length - 1 -> 0 .. ByteMax]

\* Bit n of b, 0 or 1; bit 0 is the lowest.
Bit(b, n) == (b \div Pow2[n]) % 2

\* The byte with the bits f.
ByteOf(f) == CHOOSE c \in 0 .. ByteMax : \A n \in 0 .. ByteBits - 1 : Bit(c, n) = f[n]

\* The operators &, | and ! of u8.
BitAnd(a, b) == ByteOf([n \in 0 .. ByteBits - 1 |-> Bit(a, n) * Bit(b, n)])
BitOr(a, b) ==
  ByteOf([n \in 0 .. ByteBits - 1 |-> IF Bit(a, n) = 1 THEN 1 ELSE Bit(b, n)])
Complement(a) == ByteMax - a

VARIABLES
  kitty1,    \* kitty1_dna
  kitty2,    \* kitty2_dna
  selector,  \* selector
  new_dna,   \* new_dna
  i          \* loop counter

bytesVars == <<kitty1, kitty2, selector, new_dna, i>>

-----------------------------------------------------------------------------

\* Fault: the negation binds to the wrong operand.
CombineByteMisplaced(d1, d2, s) == BitOr(BitAnd(s, Complement(d1)), BitAnd(s, d2))

\* combine_dna.
CombineByte(d1, d2, s) == BitOr(BitAnd(Complement(s), d1), BitAnd(s, d2))

\* Fault: the gender is taken from the last byte.
GenderOfBytesLast(b) == IF b[Length - 1] % 2 = 0 THEN "Male" ELSE "Female"

\* Kitty::gender.
GenderOfBytes(b) == IF b[0] % 2 = 0 THEN "Male" ELSE "Female"

BInit ==
  /\ kitty1 \in Bytes
  /\ kitty2 \in Bytes
  /\ GenderOfBytes(kitty1) # GenderOfBytes(kitty2)
  /\ selector \in Bytes
  /\ new_dna = [n \in 0 .. Length - 1 |-> 0]
  /\ i = 0

\* One round of the loop.
Combine ==
  /\ i < Length
  /\ new_dna' = [new_dna EXCEPT ![i] = CombineByte(kitty1[i], kitty2[i], selector[i])]
  /\ i' = i + 1
  /\ UNCHANGED <<kitty1, kitty2, selector>>

BSpec == BInit /\ [][Combine]_bytesVars

-----------------------------------------------------------------------------

\* The bits of a DNA, lowest bit of byte 0 first.
ToBits(b) ==
  [n \in Bits |-> Bit(b[n \div ByteBits], n % ByteBits) = 1]

\* When the loop ends, the kitten is the one the bit-wise definition gives: no
\* bit comes from elsewhere than the parent the selector names, not even at the
\* edges of a byte.
BytesCombineBits ==
  i = Length => ToBits(new_dna) = CombineDna(ToBits(kitty1), ToBits(kitty2), ToBits(selector))

\* Parents that do_breed accepts differ in the lowest bit of the DNA, and the
\* kitten has the gender of the parent the lowest bit of the selector names.
GenderFollowsSelector ==
  i = Length =>
    /\ Gender(ToBits(kitty1)) # Gender(ToBits(kitty2))
    /\ Gender(ToBits(new_dna)) = IF selector[0] % 2 = 0 THEN GenderOfBytes(kitty1)
                                 ELSE GenderOfBytes(kitty2)

=============================================================================
