------------------------------ MODULE KittyDna ------------------------------
(***************************************************************************)
(* DNA as the rest of the project sees it: bits.  Module KittyBytes shows  *)
(* that this is what the pallet's arithmetic on bytes amounts to.          *)
(***************************************************************************)
EXTENDS Naturals

CONSTANT DnaBits   \* number of bits of a Kitty, 128 in the code

ASSUME DnaBitsAssumption == DnaBits \in Nat \ {0}

Bits == 0 .. DnaBits - 1
Dna  == [Bits -> BOOLEAN]

\* Kitty::gender: the parity of byte 0, that is the lowest bit of the DNA.
Gender(dna) == IF dna[0] THEN "Female" ELSE "Male"

\* Fault: the complement is taken of the wrong operand.
CombineDnaMisplaced(dna1, dna2, selector) ==
  [i \in Bits |-> (selector[i] /\ ~dna1[i]) \/ (selector[i] /\ dna2[i])]

\* combine_dna on every byte: a bit of dna2 where the selector is set, and
\* of dna1 where it is not.
CombineDna(dna1, dna2, selector) ==
  [i \in Bits |-> (~selector[i] /\ dna1[i]) \/ (selector[i] /\ dna2[i])]

=============================================================================
