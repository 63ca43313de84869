----------------------------- MODULE MCKitties ------------------------------
(***************************************************************************)
(* Instances of the kitties pallet for TLC.                                *)
(***************************************************************************)
EXTENDS Kitties, TLC

CONSTANTS a, b, c  \* accounts

\* DNA with DnaBits bits.
MCTokenData == [0 .. DnaBits - 1 -> BOOLEAN]

\* b can pay for a kitty; a and c start without an account.
MCInitialBalances == [x \in Accounts |-> IF x = b THEN 5 ELSE 0]

\* a and c start alike.
MCSymmetry == Permutations({a, c})

\* A stand-in for blake2_128: every argument matters to the result.
MCHashOf(k1, k2, nonce, solution) == (k1 + 2 * k2 + 3 * nonce + 5 * solution) % 4

=============================================================================
