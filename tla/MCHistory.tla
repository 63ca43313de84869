----------------------------- MODULE MCHistory ------------------------------
(***************************************************************************)
(* Instances of the kitties pallet and its observers for TLC.              *)
(***************************************************************************)
EXTENDS KittiesHistory, TLC

CONSTANTS a, b  \* accounts

\* DNA with DnaBits bits.
MCTokenData == [0 .. DnaBits - 1 -> BOOLEAN]

\* b can pay for a kitty; a starts without an account.
MCInitialBalances == [x \in Accounts |-> IF x = b THEN 5 ELSE 0]

\* A stand-in for blake2_128: every argument matters to the result.
MCHashOf(k1, k2, nonce, solution) == (k1 + 2 * k2 + 3 * nonce + 5 * solution) % 4

\* The same with fewer proofs of work: two pairs have one at every nonce, (0, 1) among
\* those of the first.
MCRareHashOf(k1, k2, nonce, solution) == (6 + k1 + 2 * k2 + 3 * nonce + 5 * solution) % 8

\* No action and no invariant reads the receipt of the last extrinsic.
MCView ==
  <<nftVars, balanceVars, kittyPrices, autoBreedNonce, historyVars>>

=============================================================================
