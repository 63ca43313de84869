------------------------------ MODULE MCWorker ------------------------------
(***************************************************************************)
(* Instances of the off-chain worker and the chain for TLC.                *)
(***************************************************************************)
EXTENDS OffchainWorker

CONSTANTS a, node1, w1, w2  \* an account, a node and its threads

\* DNA with DnaBits bits.
MCTokenData == [0 .. DnaBits - 1 -> BOOLEAN]

\* Money plays no part here.
MCInitialBalances == [x \in Accounts |-> 0]

\* A stand-in for blake2_128: every argument matters to the result.
MCHashOf(k1, k2, nonce, solution) == (k1 + 2 * k2 + 3 * nonce + 5 * solution) % 4

\* All threads belong to the one node.
MCNodeOf == [w \in Workers |-> node1]

\* No guard reads the receipt, so states that differ in it alone behave alike.
MCView == <<nftVars, balanceVars, kittyPrices, autoBreedNonce, workerVars>>

=============================================================================
