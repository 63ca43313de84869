------------------------------ MODULE MCRuntime -----------------------------
(***************************************************************************)
(* Instances of the runtime for TLC, on the development chain.  Alice has  *)
(* the sudo key, Alice and Bob are endowed, Charlie starts without an      *)
(* account.                                                                *)
(***************************************************************************)
EXTENDS Runtime, ChainSpec

Genesis == LoadSpec("dev").genesis

MCInitialBalances ==
  [x \in Accounts |-> IF x \in DOMAIN Genesis.balances THEN Genesis.balances[x] ELSE 0]

MCSudoKey == Genesis.sudo

\* There are no specification files.
MCSpecFiles == [f \in {} |-> DevelopmentConfig]

\* DNA with DnaBits bits.
MCTokenData == [0 .. DnaBits - 1 -> BOOLEAN]

\* A stand-in for blake2_128: every argument matters to the result.
MCHashOf(k1, k2, nonce, solution) == (k1 + 2 * k2 + 3 * nonce + 5 * solution) % 4

create == [name |-> "create"]
breed == [name |-> "breed", k1 |-> 0, k2 |-> 0]
autoBreed(n) == [name |-> "auto_breed", k1 |-> 0, k2 |-> 1, nonce |-> n, solution |-> 0]
buy(m) == [name |-> "buy", owner |-> "Bob", id |-> 0, max_price |-> m]
pay(to, v, keepAlive) ==
  [name |-> "balances_transfer", to |-> to, value |-> v, keep_alive |-> keepAlive]

\* Trading a kitty, by accounts that can hardly pay the fee.
MCTradeCalls ==
  {create, buy(700), buy(100), pay("Charlie", 900, FALSE),
   [name |-> "set_price", id |-> 0, price |-> 600],
   [name |-> "transfer", to |-> "Charlie", id |-> 0], breed}

\* Accounts that are emptied and filled again, the sudo key used, abused and handed
\* on, and calls that are refused or fail.
MCSudoCalls ==
  {create, autoBreed(0), pay("Alice", 1500, FALSE), pay("Bob", 1500, FALSE),
   [name |-> "sudo", call |-> [name |-> "force_transfer", from |-> "Alice", to |-> "Bob",
                               value |-> 1500]],
   [name |-> "sudo", call |-> autoBreed(0)],
   [name |-> "sudo_as", who |-> "Bob", call |-> [name |-> "transfer", to |-> "Alice", id |-> 0]],
   [name |-> "set_key", new |-> "Bob"],
   [name |-> "do_something", something |-> 1], [name |-> "cause_error"]}

\* Kitties for automatic breeding.
MCCreateCalls == {create}

\* No guard reads the receipt, the work done or the extrinsics of the past; the
\* properties read the receipt only while an extrinsic is being applied.
MCView ==
  <<nftVars, balanceVars, kittyPrices, autoBreedNonce, something, accountNonce, sudoKey, height,
    blockWeight, executing, IF executing = NoXt THEN {} ELSE {receipt}>>

\* Of the extrinsics of the past, NonceCountsApplied reads how many there are and
\* which nonces they had.  An extrinsic is applied under a nonce that none of the
\* past ones had, so these determine the property in later states too.
MCNonceView ==
  <<MCView, {<<x.signer, x.nonce>> : x \in applied}, Cardinality(applied)>>

=============================================================================
