----------------------------- MODULE ChainSpec ------------------------------
(***************************************************************************)
(* The chains a node can be started on, node/src/chain_spec.rs and         *)
(* load_spec of node/src/command.rs.  A key derived from a seed            *)
(* (get_from_seed) is the seed; the WASM blob is left out.                 *)
(***************************************************************************)
EXTENDS Naturals, Sequences

CONSTANTS
  Endowment,  \* 1 << 60, the balance of a pre-funded account
  SpecFiles   \* path -> specification, the readable JSON files

\* What testnet_genesis writes to storage.
TestnetGenesis(authorities, rootKey, endowed) ==
  [balances |-> [k \in endowed |-> Endowment],
   aura     |-> authorities,
   grandpa  |-> [i \in DOMAIN authorities |-> [id |-> authorities[i], weight |-> 1]],
   sudo     |-> rootKey]

\* development_config.
DevelopmentConfig ==
  [id      |-> "dev",
   genesis |-> TestnetGenesis(<<"Alice">>, "Alice",
                              {"Alice", "Bob", "Alice//stash", "Bob//stash"})]

\* local_testnet_config.
LocalTestnetConfig ==
  [id      |-> "local_testnet",
   genesis |-> TestnetGenesis(<<"Alice", "Bob">>, "Alice",
                 {"Alice", "Bob", "Charlie", "Dave", "Eve", "Ferdie",
                  "Alice//stash", "Bob//stash", "Charlie//stash", "Dave//stash",
                  "Eve//stash", "Ferdie//stash"})]

\* load_spec finds a specification for this --chain argument.
SpecLoads(id) == id \in {"dev", "", "local"} \cup DOMAIN SpecFiles

\* load_spec: two built-in chains, any other argument is the path of a file.
LoadSpec(id) ==
  CASE id = "dev"             -> DevelopmentConfig
    [] id \in {"", "local"}   -> LocalTestnetConfig
    [] id \in DOMAIN SpecFiles -> SpecFiles[id]

=============================================================================
