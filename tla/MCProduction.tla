---------------------------- MODULE MCProduction ----------------------------
(***************************************************************************)
(* Instances of block production for TLC, on the local testnet.            *)
(***************************************************************************)
EXTENDS Production, ChainSpec

MCAuthorities == LoadSpec("local").genesis.aura

\* There are no specification files.
MCSpecFiles == [f \in {} |-> DevelopmentConfig]

=============================================================================
