-------------------------- MODULE KittiesHistory ----------------------------
(***************************************************************************)
(* The kitties pallet watched from outside.  Two observers are added to    *)
(* the model, neither of which influences it:                              *)
(*                                                                         *)
(*   - an indexer or a wallet, which never reads the storage of the chain  *)
(*     and follows the events of pallets/kitties/src/lib.rs:110-121 alone; *)
(*   - a chronicler of the unsigned auto_breed extrinsics in the chain.    *)
(***************************************************************************)
EXTENDS Kitties, FiniteSets

VARIABLES
  indexTokens,  \* what the indexer believes of Tokens
  indexPrices,  \* what the indexer believes of KittyPrices
  listedBy,     \* kitty -> signer of the set_price that last listed it
  included,     \* auto_breed extrinsics in the chain: [k1, k2, nonce, solution]
  replayed      \* the nonces of those that are in it more than once

indexVars == <<indexTokens, indexPrices, listedBy>>
replayVars == <<included, replayed>>
historyVars == <<indexVars, replayVars>>

HInit ==
  /\ Init
  /\ indexTokens = [t \in {} |-> {}]
  /\ indexPrices = [t \in {} |-> 0]
  /\ listedBy = [t \in {} |-> RootOrigin]
  /\ included = {}
  /\ replayed = {}

\* The indexer applies an event to what it knows, by the documentation of the
\* events.
FollowTokens(e) ==
  indexTokens' =
    CASE e.name \in {"KittyCreated", "KittyBred"} ->
           Insert(indexTokens, e.id, [owner |-> e.owner, data |-> e.kitty])
      [] e.name \in {"KittyTransferred", "KittySold"} ->
           Insert(indexTokens, e.id, [indexTokens[e.id] EXCEPT !.owner = e.to])
      [] OTHER -> indexTokens

FollowPrices(e) ==
  indexPrices' =
    CASE e.name \in {"KittyTransferred", "KittySold"} -> Remove(indexPrices, e.id)
      [] e.name = "KittyPriceUpdated" ->
           IF e.price = NoPrice THEN Remove(indexPrices, e.id)
           ELSE Insert(indexPrices, e.id, e.price)
      [] OTHER -> indexPrices

FollowListings(e, origin) ==
  listedBy' = IF e.name # "KittyPriceUpdated" THEN listedBy
              ELSE IF e.price = NoPrice THEN Remove(listedBy, e.id)
              ELSE Insert(listedBy, e.id, origin)

Follow ==
  /\ FollowTokens(receipt'.event)
  /\ FollowPrices(receipt'.event)
  /\ FollowListings(receipt'.event, receipt'.origin)

\* A block carries one more auto_breed, successful or not.
HApplyAutoBreed(k1, k2, n, x, s) ==
  LET xt == [k1 |-> k1, k2 |-> k2, nonce |-> n, solution |-> x]
  IN  /\ ApplyAutoBreed(k1, k2, n, x, s)
      /\ included' = included \cup {xt}
      /\ replayed' = IF xt \in included THEN replayed \cup {n} ELSE replayed

HNext ==
  /\ \/ DispatchNext /\ UNCHANGED replayVars
     \/ \E k1, k2 \in TokenIds, n \in 0 .. MaxNonce, x \in Solutions, s \in RandomValue :
          HApplyAutoBreed(k1, k2, n, x, s)
  /\ Follow

HSpec == HInit /\ [][HNext]_<<vars, historyVars>>

-----------------------------------------------------------------------------
(* Properties *)

\* Events tell the whole story: owners, DNA and prices can be rebuilt from them
\* without reading storage.  In particular a transfer to oneself, which emits
\* nothing, leaves the price standing (transfer, lib.rs:181-185).
IndexerAgrees == indexTokens = tokens /\ indexPrices = kittyPrices

\* The price in force was set by the account that owns the kitty now, however
\* often the kitty has changed hands, or come back, since.
ListedByOwner ==
  \A t \in DOMAIN kittyPrices : t \in DOMAIN listedBy /\ listedBy[t] = tokens[t].owner

\* The nonce counts the unsigned extrinsics in the chain, the failed ones too,
\* and no two of them carry the same one, until the counter sticks at u32::MAX.
OneInclusionPerNonce ==
  /\ autoBreedNonce < MaxNonce => Cardinality(included) = autoBreedNonce
  /\ \A x, y \in included : x.nonce = y.nonce => x = y \/ x.nonce = MaxNonce
  /\ \A x \in included : x.nonce <= autoBreedNonce

\* A proof of work is used again only once the counter has stuck.
ReplaysOnlyAtSaturation == replayed \subseteq {MaxNonce}

\* "Nonce for auto breed to prevent replay attack" (lib.rs:86): no auto_breed
\* extrinsic is in the chain twice.
NoReplay == replayed = {}

=============================================================================
