--------------------------- MODULE HistoryProofs ----------------------------
(***************************************************************************)
(* What an observer of the chain can rely on: the events of the kitties    *)
(* pallet tell the whole story, and the nonce of auto_breed tells its      *)
(* extrinsics apart until it sticks.  Proved for every number of accounts, *)
(* kitties, prices, solutions and every width of the nonce.                *)
(***************************************************************************)
EXTENDS KittiesHistory, KittiesProofs, FiniteSetTheorems

-----------------------------------------------------------------------------
(* The inductive invariant *)

\* What the observers know, and what their knowledge is about.
IndexInv == IInv /\ IndexerAgrees /\ ListedByOwner

\* Until the counter sticks, every extrinsic in the chain carries a nonce that
\* is spent.
IncludedInv ==
  /\ IsFiniteSet(included)
  /\ OneInclusionPerNonce
  /\ \A x \in included : x.nonce \in 0 .. autoBreedNonce
  /\ \A x \in included : x.nonce < autoBreedNonce \/ autoBreedNonce = MaxNonce

HInv == IndexInv /\ IncludedInv /\ ReplaysOnlyAtSaturation

-----------------------------------------------------------------------------
(* What the indexer makes of an event *)

\* What the observers know agrees with storage.
Known == IndexerAgrees /\ ListedByOwner

\* Nothing happened, nothing was told.
LEMMA QuietStep ==
  ASSUME IndexInv, Follow, UNCHANGED <<tokens, kittyPrices>>, receipt'.event = NoEvent
  PROVE  Known'
  <1>1. UNCHANGED <<indexTokens, indexPrices, listedBy>>
    BY DEF Follow, FollowTokens, FollowPrices, FollowListings, NoEvent
  <1> QED
    BY <1>1 DEF Known, IndexInv, IndexerAgrees, ListedByOwner

\* A kitty is born and its event names owner, id and DNA.
LEMMA BirthStep ==
  ASSUME IndexInv, Follow, UNCHANGED kittyPrices,
         NEW o \in Accounts, NEW d \in TokenData, MintResult = Ok, Mint(o, d),
         NEW name \in {"KittyCreated", "KittyBred"},
         receipt'.event = KittyEvent(name, o, nextTokenId, d)
  PROVE  Known'
  <1>1. /\ receipt'.event.name = name
        /\ receipt'.event.owner = o
        /\ receipt'.event.id = nextTokenId
        /\ receipt'.event.kitty = d
    BY DEF KittyEvent
  <1>2. UNCHANGED <<indexPrices, listedBy>>
    BY <1>1 DEF Follow, FollowPrices, FollowListings
  <1>3. indexTokens' = Insert(indexTokens, nextTokenId, [owner |-> o, data |-> d])
    BY <1>1 DEF Follow, FollowTokens
  <1>4. IndexerAgrees'
    BY <1>2, <1>3 DEF IndexInv, IndexerAgrees, Mint
  <1>5. \A t \in DOMAIN tokens : tokens'[t] = tokens[t]
    BY MintAdds DEF IndexInv, IInv
  <1>6. DOMAIN kittyPrices \subseteq DOMAIN tokens
    BY DEF IndexInv, IInv, PriceInv, ListedKittiesExist
  <1>7. ListedByOwner'
    BY <1>2, <1>5, <1>6 DEF IndexInv, ListedByOwner
  <1> QED
    BY <1>4, <1>7 DEF Known

\* A kitty changes hands, leaves the market, and its event names the receiver.
LEMMA HandoverStep ==
  ASSUME IndexInv, Follow, NEW from, NEW to \in Accounts, NEW k,
         NftTransferResult(from, k) = Ok, NftTransfer(from, to, k),
         kittyPrices' = Remove(kittyPrices, k),
         receipt'.event.name \in {"KittyTransferred", "KittySold"},
         receipt'.event.id = k, receipt'.event.to = to
  PROVE  Known'
  <1>1. /\ indexTokens' = Insert(indexTokens, k, [indexTokens[k] EXCEPT !.owner = to])
        /\ indexPrices' = Remove(indexPrices, k)
        /\ listedBy' = listedBy
    BY DEF Follow, FollowTokens, FollowPrices, FollowListings
  <1>2. k \in DOMAIN tokens
    BY DEF NftTransferResult, Ok
  <1>3. tokens' = [tokens EXCEPT ![k] = [tokens[k] EXCEPT !.owner = to]]
    BY DEF NftTransfer
  <1>4. tokens \in [DOMAIN tokens -> TokenInfo]
    BY DEF IndexInv, IInv, NftInv
  <1>5. tokens' = Insert(tokens, k, [tokens[k] EXCEPT !.owner = to])
    BY <1>2, <1>3, <1>4 DEF Insert
  <1>6. IndexerAgrees'
    BY <1>1, <1>5 DEF IndexInv, IndexerAgrees
  <1>7. DOMAIN kittyPrices \subseteq DOMAIN tokens
    BY DEF IndexInv, IInv, PriceInv, ListedKittiesExist
  <1>8. \A t \in DOMAIN kittyPrices' : t # k /\ t \in DOMAIN kittyPrices /\ tokens'[t] = tokens[t]
    BY <1>3, <1>4, <1>7 DEF Remove
  <1>9. ListedByOwner'
    BY <1>1, <1>8 DEF IndexInv, ListedByOwner
  <1> QED
    BY <1>6, <1>9 DEF Known

\* An owner changes a price and the event names it.
LEMMA RepriceStep ==
  ASSUME IndexInv, Follow, UNCHANGED tokens, NEW o, NEW k, NEW p,
         k \in DOMAIN tokens, tokens[k].owner = o,
         kittyPrices' = IF p = NoPrice THEN Remove(kittyPrices, k) ELSE Insert(kittyPrices, k, p),
         receipt'.origin = o,
         receipt'.event = [name |-> "KittyPriceUpdated", owner |-> o, id |-> k, price |-> p]
  PROVE  Known'
  <1>1. /\ indexTokens' = indexTokens
        /\ indexPrices' = IF p = NoPrice THEN Remove(indexPrices, k) ELSE Insert(indexPrices, k, p)
        /\ listedBy' = IF p = NoPrice THEN Remove(listedBy, k) ELSE Insert(listedBy, k, o)
    BY DEF Follow, FollowTokens, FollowPrices, FollowListings
  <1>2. IndexerAgrees'
    BY <1>1 DEF IndexInv, IndexerAgrees
  <1>3. ListedByOwner'
    BY <1>1 DEF IndexInv, ListedByOwner, Insert, Remove
  <1> QED
    BY <1>2, <1>3 DEF Known

-----------------------------------------------------------------------------
(* Every call tells what it did *)

\* create tells of the kitty it made.
LEMMA CreateTells ==
  ASSUME IndexInv, Follow, NEW o \in DispatchOrigins, NEW d \in RandomValue, Create(o, d)
  PROVE  Known'
  <1> DEFINE event == KittyEvent("KittyCreated", o, nextTokenId, d)
  <1>1. UNCHANGED kittyPrices
    BY DEF Create
  <1>2. CASE ~(o \in Accounts /\ MintResult = Ok)
    <2>1. UNCHANGED tokens
      BY <1>2 DEF Create, nftVars, Ok
    <2>2. receipt'.event = NoEvent
      BY <1>2, ReceiptSays DEF Create, Ok
    <2> QED
      BY <1>1, <2>1, <2>2, QuietStep
  <1>3. CASE o \in Accounts /\ MintResult = Ok
    <2>1. Mint(o, d) /\ d \in TokenData
      BY <1>3, KittiesAssumption DEF Create, RandomValue
    <2>2. receipt'.event = event
      BY <1>3, ReceiptSays DEF Create
    <2> QED
      BY <1>1, <1>3, <2>1, <2>2, BirthStep
  <1> QED
    BY <1>2, <1>3

\* do_breed tells of the kitten, when its checks imply those of mint.
LEMMA DoBreedTells ==
  ASSUME IndexInv, Follow, NEW o, NEW call, NEW result, NEW owner, NEW d1, NEW d2, NEW s,
         result = Ok => MintResult = Ok /\ owner \in Accounts,
         DoBreed(o, call, result, owner, d1, d2, s)
  PROVE  Known'
  <1> DEFINE child == CombineDna(d1, d2, s)
  <1>1. UNCHANGED kittyPrices
    BY DEF DoBreed
  <1>2. CASE result # Ok
    <2>1. UNCHANGED tokens
      BY <1>2 DEF DoBreed, nftVars
    <2>2. receipt'.event = NoEvent
      BY <1>2, ReceiptSays DEF DoBreed
    <2> QED
      BY <1>1, <2>1, <2>2, QuietStep
  <1>3. CASE result = Ok
    <2>1. child \in TokenData
      BY CombineDnaType, KittiesAssumption
    <2>2. Mint(owner, child)
      BY <1>3 DEF DoBreed
    <2>3. receipt'.event = KittyEvent("KittyBred", owner, nextTokenId, child)
      BY <1>3, ReceiptSays DEF DoBreed
    <2> HIDE DEF child
    <2> QED
      BY <1>1, <1>3, <2>1, <2>2, <2>3, BirthStep
  <1> QED
    BY <1>2, <1>3

\* breed tells of the kitten.
LEMMA BreedTells ==
  ASSUME IndexInv, Follow, NEW o \in DispatchOrigins, NEW k1, NEW k2, NEW s, Breed(o, k1, k2, s)
  PROVE  Known'
  <1>1. BreedResult(o, k1, k2) = Ok => MintResult = Ok /\ o \in Accounts
    BY DEF BreedResult, DoBreedResult, Ok
  <1> QED
    BY <1>1, DoBreedTells DEF Breed

\* auto_breed tells of the kitten, and when it fails it tells nothing.
LEMMA AutoBreedTells ==
  ASSUME IndexInv, Follow, NEW o, NEW k1, NEW k2, NEW n, NEW x, NEW s,
         AutoBreed(o, k1, k2, n, x, s)
  PROVE  Known'
  <1>1. ASSUME AutoBreedResult(o, k1, k2) = Ok
        PROVE  MintResult = Ok /\ tokens[k1].owner \in Accounts
    <2>1. MintResult = Ok /\ k1 \in DOMAIN tokens
      BY <1>1 DEF AutoBreedResult, DoBreedResult, Ok
    <2>2. tokens[k1] \in [owner : Accounts, data : TokenData]
      BY <2>1 DEF IndexInv, IInv, NftInv, TokenInfo
    <2> QED
      BY <2>1, <2>2
  <1> QED
    BY <1>1, DoBreedTells DEF AutoBreed

\* transfer tells of the receiver; a transfer to oneself tells nothing because it
\* does nothing.
LEMMA TransferTells ==
  ASSUME IndexInv, Follow, NEW o \in DispatchOrigins, NEW to \in Accounts, NEW k, Transfer(o, to, k)
  PROVE  Known'
  <1>1. CASE ~(o \in Accounts /\ NftTransferResult(o, k) = Ok)
    <2>1. UNCHANGED <<tokens, kittyPrices>>
      BY <1>1 DEF Transfer, nftVars, Ok
    <2>2. receipt'.event = NoEvent
      BY <1>1, ReceiptSays DEF Transfer, Ok
    <2> QED
      BY <2>1, <2>2, QuietStep
  <1>2. CASE o \in Accounts /\ NftTransferResult(o, k) = Ok /\ o = to
    <2>1. receipt'.event = NoEvent
      BY <1>2, ReceiptSays DEF Transfer
    <2>2. UNCHANGED kittyPrices
      BY <1>2 DEF Transfer, PricesAfterGift
    <2>3. k \in DOMAIN tokens /\ tokens[k].owner = o
      BY <1>2 DEF NftTransferResult, Ok
    <2>4. tokens \in [DOMAIN tokens -> [owner : Accounts, data : TokenData]]
      BY DEF IndexInv, IInv, NftInv, TokenInfo
    <2>5. [tokens[k] EXCEPT !.owner = to] = tokens[k]
      BY <1>2, <2>3, <2>4
    <2>6. tokens' = [tokens EXCEPT ![k] = [tokens[k] EXCEPT !.owner = to]]
      BY <1>2 DEF Transfer, NftTransfer
    <2>7. UNCHANGED tokens
      BY <2>3, <2>4, <2>5, <2>6
    <2> QED
      BY <2>1, <2>2, <2>7, QuietStep
  <1>3. CASE o \in Accounts /\ NftTransferResult(o, k) = Ok /\ o # to
    <2>1. receipt'.event = [name |-> "KittyTransferred", from |-> o, to |-> to, id |-> k]
      BY <1>3, ReceiptSays DEF Transfer
    <2>2. /\ receipt'.event.name \in {"KittyTransferred", "KittySold"}
          /\ receipt'.event.id = k /\ receipt'.event.to = to
      BY <2>1
    <2>3. kittyPrices' = Remove(kittyPrices, k) /\ NftTransfer(o, to, k)
      BY <1>3 DEF Transfer, PricesAfterGift
    <2> QED
      BY <1>3, <2>2, <2>3, HandoverStep
  <1> QED
    BY <1>1, <1>2, <1>3

\* set_price tells of the new price.
LEMMA SetPriceTells ==
  ASSUME IndexInv, Follow, NEW o \in DispatchOrigins, NEW k, NEW p, SetPrice(o, k, p)
  PROVE  Known'
  <1>1. UNCHANGED tokens
    BY DEF SetPrice, nftVars
  <1>2. CASE SetPriceResult(o, k) # Ok
    <2>1. UNCHANGED kittyPrices
      BY <1>2 DEF SetPrice
    <2>2. receipt'.event = NoEvent
      BY <1>2, ReceiptSays DEF SetPrice
    <2> QED
      BY <1>1, <2>1, <2>2, QuietStep
  <1>3. CASE SetPriceResult(o, k) = Ok
    <2>1. /\ receipt'.event = [name |-> "KittyPriceUpdated", owner |-> o, id |-> k, price |-> p]
          /\ receipt'.origin = o
      BY <1>3, ReceiptSays DEF SetPrice
    <2>2. k \in DOMAIN tokens /\ tokens[k].owner = o
      BY <1>3 DEF SetPriceResult, Ok, IndexInv, IInv, NftInv, OwnerIndexAgrees
    <2>3. kittyPrices' = IF p = NoPrice THEN Remove(kittyPrices, k) ELSE Insert(kittyPrices, k, p)
      BY <1>3 DEF SetPrice
    <2> QED
      BY <1>1, <2>1, <2>2, <2>3, RepriceStep
  <1> QED
    BY <1>2, <1>3

\* buy tells of the buyer.
LEMMA BuyTells ==
  ASSUME IndexInv, Follow, NEW o \in DispatchOrigins, NEW owner, NEW k, NEW m,
         Buy(o, owner, k, m)
  PROVE  Known'
  <1>1. CASE BuyResult(o, owner, k, m) # Ok
    <2>1. UNCHANGED <<tokens, kittyPrices>>
      BY <1>1 DEF Buy, KittyMoves, nftVars
    <2>2. receipt'.event = NoEvent
      BY <1>1, ReceiptSays DEF Buy
    <2> QED
      BY <2>1, <2>2, QuietStep
  <1>2. CASE BuyResult(o, owner, k, m) = Ok
    <2>1. receipt'.event = [name |-> "KittySold", from |-> owner, to |-> o, id |-> k,
                            price |-> kittyPrices[k]]
      BY <1>2, ReceiptSays DEF Buy
    <2>2. /\ receipt'.event.name \in {"KittyTransferred", "KittySold"}
          /\ receipt'.event.id = k /\ receipt'.event.to = o
      BY <2>1
    <2>3. kittyPrices' = Remove(kittyPrices, k) /\ NftTransfer(owner, o, k)
      BY <1>2 DEF Buy, KittyMoves
    <2>4. o \in Accounts /\ NftTransferResult(owner, k) = Ok
      BY <1>2 DEF BuyResult, Ok
    <2> QED
      BY <2>2, <2>3, <2>4, HandoverStep
  <1> QED
    BY <1>1, <1>2

\* A transfer of money concerns no kitty.
LEMMA BalancesTransferTells ==
  ASSUME IndexInv, Follow, NEW o, NEW to, NEW v, NEW keepAlive, BalancesTransfer(o, to, v, keepAlive)
  PROVE  Known'
  <1>1. UNCHANGED <<tokens, kittyPrices>>
    BY DEF BalancesTransfer, nftVars
  <1>2. receipt'.event = NoEvent
    BY ReceiptSays DEF BalancesTransfer
  <1> QED
    BY <1>1, <1>2, QuietStep

-----------------------------------------------------------------------------
(* The chronicle of auto_breed *)

\* Only unsigned auto_breed extrinsics spend a nonce.
LEMMA DispatchKeepsNonce == DispatchNext => UNCHANGED autoBreedNonce
  BY DEF DispatchNext, Create, Breed, Transfer, SetPrice, Buy, RefusedAutoBreed, BalancesTransfer

\* One more auto_breed in the chain: it carries the nonce that was next, which is
\* new unless the counter has stuck.
LEMMA InclusionStep ==
  ASSUME HInv, NEW k1, NEW k2, NEW n, NEW x, NEW s, HApplyAutoBreed(k1, k2, n, x, s)
  PROVE  IncludedInv' /\ ReplaysOnlyAtSaturation'
  <1> DEFINE xt == [k1 |-> k1, k2 |-> k2, nonce |-> n, solution |-> x]
  <1>1. n = autoBreedNonce /\ autoBreedNonce' = NextNonce(autoBreedNonce)
    BY DEF HApplyAutoBreed, ApplyAutoBreed, ValidateUnsigned, SpendNonce
  <1>2. /\ included' = included \cup {xt}
        /\ replayed' = IF xt \in included THEN replayed \cup {n} ELSE replayed
    BY DEF HApplyAutoBreed
  <1>3. autoBreedNonce \in 0 .. MaxNonce /\ MaxNonce \in Nat
    BY KittiesAssumption DEF HInv, IndexInv, IInv, NonceInv
  <1>4. xt.nonce = n
    OBVIOUS
  <1> HIDE DEF xt
  <1>5. \A y \in included : y.nonce \in 0 .. autoBreedNonce
                            /\ (y.nonce < autoBreedNonce \/ autoBreedNonce = MaxNonce)
    BY DEF HInv, IncludedInv
  <1>6. autoBreedNonce < MaxNonce => xt \notin included
    BY <1>1, <1>3, <1>4, <1>5
  <1>7. /\ autoBreedNonce' \in 0 .. MaxNonce
        /\ autoBreedNonce < MaxNonce => autoBreedNonce' = autoBreedNonce + 1
        /\ autoBreedNonce = MaxNonce => autoBreedNonce' = MaxNonce
    BY <1>1, <1>3 DEF NextNonce
  <1>8. IsFiniteSet(included) /\ IsFiniteSet(included')
    BY <1>2, FS_AddElement DEF HInv, IncludedInv
  <1>9. (autoBreedNonce < MaxNonce => Cardinality(included) = autoBreedNonce)'
    <2> SUFFICES ASSUME autoBreedNonce' < MaxNonce PROVE Cardinality(included') = autoBreedNonce'
      OBVIOUS
    <2>1. autoBreedNonce < MaxNonce
      BY <1>3, <1>7
    <2>2. Cardinality(included) = autoBreedNonce
      BY <2>1 DEF HInv, IncludedInv, OneInclusionPerNonce
    <2>3. Cardinality(included') = Cardinality(included) + 1
      BY <1>2, <1>6, <1>8, <2>1, FS_AddElement
    <2> QED
      BY <1>7, <2>1, <2>2, <2>3
  <1>10. (\A y, z \in included : y.nonce = z.nonce => y = z \/ y.nonce = MaxNonce)'
    <2>1. \A y, z \in included : y.nonce = z.nonce => y = z \/ y.nonce = MaxNonce
      BY DEF HInv, IncludedInv, OneInclusionPerNonce
    <2>2. \A y \in included : y.nonce = xt.nonce => y.nonce = MaxNonce
      BY <1>1, <1>3, <1>4, <1>5
    <2> QED
      BY <1>2, <2>1, <2>2
  <1>11. \A y \in included' : y.nonce \in 0 .. autoBreedNonce'
                              /\ (y.nonce < autoBreedNonce' \/ autoBreedNonce' = MaxNonce)
    <2>1. xt.nonce \in 0 .. autoBreedNonce' /\ (xt.nonce < autoBreedNonce' \/ autoBreedNonce' = MaxNonce)
      BY <1>1, <1>3, <1>4, <1>7
    <2>2. ASSUME NEW y \in included
          PROVE  y.nonce \in 0 .. autoBreedNonce' /\ (y.nonce < autoBreedNonce' \/ autoBreedNonce' = MaxNonce)
      BY <1>3, <1>5, <1>7
    <2> QED
      BY <1>2, <2>1, <2>2
  <1>12. IncludedInv'
    BY <1>3, <1>7, <1>8, <1>9, <1>10, <1>11 DEF IncludedInv, OneInclusionPerNonce
  <1>13. ReplaysOnlyAtSaturation'
    <2>1. xt \in included => n = MaxNonce
      BY <1>1, <1>3, <1>6
    <2> QED
      BY <1>2, <2>1 DEF HInv, ReplaysOnlyAtSaturation
  <1> QED
    BY <1>12, <1>13

-----------------------------------------------------------------------------
(* Theorems *)

\* The invariant holds at genesis.
LEMMA HInitSafe == HInit => HInv
  <1> SUFFICES ASSUME HInit PROVE HInv
    OBVIOUS
  <1>1. IInv /\ autoBreedNonce = 0
    BY InitSafe DEF HInit, Init
  <1>2. Known
    BY DEF HInit, Init, NftInit, Known, IndexerAgrees, ListedByOwner
  <1>3. IsFiniteSet(included) /\ Cardinality(included) = 0
    BY FS_EmptySet DEF HInit
  <1>4. IncludedInv /\ ReplaysOnlyAtSaturation
    BY <1>1, <1>3 DEF HInit, IncludedInv, OneInclusionPerNonce, ReplaysOnlyAtSaturation
  <1> QED
    BY <1>1, <1>2, <1>4 DEF HInv, IndexInv, Known

\* Every extrinsic tells the indexer what it did.
LEMMA HNextTells ==
  ASSUME IndexInv, HNext
  PROVE  Known'
  <1>0. Follow
    BY DEF HNext
  <1>1. ASSUME NEW o \in DispatchOrigins, NEW d \in RandomValue, Create(o, d)
        PROVE  Known'
    BY <1>0, <1>1, CreateTells
  <1>2. ASSUME NEW o \in DispatchOrigins, NEW k1 \in TokenIds, NEW k2 \in TokenIds,
               NEW s \in RandomValue, Breed(o, k1, k2, s)
        PROVE  Known'
    BY <1>0, <1>2, BreedTells
  <1>3. ASSUME NEW o \in DispatchOrigins, NEW to \in Accounts, NEW k \in TokenIds,
               Transfer(o, to, k)
        PROVE  Known'
    BY <1>0, <1>3, TransferTells
  <1>4. ASSUME NEW o \in DispatchOrigins, NEW k \in TokenIds, NEW p \in Prices \cup {NoPrice},
               SetPrice(o, k, p)
        PROVE  Known'
    BY <1>0, <1>4, SetPriceTells
  <1>5. ASSUME NEW o \in DispatchOrigins, NEW w \in Accounts, NEW k \in TokenIds,
               NEW m \in Prices, Buy(o, w, k, m)
        PROVE  Known'
    BY <1>0, <1>5, BuyTells
  <1>6. ASSUME NEW o \in DispatchOrigins, NEW k1 \in TokenIds, NEW k2 \in TokenIds,
               NEW n \in 0 .. MaxNonce, NEW x \in Solutions, RefusedAutoBreed(o, k1, k2, n, x)
        PROVE  Known'
    BY <1>0, <1>6, AutoBreedTells DEF RefusedAutoBreed
  <1>7. ASSUME NEW o \in DispatchOrigins, NEW to \in Accounts, NEW v \in Prices,
               NEW ka \in BOOLEAN, BalancesTransfer(o, to, v, ka)
        PROVE  Known'
    BY <1>0, <1>7, BalancesTransferTells
  <1>8. ASSUME NEW k1 \in TokenIds, NEW k2 \in TokenIds, NEW n \in 0 .. MaxNonce,
               NEW x \in Solutions, NEW s \in RandomValue, HApplyAutoBreed(k1, k2, n, x, s)
        PROVE  Known'
    BY <1>0, <1>8, AutoBreedTells DEF HApplyAutoBreed, ApplyAutoBreed
  <1> QED
    BY <1>1, <1>2, <1>3, <1>4, <1>5, <1>6, <1>7, <1>8 DEF HNext, DispatchNext

\* Observers do not influence the pallet.
LEMMA HNextIsNext == HNext => Next
  BY DEF HNext, Next, HApplyAutoBreed

\* Every extrinsic keeps the invariant.
LEMMA HNextSafe == HInv /\ [HNext]_<<vars, historyVars>> => HInv'
  <1> SUFFICES ASSUME HInv, [HNext]_<<vars, historyVars>> PROVE HInv'
    OBVIOUS
  <1>1. CASE UNCHANGED <<vars, historyVars>>
    <2>1. IInv'
      BY <1>1, NextSafe DEF HInv, IndexInv
    <2>2. UNCHANGED <<tokens, kittyPrices, autoBreedNonce, indexTokens, indexPrices, listedBy, included, replayed>>
      BY <1>1 DEF vars, nftVars, historyVars, indexVars, replayVars
    <2> QED
      BY <2>1, <2>2 DEF HInv, IndexInv, IndexerAgrees, ListedByOwner, IncludedInv,
                        OneInclusionPerNonce, ReplaysOnlyAtSaturation
  <1>2. CASE HNext
    <2>1. IInv'
      BY <1>2, HNextIsNext, NextSafe DEF HInv, IndexInv
    <2>2. Known'
      BY <1>2, HNextTells DEF HInv
    <2>3. CASE DispatchNext /\ UNCHANGED replayVars
      <3>1. UNCHANGED <<autoBreedNonce, included, replayed>>
        BY <2>3, DispatchKeepsNonce DEF replayVars
      <3>2. IncludedInv' /\ ReplaysOnlyAtSaturation'
        BY <3>1 DEF HInv, IncludedInv, OneInclusionPerNonce, ReplaysOnlyAtSaturation
      <3> QED
        BY <2>1, <2>2, <3>2 DEF HInv, IndexInv, Known
    <2>4. ASSUME NEW k1 \in TokenIds, NEW k2 \in TokenIds, NEW n \in 0 .. MaxNonce,
                 NEW x \in Solutions, NEW s \in RandomValue, HApplyAutoBreed(k1, k2, n, x, s)
          PROVE  HInv'
      <3>1. IncludedInv' /\ ReplaysOnlyAtSaturation'
        BY <2>4, InclusionStep
      <3> QED
        BY <2>1, <2>2, <3>1 DEF HInv, IndexInv, Known
    <2> QED
      BY <1>2, <2>3, <2>4 DEF HNext
  <1> QED
    BY <1>1, <1>2

\* The observed chain keeps the strengthened invariant.
LEMMA HSafety == HSpec => []HInv
  BY HInitSafe, HNextSafe, PTL DEF HSpec

\* Owners, DNA and prices can be rebuilt from the events alone, whatever calls
\* succeeded or failed before: an error that leaves storage changed without an event
\* would break this, and so would an event that is too silent or too early.
THEOREM EventsTellAll == HSpec => []IndexerAgrees
  <1>1. HInv => IndexerAgrees
    BY DEF HInv, IndexInv
  <1> QED
    BY <1>1, HSafety, PTL

\* A price in force was set by the present owner, for any number of transfers and
\* sales since the kitty was first listed.
THEOREM PricesAreTheOwners == HSpec => []ListedByOwner
  <1>1. HInv => ListedByOwner
    BY DEF HInv, IndexInv
  <1> QED
    BY <1>1, HSafety, PTL

\* Every auto_breed in the chain spent a nonce of its own, so the nonce counts
\* them, for every width of the counter, until it sticks at its largest value.
THEOREM NoncesAreSpent == HSpec => []OneInclusionPerNonce
  <1>1. HInv => OneInclusionPerNonce
    BY DEF HInv, IncludedInv
  <1> QED
    BY <1>1, HSafety, PTL

\* A proof of work enters the chain a second time only under the largest nonce.
THEOREM ReplayNeedsSaturation == HSpec => []ReplaysOnlyAtSaturation
  <1>1. HInv => ReplaysOnlyAtSaturation
    BY DEF HInv
  <1> QED
    BY <1>1, HSafety, PTL

=============================================================================
