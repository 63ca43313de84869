--------------------------- MODULE KittiesProofs ----------------------------
(***************************************************************************)
(* Proofs about the kitties pallet, for every number of accounts, kitties, *)
(* DNA bits and prices, in three parts: storage stays consistent; a trader *)
(* can rely on consent, payment, listings and breeding; the pallet, seen   *)
(* as owners, asks and money, implements Marketplace.                      *)
(***************************************************************************)
EXTENDS Kitties, TLAPS

-----------------------------------------------------------------------------
(* The inductive invariant, by the storage it is about *)

\* Tokens, TokensByOwner and the two counters of the class.
NftInv ==
  /\ nextTokenId \in TokenIds
  /\ tokens \in [0 .. nextTokenId - 1 -> TokenInfo]
  /\ totalIssuance = nextTokenId
  /\ OwnerIndexAgrees

\* KittyPrices lists kitties that exist, at prices that may be asked.
PriceInv ==
  /\ ListedKittiesExist
  /\ kittyPrices \in [DOMAIN kittyPrices -> Prices]

\* An account is either worth the existential deposit or does not exist.
BalanceInv == balances \in [Accounts -> Nat] /\ NoDustAccounts

NonceInv == autoBreedNonce \in 0 .. MaxNonce

IInv == NftInv /\ PriceInv /\ BalanceInv /\ NonceInv

-----------------------------------------------------------------------------
(* Operators *)

\* combine_dna yields DNA.
LEMMA CombineDnaType ==
  ASSUME NEW dna1, NEW dna2, NEW selector
  PROVE  CombineDna(dna1, dna2, selector) \in Dna
  BY Zenon DEF CombineDna, Dna

-----------------------------------------------------------------------------
(* What the calls do to storage, one lemma for each kind of effect *)

\* A mint that passed its checks.
LEMMA MintStep ==
  ASSUME NftInv, MintResult = Ok, NEW o \in Accounts, NEW d \in TokenData, Mint(o, d)
  PROVE  /\ NftInv'
         /\ DOMAIN tokens' = DOMAIN tokens \cup {nextTokenId}
         /\ \A t \in DOMAIN tokens : tokens'[t] = tokens[t]
  <1> DEFINE v == [owner |-> o, data |-> d]
  <1>1. nextTokenId \in 0 .. MaxTokenId /\ nextTokenId # MaxTokenId
    BY DEF NftInv, MintResult, TokenIds, Ok
  <1>2. nextTokenId' = nextTokenId + 1 /\ nextTokenId' \in TokenIds /\ totalIssuance' = nextTokenId'
    BY <1>1, MaxTokenIdAssumption DEF Mint, Advanced, TokenIds, NftInv
  <1>3. v \in TokenInfo
    BY DEF TokenInfo
  <1>4. tokens' = Insert(tokens, nextTokenId, v)
    BY DEF Mint
  <1>5. tokens \in [0 .. nextTokenId - 1 -> TokenInfo]
    BY DEF NftInv
  <1> HIDE DEF v
  <1>6. /\ tokens' \in [(0 .. nextTokenId - 1) \cup {nextTokenId} -> TokenInfo]
        /\ tokens'[nextTokenId] = v
        /\ \A t \in (0 .. nextTokenId - 1) \ {nextTokenId} : tokens'[t] = tokens[t]
    BY <1>3, <1>4, <1>5 DEF Insert
  <1>7. (0 .. nextTokenId - 1) \cup {nextTokenId} = 0 .. nextTokenId' - 1
    BY <1>1, <1>2
  <1>8. DOMAIN tokens = 0 .. nextTokenId - 1 /\ nextTokenId \notin DOMAIN tokens
    BY <1>1, <1>5
  <1>9. \A t \in DOMAIN tokens : tokens'[t] = tokens[t]
    BY <1>6, <1>8
  <1>10. DOMAIN tokens' = DOMAIN tokens \cup {nextTokenId}
    BY <1>6, <1>8
  <1>11. tokens'[nextTokenId].owner = o
    BY <1>6 DEF v
  <1>12. OwnerIndexAgrees'
    BY <1>9, <1>10, <1>11 DEF OwnerIndexAgrees, NftInv, Mint
  <1> QED
    BY <1>2, <1>6, <1>7, <1>9, <1>10, <1>12 DEF NftInv

\* A transfer of a token to another account, or to the same one.
LEMMA MoveStep ==
  ASSUME NftInv, NEW from, NEW to \in Accounts, NEW k,
         NftTransferResult(from, k) = Ok, NftTransfer(from, to, k)
  PROVE  /\ NftInv'
         /\ DOMAIN tokens' = DOMAIN tokens
         /\ \A t \in DOMAIN tokens : tokens'[t].data = tokens[t].data
         /\ \A t \in DOMAIN tokens : t # k => tokens'[t] = tokens[t]
         /\ k \in DOMAIN tokens /\ tokens[k].owner = from /\ tokens'[k].owner = to
  <1>1. k \in DOMAIN tokens /\ tokens[k].owner = from
    BY DEF NftTransferResult, Ok
  <1>2. tokens \in [0 .. nextTokenId - 1 -> TokenInfo] /\ DOMAIN tokens = 0 .. nextTokenId - 1
    BY DEF NftInv
  <1>3. tokens[k] \in [owner : Accounts, data : TokenData]
    BY <1>1, <1>2 DEF TokenInfo
  <1>4. tokens' = [tokens EXCEPT ![k] = [tokens[k] EXCEPT !.owner = to]]
    BY DEF NftTransfer
  <1>5. /\ [tokens[k] EXCEPT !.owner = to] \in TokenInfo
        /\ [tokens[k] EXCEPT !.owner = to].owner = to
        /\ [tokens[k] EXCEPT !.owner = to].data = tokens[k].data
    BY <1>3 DEF TokenInfo
  <1>6. /\ tokens' \in [0 .. nextTokenId - 1 -> TokenInfo]
        /\ DOMAIN tokens' = DOMAIN tokens
        /\ tokens'[k].owner = to /\ tokens'[k].data = tokens[k].data
        /\ \A t \in DOMAIN tokens : t # k => tokens'[t] = tokens[t]
    BY <1>1, <1>2, <1>4, <1>5
  <1>7. UNCHANGED <<nextTokenId, totalIssuance>>
    BY DEF NftTransfer
  <1>8. OwnerIndexAgrees'
    <2>1. tokensByOwner = {<<tokens[t].owner, t>> : t \in DOMAIN tokens}
      BY DEF NftInv, OwnerIndexAgrees
    <2>2. CASE from = to
      <3>1. \A t \in DOMAIN tokens : tokens'[t].owner = tokens[t].owner
        BY <1>1, <1>6, <2>2
      <3> QED
        BY <1>6, <2>1, <2>2, <3>1 DEF OwnerIndexAgrees, NftTransfer
    <2>3. CASE from # to
      <3>1. tokensByOwner' = (tokensByOwner \ {<<from, k>>}) \cup {<<to, k>>}
        BY <2>3 DEF NftTransfer, IndexAfterTransfer
      <3> QED
        BY <1>1, <1>6, <2>1, <3>1 DEF OwnerIndexAgrees
    <2> QED
      BY <2>2, <2>3
  <1> QED
    BY <1>1, <1>6, <1>7, <1>8 DEF NftInv

\* A payment that passed its checks leaves every account alive or gone.
LEMMA PayStep ==
  ASSUME BalanceInv, NEW from \in Accounts, NEW to \in Accounts, NEW value \in Nat,
         NEW keepAlive \in BOOLEAN,
         CurrencyTransferResult(from, to, value, keepAlive) = Ok,
         CurrencyTransfer(from, to, value)
  PROVE  BalanceInv'
  <1>1. CASE value = 0 \/ from = to
    BY <1>1 DEF CurrencyTransfer, balanceVars, BalanceInv, NoDustAccounts
  <1>2. CASE ~(value = 0 \/ from = to)
    <2>1. /\ balances \in [Accounts -> Nat]
          /\ \A a \in Accounts : balances[a] = 0 \/ balances[a] >= ExistentialDeposit
      BY DEF BalanceInv, NoDustAccounts
    <2>2. balances[from] >= value /\ balances[to] + value >= ExistentialDeposit
      BY <1>2, <2>1, ExistentialDepositAssumption DEF CurrencyTransferResult, OpensWithDeposit, Ok
    <2> DEFINE rest == Reaped(balances[from] - value)
    <2>3. rest \in Nat /\ (rest = 0 \/ rest >= ExistentialDeposit)
      BY <2>1, <2>2, ExistentialDepositAssumption DEF Reaped
    <2>4. balances' = [balances EXCEPT ![from] = rest, ![to] = @ + value]
      BY <1>2 DEF CurrencyTransfer
    <2> HIDE DEF rest
    <2>5. \A a \in Accounts : balances'[a] = IF a = to THEN balances[to] + value
                                             ELSE IF a = from THEN rest ELSE balances[a]
      BY <1>2, <2>1, <2>4
    <2>6. balances' \in [Accounts -> Nat]
      BY <2>1, <2>3, <2>4
    <2> QED
      BY <2>1, <2>2, <2>3, <2>5, <2>6, ExistentialDepositAssumption DEF BalanceInv, NoDustAccounts
  <1> QED
    BY <1>1, <1>2

\* Taking a kitty off the market.
LEMMA DelistStep ==
  ASSUME PriceInv, DOMAIN tokens \subseteq DOMAIN tokens', NEW k,
         kittyPrices' = Remove(kittyPrices, k)
  PROVE  PriceInv' /\ k \notin DOMAIN kittyPrices'
  BY DEF PriceInv, ListedKittiesExist, Remove

\* Prices that stay as they are while no kitty disappears.
LEMMA SamePrices ==
  ASSUME PriceInv, DOMAIN tokens \subseteq DOMAIN tokens', UNCHANGED kittyPrices
  PROVE  PriceInv'
  BY DEF PriceInv, ListedKittiesExist

-----------------------------------------------------------------------------
(* Storage: every call is safe *)

\* No kitty is lost or altered in this step.
KeepsKitties ==
  \A t \in DOMAIN tokens : t \in DOMAIN tokens' /\ tokens'[t].data = tokens[t].data

\* Whatever changes hands in this step is not for sale after it.
Delists == \A t \in DOMAIN tokens : OwnerChanges(t) => t \notin DOMAIN kittyPrices'

SafeStep == IInv' /\ KeepsKitties /\ Delists

\* A step that does not touch the tokens is safe if the rest is.
LEMMA TokensUntouched ==
  ASSUME IInv, UNCHANGED nftVars, PriceInv', BalanceInv', NonceInv'
  PROVE  SafeStep
  BY DEF SafeStep, IInv, KeepsKitties, Delists, OwnerChanges, nftVars, NftInv, OwnerIndexAgrees

\* A call that only leaves a receipt is safe.
LEMMA Untouched ==
  ASSUME IInv, UNCHANGED <<nftVars, balances, kittyPrices>>, NonceInv'
  PROVE  SafeStep
  <1>1. PriceInv' /\ BalanceInv'
    BY DEF IInv, PriceInv, ListedKittiesExist, BalanceInv, NoDustAccounts, nftVars
  <1> QED
    BY <1>1, TokensUntouched DEF nftVars

\* A mint that passed its checks is safe.
LEMMA MintSafe ==
  ASSUME IInv, MintResult = Ok, NEW o \in Accounts, NEW d \in TokenData, Mint(o, d),
         UNCHANGED <<balanceVars, kittyPrices>>, NonceInv'
  PROVE  SafeStep
  <1>1. /\ NftInv'
        /\ DOMAIN tokens' = DOMAIN tokens \cup {nextTokenId}
        /\ \A t \in DOMAIN tokens : tokens'[t] = tokens[t]
    BY MintStep DEF IInv
  <1>2. PriceInv'
    BY <1>1, SamePrices DEF IInv
  <1>3. BalanceInv'
    BY DEF IInv, BalanceInv, NoDustAccounts, balanceVars
  <1> QED
    BY <1>1, <1>2, <1>3 DEF SafeStep, IInv, KeepsKitties, Delists, OwnerChanges

\* create is safe.
LEMMA CreateSafe ==
  ASSUME IInv, NEW o \in DispatchOrigins, NEW d \in RandomValue, Create(o, d)
  PROVE  SafeStep
  <1>1. NonceInv'
    BY DEF Create, IInv, NonceInv
  <1>2. CASE o \in Accounts /\ MintResult = Ok
    BY <1>1, <1>2, MintSafe, KittiesAssumption DEF Create, RandomValue
  <1>3. CASE ~(o \in Accounts /\ MintResult = Ok)
    BY <1>1, <1>3, Untouched DEF Create, balanceVars, Ok
  <1> QED
    BY <1>2, <1>3

\* do_breed is safe, whoever calls it, when its checks imply those of mint.
LEMMA DoBreedSafe ==
  ASSUME IInv, NEW o, NEW call, NEW result, NEW owner, NEW d1, NEW d2, NEW s,
         result = Ok => MintResult = Ok /\ owner \in Accounts,
         DoBreed(o, call, result, owner, d1, d2, s), NonceInv'
  PROVE  SafeStep
  <1>1. CASE result = Ok
    <2>1. CombineDna(d1, d2, s) \in TokenData
      BY CombineDnaType, KittiesAssumption
    <2>2. Mint(owner, CombineDna(d1, d2, s)) /\ UNCHANGED <<balanceVars, kittyPrices>>
      BY <1>1 DEF DoBreed
    <2> QED
      BY <1>1, <2>1, <2>2, MintSafe
  <1>2. CASE result # Ok
    BY <1>2, Untouched DEF DoBreed, balanceVars
  <1> QED
    BY <1>1, <1>2

\* breed is safe.
LEMMA BreedSafe ==
  ASSUME IInv, NEW o \in DispatchOrigins, NEW k1, NEW k2, NEW s, Breed(o, k1, k2, s)
  PROVE  SafeStep
  <1>1. BreedResult(o, k1, k2) = Ok => MintResult = Ok /\ o \in Accounts
    BY DEF BreedResult, DoBreedResult, Ok
  <1>2. NonceInv'
    BY DEF Breed, IInv, NonceInv
  <1> QED
    BY <1>1, <1>2, DoBreedSafe DEF Breed

\* auto_breed is safe, refused or not.
LEMMA AutoBreedSafe ==
  ASSUME IInv, NEW o, NEW k1, NEW k2, NEW n, NEW x, NEW s,
         AutoBreed(o, k1, k2, n, x, s), NonceInv'
  PROVE  SafeStep
  <1>1. ASSUME AutoBreedResult(o, k1, k2) = Ok
        PROVE  MintResult = Ok /\ tokens[k1].owner \in Accounts
    <2>1. MintResult = Ok /\ k1 \in DOMAIN tokens
      BY <1>1 DEF AutoBreedResult, DoBreedResult, Ok
    <2>2. tokens[k1] \in [owner : Accounts, data : TokenData]
      BY <2>1 DEF IInv, NftInv, TokenInfo
    <2> QED
      BY <2>1, <2>2
  <1> QED
    BY <1>1, DoBreedSafe DEF AutoBreed

\* The nonce stays within u32.
LEMMA ApplyAutoBreedSafe ==
  ASSUME IInv, NEW k1, NEW k2, NEW n, NEW x, NEW s, ApplyAutoBreed(k1, k2, n, x, s)
  PROVE  SafeStep
  <1>1. NonceInv'
    BY KittiesAssumption DEF ApplyAutoBreed, SpendNonce, NextNonce, IInv, NonceInv
  <1> QED
    BY <1>1, AutoBreedSafe DEF ApplyAutoBreed

\* transfer is safe.
LEMMA TransferSafe ==
  ASSUME IInv, NEW o \in DispatchOrigins, NEW to \in Accounts, NEW k, Transfer(o, to, k)
  PROVE  SafeStep
  <1>1. NonceInv' /\ BalanceInv'
    BY DEF Transfer, IInv, NonceInv, BalanceInv, NoDustAccounts, balanceVars
  <1>2. CASE ~(o \in Accounts /\ NftTransferResult(o, k) = Ok)
    BY <1>1, <1>2, Untouched DEF Transfer, balanceVars, Ok
  <1>3. CASE o \in Accounts /\ NftTransferResult(o, k) = Ok
    <2>1. NftTransfer(o, to, k)
      BY <1>3 DEF Transfer
    <2>2. /\ NftInv'
          /\ DOMAIN tokens' = DOMAIN tokens
          /\ \A t \in DOMAIN tokens : tokens'[t].data = tokens[t].data
          /\ \A t \in DOMAIN tokens : t # k => tokens'[t] = tokens[t]
          /\ tokens[k].owner = o /\ tokens'[k].owner = to
      BY <1>3, <2>1, MoveStep DEF IInv
    <2>3. CASE o = to
      <3>1. UNCHANGED kittyPrices
        BY <1>3, <2>3 DEF Transfer, PricesAfterGift
      <3>2. PriceInv'
        BY <2>2, <3>1, SamePrices DEF IInv
      <3> QED
        BY <1>1, <2>2, <2>3, <3>2 DEF SafeStep, IInv, KeepsKitties, Delists, OwnerChanges
    <2>4. CASE o # to
      <3>1. kittyPrices' = Remove(kittyPrices, k)
        BY <1>3, <2>4 DEF Transfer, PricesAfterGift
      <3>2. PriceInv' /\ k \notin DOMAIN kittyPrices'
        BY <2>2, <3>1, DelistStep DEF IInv
      <3> QED
        BY <1>1, <2>2, <3>2 DEF SafeStep, IInv, KeepsKitties, Delists, OwnerChanges
    <2> QED
      BY <2>3, <2>4
  <1> QED
    BY <1>2, <1>3

\* set_price is safe: who has an entry in TokensByOwner has the kitty.
LEMMA SetPriceSafe ==
  ASSUME IInv, NEW o \in DispatchOrigins, NEW k, NEW p \in Prices \cup {NoPrice},
         SetPrice(o, k, p)
  PROVE  SafeStep
  <1>1. NonceInv' /\ BalanceInv'
    BY DEF SetPrice, IInv, NonceInv, BalanceInv, NoDustAccounts, balanceVars
  <1>2. UNCHANGED nftVars /\ UNCHANGED tokens
    BY DEF SetPrice, nftVars
  <1>3. PriceInv'
    <2>1. CASE UNCHANGED kittyPrices
      BY <1>2, <2>1, SamePrices DEF IInv
    <2>2. CASE kittyPrices' = Remove(kittyPrices, k)
      BY <1>2, <2>2, DelistStep DEF IInv
    <2>3. CASE p # NoPrice /\ <<o, k>> \in tokensByOwner /\ kittyPrices' = Insert(kittyPrices, k, p)
      <3>1. k \in DOMAIN tokens
        BY <2>3 DEF IInv, NftInv, OwnerIndexAgrees
      <3>2. p \in Prices
        BY <2>3
      <3> QED
        BY <1>2, <2>3, <3>1, <3>2 DEF IInv, PriceInv, ListedKittiesExist, Insert
    <2> QED
      BY <2>1, <2>2, <2>3 DEF SetPrice, SetPriceResult, Ok
  <1> QED
    BY <1>1, <1>2, <1>3, TokensUntouched

\* buy is safe.
LEMMA BuySafe ==
  ASSUME IInv, NEW o \in DispatchOrigins, NEW owner \in Accounts, NEW k, NEW m,
         Buy(o, owner, k, m)
  PROVE  SafeStep
  <1>1. NonceInv'
    BY DEF Buy, IInv, NonceInv
  <1>2. CASE BuyResult(o, owner, k, m) # Ok
    BY <1>1, <1>2, Untouched DEF Buy, KittyMoves, balanceVars
  <1>3. CASE BuyResult(o, owner, k, m) = Ok
    <2>1. /\ o \in Accounts
          /\ k \in DOMAIN kittyPrices
          /\ NftTransferResult(owner, k) = Ok
          /\ CurrencyTransferResult(o, owner, kittyPrices[k], TRUE) = Ok
      BY <1>3 DEF BuyResult, PaymentResult, Ok
    <2>2. kittyPrices[k] \in Nat
      BY <2>1, KittiesAssumption DEF IInv, PriceInv
    <2>3. /\ NftTransfer(owner, o, k)
          /\ CurrencyTransfer(o, owner, kittyPrices[k])
          /\ kittyPrices' = Remove(kittyPrices, k)
      BY <1>3 DEF Buy, KittyMoves
    <2>4. /\ NftInv'
          /\ DOMAIN tokens' = DOMAIN tokens
          /\ \A t \in DOMAIN tokens : tokens'[t].data = tokens[t].data
          /\ \A t \in DOMAIN tokens : t # k => tokens'[t] = tokens[t]
      <3>1. NftInv /\ o \in Accounts
        BY <2>1 DEF IInv
      <3>2. NftTransferResult(owner, k) = Ok /\ NftTransfer(owner, o, k)
        BY <2>1, <2>3
      <3> QED
        BY <3>1, <3>2, MoveStep
    <2>5. PriceInv' /\ k \notin DOMAIN kittyPrices'
      BY <2>3, <2>4, DelistStep DEF IInv
    <2>6. BalanceInv'
      BY <2>1, <2>2, <2>3, PayStep DEF IInv
    <2> QED
      BY <1>1, <2>4, <2>5, <2>6 DEF SafeStep, IInv, KeepsKitties, Delists, OwnerChanges
  <1> QED
    BY <1>2, <1>3

\* A transfer of money is safe.
LEMMA BalancesTransferSafe ==
  ASSUME IInv, NEW o \in DispatchOrigins, NEW to \in Accounts, NEW v \in Prices,
         NEW keepAlive \in BOOLEAN, BalancesTransfer(o, to, v, keepAlive)
  PROVE  SafeStep
  <1>1. NonceInv' /\ UNCHANGED <<nftVars, kittyPrices>>
    BY DEF BalancesTransfer, IInv, NonceInv
  <1>2. CASE ~(o \in Accounts /\ CurrencyTransferResult(o, to, v, keepAlive) = Ok)
    BY <1>1, <1>2, Untouched DEF BalancesTransfer, balanceVars, Ok
  <1>3. CASE o \in Accounts /\ CurrencyTransferResult(o, to, v, keepAlive) = Ok
    <2>1. CurrencyTransfer(o, to, v) /\ v \in Nat
      BY <1>3, KittiesAssumption DEF BalancesTransfer
    <2>2. BalanceInv'
      BY <1>3, <2>1, PayStep DEF IInv
    <2>3. PriceInv'
      BY <1>1, SamePrices DEF IInv, nftVars
    <2> QED
      BY <1>1, <2>2, <2>3, TokensUntouched
  <1> QED
    BY <1>2, <1>3

-----------------------------------------------------------------------------
(* Storage: theorems *)

\* The invariant holds at genesis.
LEMMA InitSafe == Init => IInv
  BY MaxTokenIdAssumption, InitialBalancesAssumption, KittiesAssumption
     DEF Init, NftInit, BalancesInit, IInv, NftInv, TokenIds, OwnerIndexAgrees,
         PriceInv, ListedKittiesExist, BalanceInv, NoDustAccounts, NonceInv

\* Every extrinsic is safe.
LEMMA NextSafe == IInv /\ [Next]_vars => [SafeStep]_vars /\ IInv'
  <1> SUFFICES ASSUME IInv, [Next]_vars PROVE [SafeStep]_vars /\ IInv'
    OBVIOUS
  <1>1. CASE UNCHANGED vars
    BY <1>1 DEF vars, nftVars, balanceVars, IInv, NftInv, OwnerIndexAgrees,
                PriceInv, ListedKittiesExist, BalanceInv, NoDustAccounts, NonceInv
  <1>2. ASSUME NEW o \in DispatchOrigins, NEW d \in RandomValue, Create(o, d)
        PROVE  SafeStep
    BY <1>2, CreateSafe
  <1>3. ASSUME NEW o \in DispatchOrigins, NEW k1 \in TokenIds, NEW k2 \in TokenIds,
               NEW s \in RandomValue, Breed(o, k1, k2, s)
        PROVE  SafeStep
    BY <1>3, BreedSafe
  <1>4. ASSUME NEW o \in DispatchOrigins, NEW to \in Accounts, NEW k \in TokenIds,
               Transfer(o, to, k)
        PROVE  SafeStep
    BY <1>4, TransferSafe
  <1>5. ASSUME NEW o \in DispatchOrigins, NEW k \in TokenIds, NEW p \in Prices \cup {NoPrice},
               SetPrice(o, k, p)
        PROVE  SafeStep
    BY <1>5, SetPriceSafe
  <1>6. ASSUME NEW o \in DispatchOrigins, NEW w \in Accounts, NEW k \in TokenIds,
               NEW m \in Prices, Buy(o, w, k, m)
        PROVE  SafeStep
    BY <1>6, BuySafe
  <1>7. ASSUME NEW o \in DispatchOrigins, NEW k1 \in TokenIds, NEW k2 \in TokenIds,
               NEW n \in 0 .. MaxNonce, NEW x \in Solutions, RefusedAutoBreed(o, k1, k2, n, x)
        PROVE  SafeStep
    <2>1. NonceInv'
      BY <1>7 DEF RefusedAutoBreed, IInv, NonceInv
    <2> QED
      BY <1>7, <2>1, AutoBreedSafe DEF RefusedAutoBreed
  <1>8. ASSUME NEW o \in DispatchOrigins, NEW to \in Accounts, NEW v \in Prices,
               NEW ka \in BOOLEAN, BalancesTransfer(o, to, v, ka)
        PROVE  SafeStep
    BY <1>8, BalancesTransferSafe
  <1>9. ASSUME NEW k1 \in TokenIds, NEW k2 \in TokenIds, NEW n \in 0 .. MaxNonce,
               NEW x \in Solutions, NEW s \in RandomValue, ApplyAutoBreed(k1, k2, n, x, s)
        PROVE  SafeStep
    BY <1>9, ApplyAutoBreedSafe
  <1>10. CASE Next
    <2>1. SafeStep
      BY <1>10, <1>2, <1>3, <1>4, <1>5, <1>6, <1>7, <1>8, <1>9 DEF Next, DispatchNext
    <2> QED
      BY <2>1 DEF SafeStep
  <1> QED
    BY <1>1, <1>10

\* The pallet keeps the strengthened invariant.
LEMMA Safety == Spec => []IInv
  BY InitSafe, NextSafe, PTL DEF Spec

\* The invariant implies the declared types.
LEMMA InvTyped ==
  ASSUME IInv
  PROVE  TypeOK
  <1>1. DOMAIN tokens = 0 .. nextTokenId - 1 /\ DOMAIN tokens \subseteq TokenIds
    BY MaxTokenIdAssumption DEF IInv, NftInv, TokenIds
  <1>2. tokens \in [DOMAIN tokens -> TokenInfo]
    BY <1>1 DEF IInv, NftInv
  <1>3. \A t \in DOMAIN tokens : tokens[t].owner \in Accounts
    BY <1>2 DEF TokenInfo
  <1>4. tokensByOwner \subseteq Accounts \X TokenIds
    BY <1>1, <1>3 DEF IInv, NftInv, OwnerIndexAgrees
  <1> QED
    BY <1>1, <1>2, <1>4 DEF TypeOK, IInv, NftInv, PriceInv, ListedKittiesExist, BalanceInv, NonceInv

\* Storage is of its declared types, for every history of extrinsics: no counter
\* leaves its width, and no price or token appears under an id that is not one.
THEOREM TypeCorrect == Spec => []TypeOK
  BY InvTyped, Safety, PTL

\* The kitties are numbered without gaps and counted correctly, for every width
\* of TokenId, so the off-chain worker never draws an id without a kitty.
THEOREM DenseIds == Spec => []IdsAreDense
  <1>1. IInv => IdsAreDense
    BY DEF IInv, NftInv, IdsAreDense
  <1> QED
    BY <1>1, Safety, PTL

\* Tokens and TokensByOwner name the same owners, for ever: the check of
\* set_price and the checks of the other calls cannot disagree.
THEOREM OwnersAgree == Spec => []OwnerIndexAgrees
  <1>1. IInv => OwnerIndexAgrees
    BY DEF IInv, NftInv
  <1> QED
    BY <1>1, Safety, PTL

\* Whatever is for sale exists.
THEOREM ListingsExist == Spec => []ListedKittiesExist
  <1>1. IInv => ListedKittiesExist
    BY DEF IInv, PriceInv
  <1> QED
    BY <1>1, Safety, PTL

\* No sale and no transfer leaves dust behind, for every price and deposit.
THEOREM NoDust == Spec => []NoDustAccounts
  <1>1. IInv => NoDustAccounts
    BY DEF IInv, BalanceInv
  <1> QED
    BY <1>1, Safety, PTL

\* No extrinsic destroys a kitty, reuses its id or alters its DNA.
THEOREM KittiesStay == Spec => KittiesAreForever
  <1>1. [SafeStep]_vars =>
          [\A t \in DOMAIN tokens :
             t \in DOMAIN tokens' /\ tokens'[t].data = tokens[t].data]_vars
    BY DEF SafeStep, KeepsKitties
  <1> QED
    BY <1>1, Safety, NextSafe, PTL DEF Spec, KittiesAreForever

\* A price never outlives the ownership it was set under, for any number of
\* accounts, kitties and prices.
THEOREM ListingsEndWithOwnership == Spec => NoListingSurvivesOwnerChange
  <1>1. [SafeStep]_vars =>
          [\A t \in DOMAIN tokens : OwnerChanges(t) => t \notin DOMAIN kittyPrices']_vars
    BY DEF SafeStep, Delists
  <1> QED
    BY <1>1, Safety, NextSafe, PTL DEF Spec, NoListingSurvivesOwnerChange

-----------------------------------------------------------------------------
(* Trade: what the properties say of one step *)

\* A kitty leaves its owner with consent or against payment.
Consents ==
  \A t \in DOMAIN tokens : OwnerChanges(t) =>
    LET from == tokens[t].owner
        to   == tokens'[t].owner
    IN  \/ receipt'.origin = from
        \/ /\ receipt'.origin = to
           /\ t \in DOMAIN kittyPrices
           /\ balances'[from] = balances[from] + kittyPrices[t]
           /\ balances'[to] = balances[to] - kittyPrices[t]

\* Who is poorer has signed, and for no less.
Spends ==
  \A a \in Accounts : balances'[a] < balances[a] =>
    /\ receipt'.origin = a
    /\ balances[a] - balances'[a] <= AgreedSpending(receipt'.call, balances[a])

\* What is newly for sale was put there by its owner.
Lists ==
  \A t \in DOMAIN kittyPrices' :
    (t \in DOMAIN kittyPrices /\ kittyPrices[t] = kittyPrices'[t])
      \/ (t \in DOMAIN tokens /\ receipt'.origin = tokens[t].owner)

\* What is born of parents is born lawfully.
Breeds ==
  \A t \in DOMAIN tokens' \ DOMAIN tokens :
    receipt'.call.name \in {"breed", "auto_breed"} =>
      LET p1 == tokens[receipt'.call.k1]
          p2 == tokens[receipt'.call.k2]
      IN  /\ Gender(p1.data) # Gender(p2.data)
          /\ \A i \in Bits : tokens'[t].data[i] \in {p1.data[i], p2.data[i]}
          /\ tokens'[t].owner = p1.owner
          /\ receipt'.origin \in Accounts => receipt'.origin = p1.owner /\ p1.owner = p2.owner

FairStep == Consents /\ Spends /\ Lists /\ Breeds

-----------------------------------------------------------------------------
(* Trade: operators *)

\* What a receipt says of the call it belongs to.
LEMMA ReceiptSays ==
  ASSUME NEW origin, NEW call, NEW result, NEW event, Dispatched(origin, call, result, event)
  PROVE  /\ receipt'.origin = origin
         /\ receipt'.result = result
         /\ receipt'.call.name = call.name
         /\ result = Ok => receipt'.call = call /\ receipt'.event = event
         /\ result # Ok => receipt'.event = NoEvent
  BY DEF Dispatched

\* Every bit of combined DNA is the bit of a parent.
LEMMA CombineDnaInherits ==
  ASSUME NEW dna1 \in Dna, NEW dna2 \in Dna, NEW selector \in Dna, NEW i \in Bits
  PROVE  CombineDna(dna1, dna2, selector)[i] \in {dna1[i], dna2[i]}
  BY DEF CombineDna, Dna

\* A mint adds one token and leaves the others alone.
LEMMA MintAdds ==
  ASSUME NftInv, MintResult = Ok, NEW o \in Accounts, NEW d \in TokenData, Mint(o, d)
  PROVE  /\ DOMAIN tokens' \ DOMAIN tokens = {nextTokenId}
         /\ DOMAIN tokens' = DOMAIN tokens \cup {nextTokenId}
         /\ \A t \in DOMAIN tokens : tokens'[t] = tokens[t]
         /\ tokens'[nextTokenId] = [owner |-> o, data |-> d]
  <1>1. nextTokenId \notin DOMAIN tokens
    BY MaxTokenIdAssumption DEF NftInv, TokenIds
  <1>2. tokens' = Insert(tokens, nextTokenId, [owner |-> o, data |-> d])
    BY DEF Mint
  <1> QED
    BY <1>1, <1>2, MintStep DEF Insert

-----------------------------------------------------------------------------
(* Trade: every call is fair *)

\* A step that moves neither money nor kitties, and changes no price.
LEMMA NothingTraded ==
  ASSUME IInv, UNCHANGED <<balances, kittyPrices>>,
         \A t \in DOMAIN tokens : tokens'[t] = tokens[t]
  PROVE  Consents /\ Spends /\ Lists
  <1>1. Consents
    BY DEF Consents, OwnerChanges
  <1>2. Spends
    BY DEF Spends, IInv, BalanceInv
  <1>3. Lists
    BY DEF Lists
  <1> QED
    BY <1>1, <1>2, <1>3

\* A step in which no kitty is born.
LEMMA NothingBorn ==
  ASSUME DOMAIN tokens' = DOMAIN tokens
  PROVE  Breeds
  BY DEF Breeds

\* A call that only leaves a receipt is fair.
LEMMA ReceiptOnly ==
  ASSUME IInv, UNCHANGED <<nftVars, balances, kittyPrices>>
  PROVE  FairStep
  <1>1. UNCHANGED tokens
    BY DEF nftVars
  <1> QED
    BY <1>1, NothingTraded, NothingBorn DEF FairStep

\* create is fair.
LEMMA CreateFair ==
  ASSUME IInv, NEW o \in DispatchOrigins, NEW d \in RandomValue, Create(o, d)
  PROVE  FairStep
  <1>1. CASE ~(o \in Accounts /\ MintResult = Ok)
    BY <1>1, ReceiptOnly DEF Create, balanceVars, Ok
  <1>2. CASE o \in Accounts /\ MintResult = Ok
    <2>1. Mint(o, d) /\ d \in TokenData /\ NftInv
      BY <1>2, KittiesAssumption DEF Create, RandomValue, IInv
    <2>2. \A t \in DOMAIN tokens : tokens'[t] = tokens[t]
      BY <1>2, <2>1, MintAdds
    <2>3. receipt'.call.name = "create"
      BY ReceiptSays DEF Create
    <2>4. Breeds
      BY <2>3 DEF Breeds
    <2>5. UNCHANGED <<balances, kittyPrices>>
      BY DEF Create, balanceVars
    <2> QED
      BY <2>2, <2>4, <2>5, NothingTraded DEF FairStep
  <1> QED
    BY <1>1, <1>2

\* do_breed is fair when its callers have looked at both parents.
LEMMA DoBreedFair ==
  ASSUME IInv, NEW o, NEW call, NEW result, NEW k1, NEW k2, NEW s \in Dna,
         call.k1 = k1, call.k2 = k2,
         result = Ok =>
           /\ DoBreedResult(tokens[k1].data, tokens[k2].data) = Ok
           /\ k1 \in DOMAIN tokens /\ k2 \in DOMAIN tokens
           /\ o \in Accounts => o = tokens[k1].owner /\ tokens[k1].owner = tokens[k2].owner,
         DoBreed(o, call, result, tokens[k1].owner, tokens[k1].data, tokens[k2].data, s)
  PROVE  FairStep
  <1>1. CASE result # Ok
    BY <1>1, ReceiptOnly DEF DoBreed, balanceVars
  <1>2. CASE result = Ok
    <2> DEFINE d1 == tokens[k1].data
               d2 == tokens[k2].data
               child == CombineDna(d1, d2, s)
               w == tokens[k1].owner
    <2>1. Gender(d1) # Gender(d2) /\ MintResult = Ok
      BY <1>2 DEF DoBreedResult, Ok
    <2>2. tokens[k1] \in [owner : Accounts, data : Dna] /\ tokens[k2] \in [owner : Accounts, data : Dna]
      BY <1>2, KittiesAssumption DEF IInv, NftInv, TokenInfo
    <2>3. w \in Accounts /\ d1 \in Dna /\ d2 \in Dna
      BY <2>2
    <2>4. child \in TokenData
      BY CombineDnaType, KittiesAssumption
    <2>5. Mint(w, child) /\ UNCHANGED <<balances, kittyPrices>>
      BY <1>2 DEF DoBreed, balanceVars
    <2>6. receipt'.origin = o /\ receipt'.call = call
      BY <1>2, ReceiptSays DEF DoBreed
    <2>7. \A i \in Bits : child[i] \in {d1[i], d2[i]}
      BY <2>3, CombineDnaInherits
    <2> HIDE DEF child, w
    <2>8. /\ DOMAIN tokens' \ DOMAIN tokens = {nextTokenId}
          /\ \A t \in DOMAIN tokens : tokens'[t] = tokens[t]
          /\ tokens'[nextTokenId] = [owner |-> w, data |-> child]
      BY <2>1, <2>3, <2>4, <2>5, MintAdds DEF IInv
    <2>9. tokens'[nextTokenId].owner = w /\ tokens'[nextTokenId].data = child
      BY <2>8
    <2>10. Breeds
      BY <1>2, <2>1, <2>6, <2>7, <2>8, <2>9 DEF Breeds, w
    <2> QED
      BY <2>5, <2>8, <2>10, NothingTraded DEF FairStep
  <1> QED
    BY <1>1, <1>2

\* breed is fair.
LEMMA BreedFair ==
  ASSUME IInv, NEW o \in DispatchOrigins, NEW k1, NEW k2, NEW s \in RandomValue, Breed(o, k1, k2, s)
  PROVE  FairStep
  <1> DEFINE call == [name |-> "breed", k1 |-> k1, k2 |-> k2]
             result == BreedResult(o, k1, k2)
  <1>1. CASE result # Ok
    BY <1>1, ReceiptOnly DEF Breed, DoBreed, balanceVars
  <1>2. CASE result = Ok
    <2>1. /\ OwnedKitty(o, k1) /\ OwnedKitty(o, k2)
          /\ DoBreedResult(tokens[k1].data, tokens[k2].data) = Ok
      BY <1>2 DEF BreedResult, Ok
    <2>2. tokens[k1].owner = o /\ tokens[k2].owner = o /\ k1 \in DOMAIN tokens /\ k2 \in DOMAIN tokens
      BY <2>1 DEF OwnedKitty
    <2>3. DoBreed(o, call, result, tokens[k1].owner, tokens[k1].data, tokens[k2].data, s)
      BY <2>2 DEF Breed
    <2>4. call.k1 = k1 /\ call.k2 = k2 /\ s \in Dna
      BY DEF RandomValue
    <2> HIDE DEF call, result
    <2> QED
      BY <2>1, <2>2, <2>3, <2>4, DoBreedFair
  <1> QED
    BY <1>1, <1>2

\* auto_breed is fair, refused or not.
LEMMA AutoBreedFair ==
  ASSUME IInv, NEW o, NEW k1, NEW k2, NEW n, NEW x, NEW s \in Dna, AutoBreed(o, k1, k2, n, x, s)
  PROVE  FairStep
  <1> DEFINE call == [name |-> "auto_breed", k1 |-> k1, k2 |-> k2, nonce |-> n, solution |-> x]
             result == AutoBreedResult(o, k1, k2)
  <1>1. ASSUME result = Ok
        PROVE  /\ DoBreedResult(tokens[k1].data, tokens[k2].data) = Ok
               /\ k1 \in DOMAIN tokens /\ k2 \in DOMAIN tokens
               /\ o \notin Accounts
    BY <1>1, OriginAssumption DEF AutoBreedResult, Ok
  <1>2. DoBreed(o, call, result, tokens[k1].owner, tokens[k1].data, tokens[k2].data, s)
    BY DEF AutoBreed
  <1>3. call.k1 = k1 /\ call.k2 = k2
    OBVIOUS
  <1> HIDE DEF call, result
  <1> QED
    BY <1>1, <1>2, <1>3, DoBreedFair

\* transfer is fair: only the owner can give a kitty away.
LEMMA TransferFair ==
  ASSUME IInv, NEW o \in DispatchOrigins, NEW to \in Accounts, NEW k, Transfer(o, to, k)
  PROVE  FairStep
  <1>1. CASE ~(o \in Accounts /\ NftTransferResult(o, k) = Ok)
    BY <1>1, ReceiptOnly DEF Transfer, balanceVars, Ok
  <1>2. CASE o \in Accounts /\ NftTransferResult(o, k) = Ok
    <2>1. receipt'.origin = o
      BY ReceiptSays DEF Transfer
    <2>2. NftTransfer(o, to, k) /\ UNCHANGED balances
      BY <1>2 DEF Transfer, balanceVars
    <2>3. /\ DOMAIN tokens' = DOMAIN tokens
          /\ \A t \in DOMAIN tokens : t # k => tokens'[t] = tokens[t]
          /\ tokens[k].owner = o
      <3>1. NftInv /\ NftTransferResult(o, k) = Ok /\ NftTransfer(o, to, k)
        BY <1>2, <2>2 DEF IInv
      <3> QED
        BY <3>1, MoveStep
    <2>4. Consents
      BY <2>1, <2>3 DEF Consents, OwnerChanges
    <2>5. Spends
      BY <2>2 DEF Spends, IInv, BalanceInv
    <2>6. Lists
      BY <1>2 DEF Lists, Transfer, PricesAfterGift, Remove
    <2> QED
      BY <2>3, <2>4, <2>5, <2>6, NothingBorn DEF FairStep
  <1> QED
    BY <1>1, <1>2

\* set_price is fair: the index of owners it asks is right.
LEMMA SetPriceFair ==
  ASSUME IInv, NEW o \in DispatchOrigins, NEW k, NEW p \in Prices \cup {NoPrice}, SetPrice(o, k, p)
  PROVE  FairStep
  <1>1. CASE SetPriceResult(o, k) # Ok
    BY <1>1, ReceiptOnly DEF SetPrice, balanceVars
  <1>2. CASE SetPriceResult(o, k) = Ok
    <2>1. receipt'.origin = o
      BY ReceiptSays DEF SetPrice
    <2>2. UNCHANGED <<tokens, balances>>
      BY DEF SetPrice, nftVars, balanceVars
    <2>3. k \in DOMAIN tokens /\ tokens[k].owner = o
      BY <1>2 DEF SetPriceResult, Ok, IInv, NftInv, OwnerIndexAgrees
    <2>4. Consents
      BY <2>2 DEF Consents, OwnerChanges
    <2>5. Spends
      BY <2>2 DEF Spends, IInv, BalanceInv
    <2>6. Lists
      BY <1>2, <2>1, <2>3 DEF Lists, SetPrice, Insert, Remove
    <2> QED
      BY <2>2, <2>4, <2>5, <2>6, NothingBorn DEF FairStep
  <1> QED
    BY <1>1, <1>2

\* A purchase takes the price from the buyer and gives it to the owner; neither
\* account is reaped.
LEMMA PurchasePays ==
  ASSUME BalanceInv, NEW from \in Accounts, NEW to \in Accounts, from # to, NEW value \in Nat,
         CurrencyTransferResult(from, to, value, TRUE) = Ok, CurrencyTransfer(from, to, value)
  PROVE  /\ balances[from] >= value
         /\ balances' = [balances EXCEPT ![from] = @ - value, ![to] = @ + value]
  <1>1. balances \in [Accounts -> Nat]
    BY DEF BalanceInv
  <1>2. CASE value = 0
    <2>1. balances' = balances
      BY <1>2 DEF CurrencyTransfer, balanceVars
    <2>2. balances[from] - 0 = balances[from] /\ balances[to] + 0 = balances[to]
      BY <1>1
    <2> QED
      BY <1>1, <1>2, <2>1, <2>2
  <1>3. CASE value # 0
    <2>1. balances[from] >= value /\ balances[from] - value >= ExistentialDeposit
      BY <1>1, <1>3, ExistentialDepositAssumption DEF CurrencyTransferResult, Ok
    <2>2. Reaped(balances[from] - value) = balances[from] - value
      BY <1>1, <2>1, ExistentialDepositAssumption DEF Reaped
    <2> QED
      BY <1>3, <2>1, <2>2 DEF CurrencyTransfer
  <1> QED
    BY <1>2, <1>3

\* buy is fair.
LEMMA BuyFair ==
  ASSUME IInv, NEW o \in DispatchOrigins, NEW owner \in Accounts, NEW k, NEW m \in Prices,
         Buy(o, owner, k, m)
  PROVE  FairStep
  <1>1. CASE BuyResult(o, owner, k, m) # Ok
    BY <1>1, ReceiptOnly DEF Buy, KittyMoves, balanceVars
  <1>2. CASE BuyResult(o, owner, k, m) = Ok
    <2>1. /\ o \in Accounts /\ o # owner
          /\ k \in DOMAIN kittyPrices
          /\ m >= kittyPrices[k]
          /\ NftTransferResult(owner, k) = Ok
          /\ CurrencyTransferResult(o, owner, kittyPrices[k], TRUE) = Ok
      BY <1>2 DEF BuyResult, PaymentResult, PriceAccepted, Ok
    <2>2. kittyPrices[k] \in Nat /\ m \in Nat
      BY <2>1, KittiesAssumption DEF IInv, PriceInv
    <2>3. /\ NftTransfer(owner, o, k)
          /\ CurrencyTransfer(o, owner, kittyPrices[k])
          /\ kittyPrices' = Remove(kittyPrices, k)
      BY <1>2 DEF Buy, KittyMoves
    <2>4. /\ receipt'.origin = o
          /\ receipt'.call = [name |-> "buy", owner |-> owner, id |-> k, max_price |-> m]
      BY <1>2, ReceiptSays DEF Buy
    <2>5. /\ DOMAIN tokens' = DOMAIN tokens
          /\ \A t \in DOMAIN tokens : t # k => tokens'[t] = tokens[t]
          /\ tokens[k].owner = owner /\ tokens'[k].owner = o
      <3>1. NftInv /\ o \in Accounts
        BY <2>1 DEF IInv
      <3>2. NftTransferResult(owner, k) = Ok /\ NftTransfer(owner, o, k)
        BY <2>1, <2>3
      <3> QED
        BY <3>1, <3>2, MoveStep
    <2>6. balances \in [Accounts -> Nat]
      BY DEF IInv, BalanceInv
    <2>7. balances' = [balances EXCEPT ![o] = @ - kittyPrices[k], ![owner] = @ + kittyPrices[k]]
      BY <2>1, <2>2, <2>3, PurchasePays DEF IInv
    <2>8. /\ balances'[owner] = balances[owner] + kittyPrices[k]
          /\ balances'[o] = balances[o] - kittyPrices[k]
          /\ \A a \in Accounts : a \notin {o, owner} => balances'[a] = balances[a]
      BY <2>1, <2>6, <2>7
    <2>9. Consents
      BY <2>1, <2>4, <2>5, <2>8 DEF Consents, OwnerChanges
    <2>10. AgreedSpending(receipt'.call, balances[o]) = m
      BY <2>4 DEF AgreedSpending
    <2>11. Spends
      BY <2>1, <2>2, <2>4, <2>6, <2>8, <2>10 DEF Spends
    <2>12. Lists
      BY <2>3 DEF Lists, Remove
    <2> QED
      BY <2>5, <2>9, <2>11, <2>12, NothingBorn DEF FairStep
  <1> QED
    BY <1>1, <1>2

\* A transfer of money is fair: with keep_alive it costs no more than the value,
\* without it at most everything.
LEMMA BalancesTransferFair ==
  ASSUME IInv, NEW o \in DispatchOrigins, NEW to \in Accounts, NEW v \in Prices,
         NEW keepAlive \in BOOLEAN, BalancesTransfer(o, to, v, keepAlive)
  PROVE  FairStep
  <1>1. CASE ~(o \in Accounts /\ CurrencyTransferResult(o, to, v, keepAlive) = Ok)
    BY <1>1, ReceiptOnly DEF BalancesTransfer, balanceVars, Ok
  <1>2. CASE o \in Accounts /\ CurrencyTransferResult(o, to, v, keepAlive) = Ok
    <2>1. CurrencyTransfer(o, to, v) /\ v \in Nat
      BY <1>2, KittiesAssumption DEF BalancesTransfer
    <2>2. UNCHANGED <<tokens, kittyPrices>>
      BY DEF BalancesTransfer, nftVars
    <2>3. CASE v = 0 \/ o = to
      <3>1. UNCHANGED balances
        BY <2>1, <2>3 DEF CurrencyTransfer, balanceVars
      <3> QED
        BY <2>2, <3>1, NothingTraded, NothingBorn DEF FairStep
    <2>4. CASE ~(v = 0 \/ o = to)
      <3>1. balances \in [Accounts -> Nat]
        BY DEF IInv, BalanceInv
      <3>2. /\ balances[o] >= v
            /\ keepAlive => balances[o] - v >= ExistentialDeposit
        BY <1>2, <2>1, <2>4, <3>1, ExistentialDepositAssumption DEF CurrencyTransferResult, Ok
      <3> DEFINE rest == Reaped(balances[o] - v)
                 call == [name |-> "balances_transfer", value |-> v, keep_alive |-> keepAlive]
      <3>3. /\ rest \in Nat /\ rest <= balances[o]
            /\ keepAlive => rest = balances[o] - v
        BY <1>2, <2>1, <3>1, <3>2, ExistentialDepositAssumption DEF Reaped
      <3>4. receipt'.origin = o /\ receipt'.call = call
        BY <1>2, ReceiptSays DEF BalancesTransfer
      <3>5. balances' = [balances EXCEPT ![o] = rest, ![to] = @ + v]
        BY <2>1, <2>4 DEF CurrencyTransfer
      <3> HIDE DEF rest
      <3>6. /\ balances'[o] = rest
            /\ balances'[to] = balances[to] + v
            /\ \A a \in Accounts : a \notin {o, to} => balances'[a] = balances[a]
        <4>1. o # to /\ o \in Accounts
          BY <1>2, <2>4
        <4> QED
          BY <3>1, <3>5, <4>1
      <3>7. AgreedSpending(call, balances[o]) = IF keepAlive THEN v ELSE balances[o]
        BY DEF AgreedSpending
      <3>8. Spends
        <4> SUFFICES ASSUME NEW a \in Accounts, balances'[a] < balances[a]
                     PROVE  /\ receipt'.origin = a
                            /\ balances[a] - balances'[a] <= AgreedSpending(receipt'.call, balances[a])
          BY DEF Spends
        <4>1. a = o
          BY <2>1, <3>1, <3>6
        <4>2. balances[o] - rest <= IF keepAlive THEN v ELSE balances[o]
          BY <1>2, <2>1, <3>1, <3>2, <3>3
        <4> QED
          BY <3>4, <3>6, <3>7, <4>1, <4>2
      <3>9. Consents /\ Lists
        BY <2>2 DEF Consents, OwnerChanges, Lists
      <3> QED
        BY <2>2, <3>8, <3>9, NothingBorn DEF FairStep
    <2> QED
      BY <2>3, <2>4
  <1> QED
    BY <1>1, <1>2

\* Every extrinsic is fair.
LEMMA NextFair == IInv /\ [Next]_vars => [FairStep]_vars
  <1> SUFFICES ASSUME IInv, Next PROVE FairStep
    OBVIOUS
  <1>1. ASSUME NEW o \in DispatchOrigins, NEW d \in RandomValue, Create(o, d)
        PROVE  FairStep
    BY <1>1, CreateFair
  <1>2. ASSUME NEW o \in DispatchOrigins, NEW k1 \in TokenIds, NEW k2 \in TokenIds,
               NEW s \in RandomValue, Breed(o, k1, k2, s)
        PROVE  FairStep
    BY <1>2, BreedFair
  <1>3. ASSUME NEW o \in DispatchOrigins, NEW to \in Accounts, NEW k \in TokenIds,
               Transfer(o, to, k)
        PROVE  FairStep
    BY <1>3, TransferFair
  <1>4. ASSUME NEW o \in DispatchOrigins, NEW k \in TokenIds, NEW p \in Prices \cup {NoPrice},
               SetPrice(o, k, p)
        PROVE  FairStep
    BY <1>4, SetPriceFair
  <1>5. ASSUME NEW o \in DispatchOrigins, NEW w \in Accounts, NEW k \in TokenIds,
               NEW m \in Prices, Buy(o, w, k, m)
        PROVE  FairStep
    BY <1>5, BuyFair
  <1>6. ASSUME NEW o \in DispatchOrigins, NEW k1 \in TokenIds, NEW k2 \in TokenIds,
               NEW n \in 0 .. MaxNonce, NEW x \in Solutions, RefusedAutoBreed(o, k1, k2, n, x)
        PROVE  FairStep
    <2>1. [i \in Bits |-> FALSE] \in Dna
      BY DEF Dna
    <2> QED
      BY <1>6, <2>1, AutoBreedFair DEF RefusedAutoBreed
  <1>7. ASSUME NEW o \in DispatchOrigins, NEW to \in Accounts, NEW v \in Prices,
               NEW ka \in BOOLEAN, BalancesTransfer(o, to, v, ka)
        PROVE  FairStep
    BY <1>7, BalancesTransferFair
  <1>8. ASSUME NEW k1 \in TokenIds, NEW k2 \in TokenIds, NEW n \in 0 .. MaxNonce,
               NEW x \in Solutions, NEW s \in RandomValue, ApplyAutoBreed(k1, k2, n, x, s)
        PROVE  FairStep
    BY <1>8, AutoBreedFair DEF ApplyAutoBreed, RandomValue
  <1> QED
    BY <1>1, <1>2, <1>3, <1>4, <1>5, <1>6, <1>7, <1>8 DEF Next, DispatchNext

-----------------------------------------------------------------------------
(* Trade: theorems *)

\* Nobody loses a kitty without having signed the call, or having been paid the
\* price it asked by the new owner in the same step (transfer, buy): for any number
\* of accounts, kitties and prices, and after any history.
THEOREM ConsentOrSale == Spec => OwnershipMovesByConsentOrSale
  <1>1. [FairStep]_vars => [Consents]_vars
    BY DEF FairStep
  <1> QED
    BY <1>1, Safety, NextFair, PTL DEF Spec, OwnershipMovesByConsentOrSale, Consents

\* Nobody loses money without having signed the call, nor more than the call
\* allows; in particular a purchase never costs more than max_price.
THEOREM AuthorisedSpending == Spec => SpendingIsAuthorised
  <1>1. [FairStep]_vars => [Spends]_vars
    BY DEF FairStep
  <1> QED
    BY <1>1, Safety, NextFair, PTL DEF Spec, SpendingIsAuthorised, Spends

\* Nothing is put up for sale, or its price changed, but by its owner, though
\* set_price never looks at the token itself.
THEOREM OwnersList == Spec => OnlyOwnersList
  <1>1. [FairStep]_vars => [Lists]_vars
    BY DEF FairStep
  <1> QED
    BY <1>1, Safety, NextFair, PTL DEF Spec, OnlyOwnersList, Lists

\* Every kitten of breed and auto_breed has parents of both genders, inherits each
\* bit from one of them and belongs to the owner of the first, for every length of
\* the DNA.
THEOREM LegalBreeding == Spec => BreedingIsLegal
  <1>1. [FairStep]_vars => [Breeds]_vars
    BY DEF FairStep
  <1> QED
    BY <1>1, Safety, NextFair, PTL DEF Spec, BreedingIsLegal, Breeds

-----------------------------------------------------------------------------
(* Marketplace: the mapping *)

\* The owners as the marketplace sees them.
Owners == [t \in DOMAIN tokens |-> tokens[t].owner]

\* Nothing that the marketplace sees has changed.
MarketRests == UNCHANGED <<Owners, kittyPrices, balances>>

MarketStep == Market!Next \/ MarketRests

-----------------------------------------------------------------------------
(* Marketplace: effects *)

\* Tokens that stay where they are belong to whom they belonged.
LEMMA RestsWithReceipt ==
  ASSUME UNCHANGED <<nftVars, balances, kittyPrices>>
  PROVE  MarketStep
  BY DEF MarketStep, MarketRests, Owners, nftVars

\* A mint is a birth.
LEMMA MintIsBorn ==
  ASSUME NftInv, MintResult = Ok, NEW o \in Accounts, NEW d \in TokenData, Mint(o, d),
         UNCHANGED <<balances, kittyPrices>>
  PROVE  MarketStep
  <1> DEFINE k == nextTokenId
  <1>1. /\ DOMAIN tokens' \ DOMAIN tokens = {k}
        /\ DOMAIN tokens' = DOMAIN tokens \cup {k}
        /\ \A t \in DOMAIN tokens : tokens'[t] = tokens[t]
        /\ tokens'[k] = [owner |-> o, data |-> d]
    BY MintAdds
  <1>2. k \in TokenIds
    BY DEF NftInv
  <1> HIDE DEF k
  <1>3. tokens'[k].owner = o /\ k \notin DOMAIN tokens
    BY <1>1
  <1>4. Owners' = [x \in DOMAIN Owners \cup {k} |-> IF x = k THEN o ELSE Owners[x]]
    BY <1>1, <1>3 DEF Owners
  <1>5. Market!Born(k, o)
    BY <1>3, <1>4 DEF Market!Born, Market!Insert, Owners
  <1> QED
    BY <1>2, <1>5 DEF MarketStep, Market!Next

\* A transfer of a token moves it and no other.
LEMMA MoveIsMove ==
  ASSUME NftInv, NEW from, NEW to \in Accounts, NEW k,
         NftTransferResult(from, k) = Ok, NftTransfer(from, to, k)
  PROVE  /\ Owners' = [Owners EXCEPT ![k] = to]
         /\ k \in DOMAIN Owners /\ Owners[k] = from
  <1>0. NftInv /\ NftTransferResult(from, k) = Ok /\ NftTransfer(from, to, k)
    OBVIOUS
  <1>1. /\ DOMAIN tokens' = DOMAIN tokens
        /\ \A t \in DOMAIN tokens : t # k => tokens'[t] = tokens[t]
        /\ k \in DOMAIN tokens /\ tokens[k].owner = from /\ tokens'[k].owner = to
    <2>1. NftInv'
          /\ DOMAIN tokens' = DOMAIN tokens
          /\ (\A t \in DOMAIN tokens : tokens'[t].data = tokens[t].data)
          /\ (\A t \in DOMAIN tokens : t # k => tokens'[t] = tokens[t])
          /\ (k \in DOMAIN tokens /\ tokens[k].owner = from /\ tokens'[k].owner = to)
      BY <1>0, MoveStep
    <2> QED
      BY <2>1
  <1> QED
    BY <1>1 DEF Owners

-----------------------------------------------------------------------------
(* Marketplace: calls *)

\* create is a birth or nothing.
LEMMA CreateRefines ==
  ASSUME IInv, NEW o \in DispatchOrigins, NEW d \in RandomValue, Create(o, d)
  PROVE  MarketStep
  <1>1. UNCHANGED <<balances, kittyPrices>>
    BY DEF Create, balanceVars
  <1>2. CASE ~(o \in Accounts /\ MintResult = Ok)
    BY <1>1, <1>2, RestsWithReceipt DEF Create, Ok
  <1>3. CASE o \in Accounts /\ MintResult = Ok
    <2>1. Mint(o, d) /\ d \in TokenData /\ NftInv
      BY <1>3, KittiesAssumption DEF Create, RandomValue, IInv
    <2> QED
      BY <1>1, <1>3, <2>1, MintIsBorn
  <1> QED
    BY <1>2, <1>3

\* do_breed is a birth or nothing, signed or not.
LEMMA DoBreedRefines ==
  ASSUME IInv, NEW o, NEW call, NEW result, NEW w, NEW d1, NEW d2, NEW s,
         result = Ok => MintResult = Ok /\ w \in Accounts,
         DoBreed(o, call, result, w, d1, d2, s)
  PROVE  MarketStep
  <1>1. UNCHANGED <<balances, kittyPrices>>
    BY DEF DoBreed, balanceVars
  <1>2. CASE result # Ok
    BY <1>1, <1>2, RestsWithReceipt DEF DoBreed
  <1>3. CASE result = Ok
    <2>1. Mint(w, CombineDna(d1, d2, s)) /\ NftInv
      BY <1>3 DEF DoBreed, IInv
    <2>2. CombineDna(d1, d2, s) \in TokenData
      BY CombineDnaType, KittiesAssumption
    <2> QED
      BY <1>1, <1>3, <2>1, <2>2, MintIsBorn
  <1> QED
    BY <1>2, <1>3

\* breed.
LEMMA BreedRefines ==
  ASSUME IInv, NEW o \in DispatchOrigins, NEW k1, NEW k2, NEW s, Breed(o, k1, k2, s)
  PROVE  MarketStep
  <1>1. BreedResult(o, k1, k2) = Ok => MintResult = Ok /\ o \in Accounts
    BY DEF BreedResult, DoBreedResult, Ok
  <1> QED
    BY <1>1, DoBreedRefines DEF Breed

\* auto_breed.
LEMMA AutoBreedRefines ==
  ASSUME IInv, NEW o, NEW k1, NEW k2, NEW n, NEW x, NEW s, AutoBreed(o, k1, k2, n, x, s)
  PROVE  MarketStep
  <1>1. ASSUME AutoBreedResult(o, k1, k2) = Ok
        PROVE  MintResult = Ok /\ tokens[k1].owner \in Accounts
    <2>1. MintResult = Ok /\ k1 \in DOMAIN tokens
      BY <1>1 DEF AutoBreedResult, DoBreedResult, Ok
    <2>2. tokens[k1] \in [owner : Accounts, data : TokenData]
      BY <2>1 DEF IInv, NftInv, TokenInfo
    <2> QED
      BY <2>1, <2>2
  <1> QED
    BY <1>1, DoBreedRefines DEF AutoBreed

\* transfer is a gift, or nothing when it is refused or goes to the owner.
LEMMA TransferRefines ==
  ASSUME IInv, NEW o \in DispatchOrigins, NEW to \in Accounts, NEW k, Transfer(o, to, k)
  PROVE  MarketStep
  <1>1. UNCHANGED balances
    BY DEF Transfer, balanceVars
  <1>2. CASE ~(o \in Accounts /\ NftTransferResult(o, k) = Ok)
    BY <1>1, <1>2, RestsWithReceipt DEF Transfer, Ok
  <1>3. CASE o \in Accounts /\ NftTransferResult(o, k) = Ok
    <2>1. NftInv /\ NftTransferResult(o, k) = Ok /\ NftTransfer(o, to, k)
      BY <1>3 DEF Transfer, IInv
    <2>2. /\ Owners' = [Owners EXCEPT ![k] = to]
          /\ k \in DOMAIN Owners /\ Owners[k] = o
      BY <2>1, MoveIsMove
    <2>3. CASE o = to
      <3>1. UNCHANGED kittyPrices
        BY <1>3, <2>3 DEF Transfer, PricesAfterGift
      <3>2. UNCHANGED Owners
        BY <2>2, <2>3 DEF Owners
      <3> QED
        BY <1>1, <3>1, <3>2 DEF MarketStep, MarketRests
    <2>4. CASE o # to
      <3>1. kittyPrices' = [x \in DOMAIN kittyPrices \ {k} |-> kittyPrices[x]]
        BY <1>3, <2>4 DEF Transfer, PricesAfterGift, Remove
      <3>2. Market!Give(k, to)
        BY <1>1, <2>2, <3>1 DEF Market!Give, Market!Remove, Owners
      <3> QED
        BY <2>2, <3>2 DEF MarketStep, Market!Next, Owners
    <2> QED
      BY <2>3, <2>4
  <1> QED
    BY <1>2, <1>3

\* set_price is an offer, or nothing when it is refused.
LEMMA SetPriceRefines ==
  ASSUME IInv, NEW o \in DispatchOrigins, NEW k, NEW p \in Prices \cup {NoPrice}, SetPrice(o, k, p)
  PROVE  MarketStep
  <1>1. UNCHANGED <<nftVars, balances, Owners>>
    BY DEF SetPrice, nftVars, balanceVars, Owners
  <1>2. CASE SetPriceResult(o, k) # Ok
    BY <1>1, <1>2, RestsWithReceipt DEF SetPrice
  <1>3. CASE SetPriceResult(o, k) = Ok
    <2>1. k \in DOMAIN tokens
      BY <1>3 DEF SetPriceResult, Ok, IInv, NftInv, OwnerIndexAgrees
    <2>2. Market!Offer(k)
      BY <1>1, <1>3 DEF Market!Offer, Market!Insert, Market!Remove, Owners, SetPrice, Insert, Remove
    <2> QED
      BY <2>1, <2>2 DEF MarketStep, Market!Next
  <1> QED
    BY <1>2, <1>3

\* buy is a trade, or nothing when one of its checks or the payment fails.
LEMMA BuyRefines ==
  ASSUME IInv, NEW o \in DispatchOrigins, NEW w \in Accounts, NEW k, NEW m \in Prices,
         Buy(o, w, k, m)
  PROVE  MarketStep
  <1>1. CASE BuyResult(o, w, k, m) # Ok
    BY <1>1, RestsWithReceipt DEF Buy, KittyMoves, balanceVars
  <1>2. CASE BuyResult(o, w, k, m) = Ok
    <2>1. /\ o \in Accounts /\ o # w
          /\ k \in DOMAIN kittyPrices
          /\ NftTransferResult(w, k) = Ok
          /\ CurrencyTransferResult(o, w, kittyPrices[k], TRUE) = Ok
      BY <1>2 DEF BuyResult, PaymentResult, Ok
    <2>2. kittyPrices[k] \in Nat
      BY <2>1, KittiesAssumption DEF IInv, PriceInv
    <2>3. /\ NftTransfer(w, o, k)
          /\ CurrencyTransfer(o, w, kittyPrices[k])
          /\ kittyPrices' = [x \in DOMAIN kittyPrices \ {k} |-> kittyPrices[x]]
      BY <1>2 DEF Buy, KittyMoves, Remove
    <2>4. /\ Owners' = [Owners EXCEPT ![k] = o]
          /\ k \in DOMAIN Owners /\ Owners[k] = w
      <3>1. NftInv /\ NftTransferResult(w, k) = Ok /\ NftTransfer(w, o, k)
        BY <2>1, <2>3 DEF IInv
      <3> QED
        BY <2>1, <3>1, MoveIsMove
    <2>5. /\ balances[o] >= kittyPrices[k]
          /\ balances' = [balances EXCEPT ![o] = @ - kittyPrices[k], ![w] = @ + kittyPrices[k]]
      BY <2>1, <2>2, <2>3, PurchasePays DEF IInv
    <2>6. Market!Trade(k, o)
      BY <2>1, <2>3, <2>4, <2>5 DEF Market!Trade, Market!Remove, Owners
    <2> QED
      BY <2>1, <2>4, <2>6 DEF MarketStep, Market!Next, Owners
  <1> QED
    BY <1>1, <1>2

\* A transfer of money has nothing to do with kitties.
LEMMA BalancesTransferRefines ==
  ASSUME IInv, IInv', NEW o, NEW to, NEW v, NEW keepAlive, BalancesTransfer(o, to, v, keepAlive)
  PROVE  MarketStep
  <1>1. UNCHANGED <<Owners, kittyPrices>>
    BY DEF BalancesTransfer, nftVars, Owners
  <1>2. balances' \in [Accounts -> Nat]
    BY DEF IInv, BalanceInv
  <1>3. Market!Spend
    BY <1>1, <1>2 DEF Market!Spend, Owners
  <1> QED
    BY <1>3 DEF MarketStep, Market!Next

\* Every extrinsic is a step of the marketplace.
LEMMA NextRefines == IInv /\ IInv' /\ [Next]_vars => [Market!Next]_Market!marketVars
  <1> SUFFICES ASSUME IInv, IInv', [Next]_vars PROVE MarketStep
    BY DEF MarketStep, MarketRests, Market!marketVars, Owners
  <1>1. CASE UNCHANGED vars
    BY <1>1, RestsWithReceipt DEF vars, balanceVars
  <1>2. ASSUME NEW o \in DispatchOrigins, NEW d \in RandomValue, Create(o, d)
        PROVE  MarketStep
    BY <1>2, CreateRefines
  <1>3. ASSUME NEW o \in DispatchOrigins, NEW k1 \in TokenIds, NEW k2 \in TokenIds,
               NEW s \in RandomValue, Breed(o, k1, k2, s)
        PROVE  MarketStep
    BY <1>3, BreedRefines
  <1>4. ASSUME NEW o \in DispatchOrigins, NEW to \in Accounts, NEW k \in TokenIds,
               Transfer(o, to, k)
        PROVE  MarketStep
    BY <1>4, TransferRefines
  <1>5. ASSUME NEW o \in DispatchOrigins, NEW k \in TokenIds, NEW p \in Prices \cup {NoPrice},
               SetPrice(o, k, p)
        PROVE  MarketStep
    BY <1>5, SetPriceRefines
  <1>6. ASSUME NEW o \in DispatchOrigins, NEW w \in Accounts, NEW k \in TokenIds,
               NEW m \in Prices, Buy(o, w, k, m)
        PROVE  MarketStep
    BY <1>6, BuyRefines
  <1>7. ASSUME NEW o \in DispatchOrigins, NEW k1 \in TokenIds, NEW k2 \in TokenIds,
               NEW n \in 0 .. MaxNonce, NEW x \in Solutions, RefusedAutoBreed(o, k1, k2, n, x)
        PROVE  MarketStep
    BY <1>7, AutoBreedRefines DEF RefusedAutoBreed
  <1>8. ASSUME NEW o \in DispatchOrigins, NEW to \in Accounts, NEW v \in Prices,
               NEW ka \in BOOLEAN, BalancesTransfer(o, to, v, ka)
        PROVE  MarketStep
    BY <1>8, BalancesTransferRefines
  <1>9. ASSUME NEW k1 \in TokenIds, NEW k2 \in TokenIds, NEW n \in 0 .. MaxNonce,
               NEW x \in Solutions, NEW s \in RandomValue, ApplyAutoBreed(k1, k2, n, x, s)
        PROVE  MarketStep
    BY <1>9, AutoBreedRefines DEF ApplyAutoBreed
  <1> QED
    BY <1>1, <1>2, <1>3, <1>4, <1>5, <1>6, <1>7, <1>8, <1>9 DEF Next, DispatchNext

-----------------------------------------------------------------------------
(* Marketplace: theorem *)

\* The pallet implements the marketplace: whatever sequence of extrinsics is
\* applied, traders see births, gifts, offers and paid trades, and a failing call
\* shows them nothing.
THEOREM PalletIsMarketplace == Spec => ImplementsMarketplace
  <1>1. Init => Market!Init
    BY InitialBalancesAssumption DEF Init, NftInit, BalancesInit, Market!Init
  <1> QED
    BY <1>1, Safety, NextRefines, PTL DEF Spec, ImplementsMarketplace, Market!Spec

=============================================================================
