------------------------------ MODULE Kitties -------------------------------
(***************************************************************************)
(* The kitties pallet, pallets/kitties/src/lib.rs: one action per          *)
(* dispatchable.  A step is one extrinsic applied to the chain, which is   *)
(* how the runtime executes them (Executive::apply_extrinsic); the step    *)
(* leaves behind a receipt with the call, its result and the event it      *)
(* deposited.                                                              *)
(*                                                                         *)
(* This version of FRAME does not roll storage back when a dispatchable    *)
(* returns an error, except where the call is marked #[transactional].     *)
(***************************************************************************)
EXTENDS OrmlNft, Balances, KittyDna

CONSTANTS
  Prices,              \* BalanceOf<T> values that are asked, capped or moved
  NoPrice,             \* None of Option<BalanceOf<T>>
  MaxNonce,            \* u32::MAX, the largest auto_breed nonce
  Solutions,           \* u128 values tried as proof of work
  HashMax,             \* u128::MAX
  HashOf(_, _, _, _),  \* blake2_128 of (kitty_id_1, kitty_id_2, nonce, solution)
  DefaultDifficulty    \* T::DefaultDifficulty

ASSUME KittiesAssumption ==
  /\ TokenData = Dna
  /\ Prices \subseteq Nat
  /\ NoPrice \notin Nat
  /\ MaxNonce \in Nat
  /\ HashMax \in Nat
  /\ DefaultDifficulty \in Nat \ {0}

VARIABLES
  kittyPrices,     \* KittyPrices: token id -> asked price
  autoBreedNonce,  \* AutoBreedNonce
  receipt          \* the last extrinsic applied: [origin, call, result, event]

vars == <<nftVars, balanceVars, kittyPrices, autoBreedNonce, receipt>>

-----------------------------------------------------------------------------
(* Kitty *)

\* The values random_value may return: a hash of seed, sender and index.
RandomValue == Dna

\* fn kitties: the kitty exists and belongs to the account.
OwnedKitty(owner, k) == k \in DOMAIN tokens /\ tokens[k].owner = owner

-----------------------------------------------------------------------------
(* Receipts and events *)

NoEvent == [name |-> "None"]

KittyEvent(name, owner, k, dna) ==
  [name |-> name, owner |-> owner, id |-> k, kitty |-> dna]

\* deposit_event is the last thing a call does.  A failed call deposits none,
\* and its receipt keeps only its name.
Dispatched(origin, call, result, event) ==
  receipt' = IF result = Ok
             THEN [origin |-> origin, call |-> call, result |-> Ok, event |-> event]
             ELSE [origin |-> origin, call |-> [name |-> call.name], result |-> result,
                   event  |-> NoEvent]

-----------------------------------------------------------------------------
(* Genesis *)

\* GenesisConfig::build creates the class; no kitty exists yet.
Init ==
  /\ NftInit
  /\ BalancesInit
  /\ kittyPrices = [t \in {} |-> 0]
  /\ autoBreedNonce = 0
  /\ receipt = [origin |-> RootOrigin, call |-> [name |-> "genesis"],
                result |-> Ok, event |-> NoEvent]

-----------------------------------------------------------------------------
(* Dispatchables *)

\* create: a kitty with random DNA for the signer.
Create(origin, dna) ==
  LET result == IF origin \notin Accounts THEN "BadOrigin" ELSE MintResult
  IN  /\ IF result = Ok THEN Mint(origin, dna) ELSE UNCHANGED nftVars
      /\ Dispatched(origin, [name |-> "create"], result,
                    KittyEvent("KittyCreated", origin, nextTokenId, dna))
      /\ UNCHANGED <<balanceVars, kittyPrices, autoBreedNonce>>

\* Fault: the genders of the parents are not compared.
DoBreedResultAnyGender(dna1, dna2) == MintResult

\* The checks of do_breed.
DoBreedResult(dna1, dna2) ==
  IF Gender(dna1) = Gender(dna2) THEN "SameGender" ELSE MintResult

\* do_breed, given the result of the checks before it: a new kitty of owner.
DoBreed(origin, call, result, owner, dna1, dna2, selector) ==
  LET child == CombineDna(dna1, dna2, selector)
  IN  /\ IF result = Ok THEN Mint(owner, child) ELSE UNCHANGED nftVars
      /\ Dispatched(origin, call, result,
                    KittyEvent("KittyBred", owner, nextTokenId, child))
      /\ UNCHANGED <<balanceVars, kittyPrices>>

BreedResult(origin, k1, k2) ==
  IF origin \notin Accounts THEN "BadOrigin"
  ELSE IF ~OwnedKitty(origin, k1) \/ ~OwnedKitty(origin, k2) THEN "InvalidKittyId"
  ELSE DoBreedResult(tokens[k1].data, tokens[k2].data)

\* breed: the signer's two kitties of opposite gender have a kitten.
Breed(origin, k1, k2, selector) ==
  /\ DoBreed(origin, [name |-> "breed", k1 |-> k1, k2 |-> k2],
             BreedResult(origin, k1, k2),
             origin, tokens[k1].data, tokens[k2].data, selector)
  /\ UNCHANGED autoBreedNonce

\* Fault: the price stays when the kitty is given away.
PricesAfterGiftKept(from, to, k) == kittyPrices

\* Fault: the price goes before sender and receiver are compared, so a
\* transfer to oneself delists the kitty without an event.
PricesAfterGiftDropped(from, to, k) == Remove(kittyPrices, k)

\* A kitty that reached another account is off the market.
PricesAfterGift(from, to, k) == IF from = to THEN kittyPrices ELSE Remove(kittyPrices, k)

\* transfer: the signer gives a kitty away, which also takes it off the market.
Transfer(origin, to, k) ==
  LET result == IF origin \notin Accounts THEN "BadOrigin"
                ELSE NftTransferResult(origin, k)
  IN  /\ IF result = Ok
         THEN NftTransfer(origin, to, k) /\ kittyPrices' = PricesAfterGift(origin, to, k)
         ELSE UNCHANGED <<nftVars, kittyPrices>>
      /\ Dispatched(origin, [name |-> "transfer", to |-> to, id |-> k], result,
                    IF origin # to
                    THEN [name |-> "KittyTransferred", from |-> origin, to |-> to, id |-> k]
                    ELSE NoEvent)
      /\ UNCHANGED <<balanceVars, autoBreedNonce>>

\* Fault: the caller need not own the kitty.
SetPriceResultAnyone(origin, k) == IF origin \notin Accounts THEN "BadOrigin" ELSE Ok

\* set_price asks TokensByOwner for the owner.
SetPriceResult(origin, k) ==
  IF origin \notin Accounts THEN "BadOrigin"
  ELSE IF <<origin, k>> \notin tokensByOwner THEN "NotOwner"
  ELSE Ok

\* set_price: the owner lists or delists a kitty.
SetPrice(origin, k, newPrice) ==
  LET result == SetPriceResult(origin, k)
  IN  /\ kittyPrices' = IF result # Ok THEN kittyPrices
                        ELSE IF newPrice = NoPrice THEN Remove(kittyPrices, k)
                        ELSE Insert(kittyPrices, k, newPrice)
      /\ Dispatched(origin, [name |-> "set_price", id |-> k, price |-> newPrice], result,
                    [name  |-> "KittyPriceUpdated", owner |-> origin, id |-> k,
                     price |-> newPrice])
      /\ UNCHANGED <<nftVars, balanceVars, autoBreedNonce>>

\* Fault: max_price is not compared with the price.
PriceAcceptedAlways(maxPrice, price) == TRUE

\* The buyer names the most it will pay.
PriceAccepted(maxPrice, price) == maxPrice >= price

\* Fault: ExistenceRequirement::AllowDeath.
PaymentResultAllowDeath(buyer, owner, price) == CurrencyTransferResult(buyer, owner, price, FALSE)

\* The buyer's account has to survive the payment: KeepAlive.
PaymentResult(buyer, owner, price) == CurrencyTransferResult(buyer, owner, price, TRUE)

\* The checks of buy, up to the payment.
BuyResult(origin, owner, k, maxPrice) ==
  IF origin \notin Accounts THEN "BadOrigin"
  ELSE IF origin = owner THEN "BuyFromSelf"
  ELSE IF k \notin DOMAIN kittyPrices THEN "NotForSale"
  ELSE IF ~PriceAccepted(maxPrice, kittyPrices[k]) THEN "PriceTooLow"
  ELSE IF NftTransferResult(owner, k) # Ok THEN NftTransferResult(owner, k)
  ELSE PaymentResult(origin, owner, kittyPrices[k])

\* Fault: without #[transactional] the kitty stays with a buyer who could not
\* pay; try_mutate_exists itself writes the price only on success.
KittyMovesUnpaid(result) ==
  result \in {Ok, "InsufficientBalance", "ExistentialDeposit", "KeepAlive"}

\* The kitty moves before the payment is tried; #[transactional] undoes that
\* when the payment fails.
KittyMoves(result) == result = Ok

\* buy: the kitty and its price change hands.
Buy(origin, owner, k, maxPrice) ==
  LET result == BuyResult(origin, owner, k, maxPrice)
  IN  /\ IF KittyMoves(result) THEN NftTransfer(owner, origin, k) ELSE UNCHANGED nftVars
      /\ IF result = Ok
         THEN /\ CurrencyTransfer(origin, owner, kittyPrices[k])
              /\ kittyPrices' = Remove(kittyPrices, k)
         ELSE UNCHANGED <<balanceVars, kittyPrices>>
      /\ Dispatched(origin, [name |-> "buy", owner |-> owner, id |-> k, max_price |-> maxPrice],
                    result,
                    [name |-> "KittySold", from |-> owner, to |-> origin, id |-> k,
                     price |-> IF result = Ok THEN kittyPrices[k] ELSE 0])
      /\ UNCHANGED autoBreedNonce

-----------------------------------------------------------------------------
(* Automatic breeding, an unsigned extrinsic with a proof of work *)

\* validate_solution.
ValidateSolution(k1, k2, nonce, solution) ==
  HashOf(k1, k2, nonce, solution) < HashMax \div DefaultDifficulty

\* Fault: a nonce that is still to come is accepted.
ValidateUnsignedEarly(k1, k2, nonce, solution) ==
  ValidateSolution(k1, k2, nonce, solution) /\ nonce >= autoBreedNonce

\* validate_unsigned accepts the call.
ValidateUnsigned(k1, k2, nonce, solution) ==
  ValidateSolution(k1, k2, nonce, solution) /\ nonce = autoBreedNonce

\* The nonce is advanced with saturating_add.
NextNonce(nonce) == IF nonce = MaxNonce THEN MaxNonce ELSE nonce + 1

AutoBreedResult(origin, k1, k2) ==
  IF origin # NoneOrigin THEN "BadOrigin"
  ELSE IF k1 \notin DOMAIN tokens \/ k2 \notin DOMAIN tokens THEN "InvalidKittyId"
  ELSE DoBreedResult(tokens[k1].data, tokens[k2].data)

\* auto_breed as dispatched: any two kitties breed, for the owner of the first.
AutoBreed(origin, k1, k2, nonce, solution, selector) ==
  DoBreed(origin,
          [name |-> "auto_breed", k1 |-> k1, k2 |-> k2,
           nonce |-> nonce, solution |-> solution],
          AutoBreedResult(origin, k1, k2),
          tokens[k1].owner, tokens[k1].data, tokens[k2].data, selector)

\* Fault: the nonce is advanced by the call, so only when it succeeds.
SpendNonceLate(k1, k2) ==
  autoBreedNonce' = IF AutoBreedResult(NoneOrigin, k1, k2) = Ok
                    THEN NextNonce(autoBreedNonce) ELSE autoBreedNonce

\* validate_unsigned spends the nonce before the call runs.
SpendNonce(k1, k2) == autoBreedNonce' = NextNonce(autoBreedNonce)

\* An unsigned auto_breed in a block: pre_dispatch runs validate_unsigned,
\* whose write to the nonce stays whether or not the dispatch succeeds.  An
\* extrinsic it refuses is not part of the block.
ApplyAutoBreed(k1, k2, nonce, solution, selector) ==
  /\ ValidateUnsigned(k1, k2, nonce, solution)
  /\ SpendNonce(k1, k2)
  /\ AutoBreed(NoneOrigin, k1, k2, nonce, solution, selector)

\* auto_breed sent as a signed call or through sudo never passes ensure_none.
RefusedAutoBreed(origin, k1, k2, nonce, solution) ==
  /\ origin # NoneOrigin
  /\ AutoBreed(origin, k1, k2, nonce, solution, [i \in Bits |-> FALSE])
  /\ UNCHANGED autoBreedNonce

-----------------------------------------------------------------------------
(* pallet_balances calls, which share the accounts with the pallet *)

\* Balances::transfer and Balances::transfer_keep_alive.
BalancesTransfer(origin, to, value, keepAlive) ==
  LET result == IF origin \notin Accounts THEN "BadOrigin"
                ELSE CurrencyTransferResult(origin, to, value, keepAlive)
  IN  /\ IF result = Ok THEN CurrencyTransfer(origin, to, value) ELSE UNCHANGED balanceVars
      /\ Dispatched(origin, [name |-> "balances_transfer", value |-> value, keep_alive |-> keepAlive],
                    result, NoEvent)
      /\ UNCHANGED <<nftVars, kittyPrices, autoBreedNonce>>

-----------------------------------------------------------------------------

\* Signed extrinsics, and calls dispatched as root by sudo.
DispatchOrigins == Accounts \cup {RootOrigin}

\* Extrinsics other than automatic breeding that block authors may include.
DispatchNext ==
  \/ \E o \in DispatchOrigins, d \in RandomValue : Create(o, d)
  \/ \E o \in DispatchOrigins, k1, k2 \in TokenIds, s \in RandomValue : Breed(o, k1, k2, s)
  \/ \E o \in DispatchOrigins, to \in Accounts, k \in TokenIds : Transfer(o, to, k)
  \/ \E o \in DispatchOrigins, k \in TokenIds, p \in Prices \cup {NoPrice} : SetPrice(o, k, p)
  \/ \E o \in DispatchOrigins, a \in Accounts, k \in TokenIds, m \in Prices : Buy(o, a, k, m)
  \/ \E o \in DispatchOrigins, k1, k2 \in TokenIds, n \in 0 .. MaxNonce, x \in Solutions :
       RefusedAutoBreed(o, k1, k2, n, x)
  \/ \E o \in DispatchOrigins, to \in Accounts, v \in Prices, ka \in BOOLEAN :
       BalancesTransfer(o, to, v, ka)

Next ==
  \/ DispatchNext
  \/ \E k1, k2 \in TokenIds, n \in 0 .. MaxNonce, x \in Solutions, s \in RandomValue :
       ApplyAutoBreed(k1, k2, n, x, s)

Spec == Init /\ [][Next]_vars

-----------------------------------------------------------------------------
(* Properties *)

\* The types of the storage items; currencyIssuance is pinned by MoneyConserved.
TypeOK ==
  /\ DOMAIN tokens \subseteq TokenIds
  /\ tokens \in [DOMAIN tokens -> TokenInfo]
  /\ tokensByOwner \subseteq Accounts \X TokenIds
  /\ nextTokenId \in TokenIds
  /\ totalIssuance \in TokenIds
  /\ balances \in [Accounts -> Nat]
  /\ DOMAIN kittyPrices \subseteq TokenIds
  /\ kittyPrices \in [DOMAIN kittyPrices -> Prices]
  /\ autoBreedNonce \in 0 .. MaxNonce

\* The kitties that exist are exactly those with an id below nextTokenId, and
\* the class counts them.  run_offchain_worker draws ids below next_token_id
\* and gives up when one of them has no token.
IdsAreDense ==
  /\ DOMAIN tokens = 0 .. nextTokenId - 1
  /\ totalIssuance = nextTokenId

\* The two records of ownership agree: set_price trusts TokensByOwner, every
\* other call trusts Tokens.
OwnerIndexAgrees ==
  tokensByOwner = {<<tokens[t].owner, t>> : t \in DOMAIN tokens}

\* Only kitties that exist are for sale, so a buyer never meets TokenNotFound.
ListedKittiesExist == DOMAIN kittyPrices \subseteq DOMAIN tokens

\* No account is left alive below the existential deposit: not the buyer
\* (KeepAlive), not a seller paid a price below the deposit, not an account
\* emptied by a plain transfer.
NoDustAccounts ==
  \A a \in Accounts : balances[a] = 0 \/ balances[a] >= ExistentialDeposit

\* Sales and transfers create no money, and lose none but burned dust.
MoneyConserved == TotalBalance(balances) = currencyIssuance

\* A kitty that exists keeps its id and its DNA for ever: ids are not reused,
\* not even when the counter reaches the end of u32.
KittiesAreForever ==
  [][\A t \in DOMAIN tokens :
       t \in DOMAIN tokens' /\ tokens'[t].data = tokens[t].data]_vars

\* The owner of t changes in this step.
OwnerChanges(t) == t \in DOMAIN tokens /\ tokens'[t].owner # tokens[t].owner

\* A price never outlives the ownership it was set under: whoever receives a
\* kitty, by transfer or by sale, does not have it on sale at an old price.
NoListingSurvivesOwnerChange ==
  [][\A t \in DOMAIN tokens : OwnerChanges(t) => t \notin DOMAIN kittyPrices']_vars

\* A kitty leaves its owner only if the owner signed the call, or if the owner
\* receives, in the same step, exactly the price it had asked, from the new
\* owner who signed the purchase.
OwnershipMovesByConsentOrSale ==
  [][\A t \in DOMAIN tokens : OwnerChanges(t) =>
       LET from == tokens[t].owner
           to   == tokens'[t].owner
       IN  \/ receipt'.origin = from
           \/ /\ receipt'.origin = to
              /\ t \in DOMAIN kittyPrices
              /\ balances'[from] = balances[from] + kittyPrices[t]
              /\ balances'[to] = balances[to] - kittyPrices[t]]_vars

\* The most the signer of a call agreed to part with.
AgreedSpending(call, balance) ==
  IF call.name = "buy" THEN call.max_price
  ELSE IF call.name = "balances_transfer" /\ call.keep_alive THEN call.value
  ELSE IF call.name = "balances_transfer" THEN balance
  ELSE 0

\* Nobody loses money without having signed the call, nor more than the call
\* allows: a price raised while a purchase is waiting never costs the buyer
\* more than max_price.
SpendingIsAuthorised ==
  [][\A a \in Accounts : balances'[a] < balances[a] =>
       /\ receipt'.origin = a
       /\ balances[a] - balances'[a] <= AgreedSpending(receipt'.call, balances[a])]_vars

\* A listing appears or changes only by a call its owner signed.
OnlyOwnersList ==
  [][\A t \in DOMAIN kittyPrices' :
       (t \in DOMAIN kittyPrices /\ kittyPrices[t] = kittyPrices'[t])
         \/ (t \in DOMAIN tokens /\ receipt'.origin = tokens[t].owner)]_vars

\* A bred kitten has a parent of each gender, takes each bit of its DNA from
\* one of them, and belongs to the owner of the first parent, who also owns
\* the second one when the breeding was signed.
BreedingIsLegal ==
  [][\A t \in DOMAIN tokens' \ DOMAIN tokens :
       receipt'.call.name \in {"breed", "auto_breed"} =>
         LET p1 == tokens[receipt'.call.k1]
             p2 == tokens[receipt'.call.k2]
         IN  /\ Gender(p1.data) # Gender(p2.data)
             /\ \A i \in Bits : tokens'[t].data[i] \in {p1.data[i], p2.data[i]}
             /\ tokens'[t].owner = p1.owner
             /\ receipt'.origin \in Accounts => receipt'.origin = p1.owner /\ p1.owner = p2.owner]_vars

\* The pallet, seen as owners, asks and money, is a marketplace.
Market == INSTANCE Marketplace
            WITH KittyIds <- TokenIds,
                 Asks  <- Prices,
                 owner <- [t \in DOMAIN tokens |-> tokens[t].owner],
                 ask   <- kittyPrices,
                 purse <- balances

\* Every behaviour of the pallet is one the abstract marketplace allows.
ImplementsMarketplace == Market!Spec

=============================================================================
