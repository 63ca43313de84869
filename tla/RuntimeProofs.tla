--------------------------- MODULE RuntimeProofs ----------------------------
(***************************************************************************)
(* What TLAPS proves of the runtime: what an extrinsic may cost and whom,  *)
(* that fees and nonces are accounted for, and that the pallets keep their *)
(* promises under the origins the runtime gives to calls.  The invariant   *)
(* RInv relates the storage to the extrinsic being applied, stage by       *)
(* stage.                                                                  *)
(***************************************************************************)
EXTENDS Runtime, MoneyProofs

-----------------------------------------------------------------------------
(* The template pallet *)

\* The stored number is absent or a u32.
TInv == something \in {NoValue} \cup 0 .. MaxValue

\* One call keeps the stored number in its range.
LEMMA NumberInRange ==
  ASSUME TInv, [TNext]_<<something, outcome>>
  PROVE  TInv'
  <1> USE TemplateAssumption DEF TInv
  <1>1. ASSUME NEW o \in Origins, NEW v \in 0 .. MaxValue, DoSomething(o, v)
        PROVE  TInv'
    BY <1>1 DEF DoSomething
  <1>2. ASSUME NEW o \in Origins, CauseError(o)
        PROVE  TInv'
    <2>1. CASE CauseErrorResult(o) = Ok
      <3>1. something \in Nat /\ something # MaxValue
        BY <2>1 DEF CauseErrorResult, Ok
      <3>2. something' = something + 1
        BY <1>2, <2>1, <3>1 DEF CauseError
      <3> QED BY <3>1, <3>2
    <2>2. CASE CauseErrorResult(o) # Ok
      BY <1>2, <2>2 DEF CauseError
    <2> QED BY <2>1, <2>2
  <1>3. CASE UNCHANGED <<something, outcome>>
    BY <1>3
  <1> QED BY <1>1, <1>2, <1>3 DEF TNext

\* cause_error never makes the number smaller or removes it, for every width of
\* the number: its checked addition refuses at the largest value.
THEOREM NumberNeverWraps == TSpec => ShrinksOnlyByOverwrite
  <1> DEFINE Step ==
        something # NoValue =>
          /\ something' # NoValue
          /\ something' < something =>
               outcome'.call = "do_something" /\ outcome'.who \in Accounts
  <1>1. TInit => TInv
    BY DEF TInit, TInv
  <1>2. TInv /\ [TNext]_<<something, outcome>> => TInv'
    BY NumberInRange
  <1>3. ASSUME TInv, [TNext]_<<something, outcome>>
        PROVE  [Step]_<<something, outcome>>
    <2> USE TemplateAssumption DEF TInv
    <2>1. ASSUME NEW o \in Origins, NEW v \in 0 .. MaxValue, DoSomething(o, v)
          PROVE  Step
      <3>1. CASE o \in Accounts
        BY <1>3, <2>1, <3>1 DEF DoSomething
      <3>2. CASE o \notin Accounts
        BY <1>3, <2>1, <3>2 DEF DoSomething, Ok
      <3> QED BY <3>1, <3>2
    <2>2. ASSUME NEW o \in Origins, CauseError(o)
          PROVE  Step
      <3>1. CASE CauseErrorResult(o) = Ok
        <4>1. something \in Nat /\ something # MaxValue
          BY <1>3, <3>1 DEF CauseErrorResult, Ok
        <4>2. something' = something + 1
          BY <1>3, <2>2, <3>1, <4>1 DEF CauseError
        <4> QED BY <4>1, <4>2
      <3>2. CASE CauseErrorResult(o) # Ok
        BY <1>3, <2>2, <3>2 DEF CauseError
      <3> QED BY <3>1, <3>2
    <2>3. CASE UNCHANGED <<something, outcome>>
      BY <2>3
    <2> QED BY <1>3, <2>1, <2>2, <2>3 DEF TNext
  <1> QED BY <1>1, <1>2, <1>3, PTL DEF TSpec, ShrinksOnlyByOverwrite

-----------------------------------------------------------------------------
(* The calls under the origins the runtime gives them *)

\* force_transfer is safe.
LEMMA ForceTransferSafe ==
  ASSUME IInv, NEW o, NEW from \in Accounts, NEW to \in Accounts, NEW v \in Prices,
         ForceTransfer(o, from, to, v)
  PROVE  SafeStep
  <1>1. NonceInv' /\ UNCHANGED <<nftVars, kittyPrices>>
    BY DEF ForceTransfer, IInv, NonceInv
  <1>2. CASE ~(o = RootOrigin /\ CurrencyTransferResult(from, to, v, FALSE) = Ok)
    BY <1>1, <1>2, Untouched DEF ForceTransfer, balanceVars, Ok
  <1>3. CASE o = RootOrigin /\ CurrencyTransferResult(from, to, v, FALSE) = Ok
    <2>1. CurrencyTransfer(from, to, v) /\ v \in Nat
      BY <1>3, KittiesAssumption DEF ForceTransfer
    <2>2. BalanceInv'
      BY <1>3, <2>1, PayStep DEF IInv
    <2>3. PriceInv'
      BY <1>1, SamePrices DEF IInv, nftVars
    <2> QED
      BY <1>1, <2>2, <2>3, TokensUntouched
  <1> QED
    BY <1>2, <1>3

\* force_transfer keeps the money.
LEMMA ForceTransferKeepsMoney ==
  ASSUME IInv, currencyIssuance \in Int, NEW o, NEW from \in Accounts, NEW to \in Accounts,
         NEW v \in Prices, ForceTransfer(o, from, to, v)
  PROVE  KeepsMoney
  <1>1. CASE ~(o = RootOrigin /\ CurrencyTransferResult(from, to, v, FALSE) = Ok)
    BY <1>1, NoMoneyMoves DEF ForceTransfer, Ok
  <1>2. CASE o = RootOrigin /\ CurrencyTransferResult(from, to, v, FALSE) = Ok
    <2>1. CurrencyTransfer(from, to, v) /\ v \in Nat /\ BalanceInv
      BY <1>2, KittiesAssumption DEF ForceTransfer, IInv
    <2> QED
      BY <1>2, <2>1, TransferKeepsMoney
  <1> QED
    BY <1>1, <1>2

\* Calls of the pallet and of pallet_balances are safe.
LEMMA KittiesCallSafe ==
  ASSUME IInv, NEW o \in DispatchOrigins, NEW c, PalletCallModelled(c), KittiesCall(o, c)
  PROVE  SafeStep /\ UNCHANGED autoBreedNonce
  <1>1. CASE c.name = "create" /\ \E d \in RandomValue : Create(o, d)
    BY <1>1, CreateSafe DEF Create
  <1>2. CASE c.name = "breed" /\ \E s \in RandomValue : Breed(o, c.k1, c.k2, s)
    <2>1. c.k1 \in TokenIds /\ c.k2 \in TokenIds
      BY <1>2 DEF PalletCallModelled
    <2> QED
      BY <1>2, <2>1, BreedSafe DEF Breed
  <1>3. CASE c.name = "transfer" /\ Transfer(o, c.to, c.id)
    <2>1. c.to \in Accounts /\ c.id \in TokenIds
      BY <1>3 DEF PalletCallModelled
    <2> QED
      BY <1>3, <2>1, TransferSafe DEF Transfer
  <1>4. CASE c.name = "set_price" /\ SetPrice(o, c.id, c.price)
    <2>1. c.id \in TokenIds /\ c.price \in Prices \cup {NoPrice}
      BY <1>4 DEF PalletCallModelled
    <2> QED
      BY <1>4, <2>1, SetPriceSafe DEF SetPrice
  <1>5. CASE c.name = "buy" /\ Buy(o, c.owner, c.id, c.max_price)
    <2>1. c.owner \in Accounts
      BY <1>5 DEF PalletCallModelled
    <2> QED
      BY <1>5, <2>1, BuySafe DEF Buy
  <1>6. CASE c.name = "auto_breed" /\ RefusedAutoBreed(o, c.k1, c.k2, c.nonce, c.solution)
    <2>1. NonceInv' /\ UNCHANGED autoBreedNonce
      BY <1>6 DEF RefusedAutoBreed, IInv, NonceInv
    <2> QED
      BY <1>6, <2>1, AutoBreedSafe DEF RefusedAutoBreed
  <1>7. CASE c.name = "balances_transfer" /\ BalancesTransfer(o, c.to, c.value, c.keep_alive)
    <2>1. c.to \in Accounts /\ c.value \in Prices /\ c.keep_alive \in BOOLEAN
      BY <1>7 DEF PalletCallModelled
    <2> QED
      BY <1>7, <2>1, BalancesTransferSafe DEF BalancesTransfer
  <1>8. CASE c.name = "force_transfer" /\ ForceTransfer(o, c.from, c.to, c.value)
    <2>1. c.from \in Accounts /\ c.to \in Accounts /\ c.value \in Prices
      BY <1>8 DEF PalletCallModelled
    <2> QED
      BY <1>8, <2>1, ForceTransferSafe DEF ForceTransfer
  <1> QED
    BY <1>1, <1>2, <1>3, <1>4, <1>5, <1>6, <1>7, <1>8 DEF KittiesCall

\* They keep the money.
LEMMA KittiesCallKeepsMoney ==
  ASSUME IInv, currencyIssuance \in Int, NEW o, NEW c, PalletCallModelled(c), KittiesCall(o, c)
  PROVE  KeepsMoney
  <1>1. CASE c.name = "buy" /\ Buy(o, c.owner, c.id, c.max_price)
    <2>1. c.owner \in Accounts
      BY <1>1 DEF PalletCallModelled
    <2> QED
      BY <1>1, <2>1, BuyKeepsMoney
  <1>2. CASE c.name = "balances_transfer" /\ BalancesTransfer(o, c.to, c.value, c.keep_alive)
    <2>1. c.to \in Accounts /\ c.value \in Nat /\ c.keep_alive \in BOOLEAN
      BY <1>2, KittiesAssumption DEF PalletCallModelled
    <2> QED
      BY <1>2, <2>1, BalancesTransferKeepsMoney
  <1>3. CASE c.name = "force_transfer" /\ ForceTransfer(o, c.from, c.to, c.value)
    <2>1. c.from \in Accounts /\ c.to \in Accounts /\ c.value \in Prices
      BY <1>3 DEF PalletCallModelled
    <2> QED
      BY <1>3, <2>1, ForceTransferKeepsMoney
  <1>4. CASE c.name \notin {"buy", "balances_transfer", "force_transfer"}
    <2>1. UNCHANGED balanceVars
      BY <1>4 DEF KittiesCall, Create, Breed, Transfer, SetPrice, RefusedAutoBreed, AutoBreed, DoBreed
    <2> QED
      BY <2>1, NoMoneyMoves
  <1> QED
    BY <1>1, <1>2, <1>3, <1>4 DEF KittiesCall

\* A call that fails leaves nothing behind but its receipt.
LEMMA KittiesCallFails ==
  ASSUME NEW o, NEW c, KittiesCall(o, c), receipt'.result # Ok
  PROVE  UNCHANGED <<nftVars, balanceVars, kittyPrices, autoBreedNonce>>
  <1>1. ASSUME NEW d, Create(o, d)
        PROVE  UNCHANGED <<nftVars, balanceVars, kittyPrices, autoBreedNonce>>
    BY <1>1, ReceiptSays DEF Create
  <1>2. ASSUME NEW k1, NEW k2, NEW s, Breed(o, k1, k2, s)
        PROVE  UNCHANGED <<nftVars, balanceVars, kittyPrices, autoBreedNonce>>
    BY <1>2, ReceiptSays DEF Breed, DoBreed
  <1>3. ASSUME NEW to, NEW k, Transfer(o, to, k)
        PROVE  UNCHANGED <<nftVars, balanceVars, kittyPrices, autoBreedNonce>>
    BY <1>3, ReceiptSays DEF Transfer
  <1>4. ASSUME NEW k, NEW p, SetPrice(o, k, p)
        PROVE  UNCHANGED <<nftVars, balanceVars, kittyPrices, autoBreedNonce>>
    BY <1>4, ReceiptSays DEF SetPrice
  <1>5. ASSUME NEW w, NEW k, NEW m, Buy(o, w, k, m)
        PROVE  UNCHANGED <<nftVars, balanceVars, kittyPrices, autoBreedNonce>>
    BY <1>5, ReceiptSays DEF Buy, KittyMoves
  <1>6. ASSUME NEW k1, NEW k2, NEW n, NEW x, RefusedAutoBreed(o, k1, k2, n, x)
        PROVE  UNCHANGED <<nftVars, balanceVars, kittyPrices, autoBreedNonce>>
    BY <1>6, ReceiptSays DEF RefusedAutoBreed, AutoBreed, DoBreed
  <1>7. ASSUME NEW to, NEW v, NEW ka, BalancesTransfer(o, to, v, ka)
        PROVE  UNCHANGED <<nftVars, balanceVars, kittyPrices, autoBreedNonce>>
    BY <1>7, ReceiptSays DEF BalancesTransfer
  <1>8. ASSUME NEW from, NEW to, NEW v, ForceTransfer(o, from, to, v)
        PROVE  UNCHANGED <<nftVars, balanceVars, kittyPrices, autoBreedNonce>>
    <2> DEFINE result == IF o # RootOrigin THEN "BadOrigin" ELSE CurrencyTransferResult(from, to, v, FALSE)
    <2>1. /\ IF result = Ok THEN CurrencyTransfer(from, to, v) ELSE UNCHANGED balanceVars
          /\ Dispatched(o, [name |-> "force_transfer"], result, NoEvent)
          /\ UNCHANGED <<nftVars, kittyPrices, autoBreedNonce>>
      BY <1>8 DEF ForceTransfer
    <2> HIDE DEF result
    <2>2. result # Ok
      BY <2>1, ReceiptSays
    <2> QED
      BY <2>1, <2>2
  <1> QED
    BY <1>1, <1>2, <1>3, <1>4, <1>5, <1>6, <1>7, <1>8 DEF KittiesCall

\* The receipt names the origin, and the call as far as spending goes.
LEMMA KittiesCallSays ==
  ASSUME NEW o, NEW c, KittiesCall(o, c)
  PROVE  /\ receipt'.origin = o
         /\ receipt'.result = Ok =>
              \A b : AgreedSpending(receipt'.call, b) = AgreedSpending(c, b)
  <1>1. CASE c.name = "buy"
    BY <1>1 DEF KittiesCall, Buy, Dispatched, AgreedSpending
  <1>2. CASE c.name = "balances_transfer"
    BY <1>2 DEF KittiesCall, BalancesTransfer, Dispatched, AgreedSpending
  <1>3. CASE c.name \notin {"buy", "balances_transfer"}
    <2>1. receipt'.origin = o /\ receipt'.call.name = c.name
      <3>1. ASSUME NEW d, Create(o, d), c.name = "create"
            PROVE  receipt'.origin = o /\ receipt'.call.name = c.name
        BY <3>1 DEF Create, Dispatched
      <3>2. ASSUME NEW d, Breed(o, c.k1, c.k2, d), c.name = "breed"
            PROVE  receipt'.origin = o /\ receipt'.call.name = c.name
        BY <3>2 DEF Breed, DoBreed, Dispatched
      <3>3. CASE Transfer(o, c.to, c.id) /\ c.name = "transfer"
        BY <3>3 DEF Transfer, Dispatched
      <3>4. CASE SetPrice(o, c.id, c.price) /\ c.name = "set_price"
        BY <3>4 DEF SetPrice, Dispatched
      <3>5. CASE RefusedAutoBreed(o, c.k1, c.k2, c.nonce, c.solution) /\ c.name = "auto_breed"
        BY <3>5 DEF RefusedAutoBreed, AutoBreed, DoBreed, Dispatched
      <3>6. CASE ForceTransfer(o, c.from, c.to, c.value) /\ c.name = "force_transfer"
        BY <3>6 DEF ForceTransfer, Dispatched
      <3> QED
        BY <1>3, <3>1, <3>2, <3>3, <3>4, <3>5, <3>6 DEF KittiesCall
    <2> QED
      BY <1>3, <2>1 DEF AgreedSpending
  <1> QED
    BY <1>1, <1>2, <1>3

\* Calls are fair, but for what root takes from an account with force_transfer.
LEMMA KittiesCallFair ==
  ASSUME IInv, NEW o \in DispatchOrigins, NEW c, PalletCallModelled(c), KittiesCall(o, c),
         c.name = "force_transfer" => o \in Accounts
  PROVE  FairStep
  <1>1. CASE c.name = "create" /\ \E d \in RandomValue : Create(o, d)
    BY <1>1, CreateFair
  <1>2. CASE c.name = "breed" /\ \E s \in RandomValue : Breed(o, c.k1, c.k2, s)
    BY <1>2, BreedFair
  <1>3. CASE c.name = "transfer" /\ Transfer(o, c.to, c.id)
    <2>1. c.to \in Accounts
      BY <1>3 DEF PalletCallModelled
    <2> QED
      BY <1>3, <2>1, TransferFair
  <1>4. CASE c.name = "set_price" /\ SetPrice(o, c.id, c.price)
    <2>1. c.price \in Prices \cup {NoPrice}
      BY <1>4 DEF PalletCallModelled
    <2> QED
      BY <1>4, <2>1, SetPriceFair
  <1>5. CASE c.name = "buy" /\ Buy(o, c.owner, c.id, c.max_price)
    <2>1. c.owner \in Accounts /\ c.id \in TokenIds /\ c.max_price \in Prices
      BY <1>5 DEF PalletCallModelled
    <2> QED
      BY <1>5, <2>1, BuyFair
  <1>6. CASE c.name = "auto_breed" /\ RefusedAutoBreed(o, c.k1, c.k2, c.nonce, c.solution)
    <2> DEFINE s == [i \in Bits |-> FALSE]
    <2>1. s \in Dna /\ AutoBreed(o, c.k1, c.k2, c.nonce, c.solution, s)
      BY <1>6 DEF RefusedAutoBreed, Dna
    <2> HIDE DEF s
    <2> QED
      BY <2>1, AutoBreedFair
  <1>7. CASE c.name = "balances_transfer" /\ BalancesTransfer(o, c.to, c.value, c.keep_alive)
    <2>1. c.to \in Accounts /\ c.value \in Prices /\ c.keep_alive \in BOOLEAN
      BY <1>7 DEF PalletCallModelled
    <2> QED
      BY <1>7, <2>1, BalancesTransferFair
  <1>8. CASE c.name = "force_transfer" /\ ForceTransfer(o, c.from, c.to, c.value)
    <2>1. UNCHANGED <<nftVars, balances, kittyPrices>>
      BY <1>8, OriginAssumption DEF ForceTransfer, balanceVars, Ok
    <2> QED
      BY <2>1, ReceiptOnly
  <1> QED
    BY <1>1, <1>2, <1>3, <1>4, <1>5, <1>6, <1>7, <1>8 DEF KittiesCall

\* A kitty goes off the market when its owner wants it to, or when it is sold.
LEMMA KittiesCallUnlists ==
  ASSUME IInv, NEW o \in DispatchOrigins, NEW c, PalletCallModelled(c), KittiesCall(o, c),
         NEW t \in DOMAIN kittyPrices, t \notin DOMAIN kittyPrices'
  PROVE  OwnerChanges(t) \/ tokens[t].owner = o
  <1>1. CASE c.name = "transfer"
    <2>1. Transfer(o, c.to, c.id)
      BY <1>1 DEF KittiesCall
    <2>2. o \in Accounts /\ NftTransferResult(o, c.id) = Ok /\ t = c.id
      BY <2>1 DEF Transfer, PricesAfterGift, Remove, Ok
    <2> QED
      BY <2>2 DEF NftTransferResult, Ok
  <1>2. CASE c.name = "set_price"
    <2>1. SetPrice(o, c.id, c.price)
      BY <1>2 DEF KittiesCall
    <2>2. SetPriceResult(o, c.id) = Ok /\ t = c.id
      BY <2>1 DEF SetPrice, Remove, Insert, Ok
    <2>3. <<o, t>> \in tokensByOwner
      BY <2>2 DEF SetPriceResult, Ok
    <2> QED
      BY <2>3 DEF IInv, NftInv, OwnerIndexAgrees
  <1>3. CASE c.name = "buy"
    <2>1. Buy(o, c.owner, c.id, c.max_price)
      BY <1>3 DEF KittiesCall
    <2>2. BuyResult(o, c.owner, c.id, c.max_price) = Ok /\ t = c.id
      BY <2>1 DEF Buy, Remove, Ok
    <2>3. o \in Accounts /\ o # c.owner /\ NftTransferResult(c.owner, t) = Ok /\ NftTransfer(c.owner, o, t)
      BY <2>1, <2>2 DEF BuyResult, Buy, KittyMoves, Ok
    <2>4. NftInv
      BY DEF IInv
    <2>5. t \in DOMAIN tokens /\ tokens[t].owner = c.owner /\ tokens'[t].owner = o
      BY <2>3, <2>4, MoveStep
    <2> QED
      BY <2>3, <2>5 DEF OwnerChanges
  <1>4. CASE c.name \notin {"transfer", "set_price", "buy"}
    <2>1. UNCHANGED kittyPrices
      BY <1>4 DEF KittiesCall, Create, Breed, BalancesTransfer, ForceTransfer, RefusedAutoBreed, AutoBreed, DoBreed
    <2> QED
      BY <2>1
  <1> QED
    BY <1>1, <1>2, <1>3, <1>4

\* Whatever a call does not touch.
Unmoved == UNCHANGED <<tokens, kittyPrices, autoBreedNonce, balances, something>>

\* What every call guarantees, whoever is behind it.
SoundStep ==
  /\ SafeStep
  /\ TInv'
  /\ KeepsMoney
  /\ UNCHANGED autoBreedNonce
  /\ receipt'.result # Ok => Unmoved

\* A call of the template pallet moves neither kitties nor money.
LEMMA TemplateCallSound ==
  ASSUME IInv, TInv, currencyIssuance \in Int, NEW o \in DispatchOrigins, NEW c, PalletCallModelled(c),
         TemplateCall(o, c), Dispatched(o, c, outcome'.result, NoEvent),
         UNCHANGED <<nftVars, balanceVars, kittyPrices, autoBreedNonce>>
  PROVE  SoundStep
  <1>1. NonceInv' /\ UNCHANGED <<nftVars, balances, kittyPrices>>
    BY DEF IInv, NonceInv, balanceVars
  <1>2. SafeStep
    BY <1>1, Untouched
  <1>3. KeepsMoney
    BY NoMoneyMoves
  <1>4. o \in Origins
    BY DEF DispatchOrigins, Origins
  <1>5. TInv' /\ (outcome'.result # Ok => UNCHANGED something)
    <2>1. CASE c.name = "do_something" /\ DoSomething(o, c.something)
      <3>1. c.something \in 0 .. MaxValue
        BY <2>1 DEF PalletCallModelled
      <3>2. [TNext]_<<something, outcome>>
        BY <1>4, <2>1, <3>1 DEF TNext
      <3>3. TInv'
        BY <3>2, NumberInRange
      <3> QED
        BY <2>1, <3>3 DEF DoSomething
    <2>2. CASE c.name = "cause_error" /\ CauseError(o)
      <3>1. [TNext]_<<something, outcome>>
        BY <1>4, <2>2 DEF TNext
      <3>2. TInv'
        BY <3>1, NumberInRange
      <3> QED
        BY <2>2, <3>2 DEF CauseError
    <2> QED
      BY <2>1, <2>2 DEF TemplateCall
  <1>6. receipt'.result = outcome'.result
    BY DEF Dispatched
  <1> QED
    BY <1>1, <1>2, <1>3, <1>5, <1>6 DEF SoundStep, Unmoved, nftVars

\* A call of any pallet is sound.
LEMMA PalletCallSound ==
  ASSUME IInv, TInv, currencyIssuance \in Int, NEW o \in DispatchOrigins, NEW c, PalletCallModelled(c),
         PalletCall(o, c)
  PROVE  SoundStep
  <1>1. CASE KittiesCall(o, c) /\ UNCHANGED templateVars
    <2>1. SafeStep /\ UNCHANGED autoBreedNonce
      BY <1>1, KittiesCallSafe
    <2>2. KeepsMoney
      BY <1>1, KittiesCallKeepsMoney
    <2>3. UNCHANGED something
      BY <1>1 DEF templateVars
    <2>4. receipt'.result # Ok => UNCHANGED <<nftVars, balanceVars, kittyPrices, autoBreedNonce>>
      BY <1>1, KittiesCallFails
    <2> QED
      BY <2>1, <2>2, <2>3, <2>4 DEF SoundStep, TInv, Unmoved, nftVars, balanceVars
  <1>2. CASE /\ TemplateCall(o, c)
             /\ Dispatched(o, c, outcome'.result, NoEvent)
             /\ UNCHANGED <<nftVars, balanceVars, kittyPrices, autoBreedNonce>>
    BY <1>2, TemplateCallSound
  <1> QED
    BY <1>1, <1>2 DEF PalletCall

\* A call that only leaves a receipt is sound.
LEMMA ReceiptSound ==
  ASSUME IInv, TInv, currencyIssuance \in Int,
         UNCHANGED <<nftVars, balanceVars, kittyPrices, autoBreedNonce, templateVars>>
  PROVE  SoundStep
  <1>1. NonceInv' /\ UNCHANGED <<nftVars, balances, kittyPrices>>
    BY DEF IInv, NonceInv, balanceVars
  <1>2. SafeStep
    BY <1>1, Untouched
  <1>3. KeepsMoney
    BY NoMoneyMoves
  <1> QED
    BY <1>1, <1>2, <1>3 DEF SoundStep, TInv, Unmoved, nftVars, templateVars

\* So is the call of a signed extrinsic, under sudo or not.
LEMMA SignedCallSound ==
  ASSUME IInv, TInv, currencyIssuance \in Int, sudoKey \in Accounts, NEW s \in Accounts, NEW c,
         CallModelled(c), SignedCall(s, c)
  PROVE  /\ SoundStep
         /\ sudoKey' \in Accounts
         /\ receipt'.result # Ok => UNCHANGED sudoKey
  <1>1. CASE c.name \notin SudoCalls /\ PalletCall(s, c) /\ UNCHANGED sudoKey
    <2>1. PalletCallModelled(c) /\ s \in DispatchOrigins
      BY <1>1 DEF CallModelled, SudoCalls, DispatchOrigins
    <2> QED
      BY <1>1, <2>1, PalletCallSound
  <1>2. CASE c.name = "sudo" /\ PalletCall(RootOrigin, c.call) /\ UNCHANGED sudoKey
    <2>1. PalletCallModelled(c.call) /\ RootOrigin \in DispatchOrigins
      BY <1>2 DEF CallModelled, PalletCallModelled, DispatchOrigins
    <2> QED
      BY <1>2, <2>1, PalletCallSound
  <1>3. CASE c.name = "sudo_as" /\ PalletCall(c.who, c.call) /\ UNCHANGED sudoKey
    <2>1. PalletCallModelled(c.call) /\ c.who \in DispatchOrigins
      BY <1>3 DEF CallModelled, PalletCallModelled, DispatchOrigins
    <2> QED
      BY <1>3, <2>1, PalletCallSound
  <1>4. CASE /\ c.name = "set_key"
             /\ sudoKey' = c.new
             /\ Dispatched(s, c, Ok, NoEvent)
             /\ UNCHANGED <<nftVars, balanceVars, kittyPrices, autoBreedNonce, templateVars>>
    <2>1. sudoKey' \in Accounts
      BY <1>4 DEF CallModelled, PalletCallModelled
    <2>2. receipt'.result = Ok
      BY <1>4 DEF Dispatched
    <2> QED
      BY <1>4, <2>1, <2>2, ReceiptSound
  <1>5. CASE UNCHANGED <<nftVars, balanceVars, kittyPrices, autoBreedNonce, templateVars, sudoKey>>
    BY <1>5, ReceiptSound
  <1> QED
    BY <1>1, <1>2, <1>3, <1>4, <1>5 DEF SignedCall

-----------------------------------------------------------------------------
(* The life cycle of an extrinsic *)

\* Storage keeps its invariants, and executing is an extrinsic in one of its stages.
StorageInv ==
  /\ IInv
  /\ TInv
  /\ sudoKey \in Accounts
  /\ height \in Nat
  /\ executing \in {NoXt} \cup Dispatching \cup PostDispatching

\* The money is accounted for, and is a number.
FeesInv == FeesAccounted /\ currencyIssuance \in Int

\* Applied extrinsics carry nonces below the one their signer is at.
CountInv ==
  /\ accountNonce \in [Accounts -> Nat]
  /\ IsFiniteSet(applied)
  /\ applied \subseteq SignedExtrinsics
  /\ \A x \in applied : x.nonce < accountNonce[x.signer]
  /\ NonceCountsApplied

\* The storage is what the extrinsic e found, less the fee.
AsBefore(e) ==
  /\ tokens = e.before.tokens
  /\ kittyPrices = e.before.kittyPrices
  /\ autoBreedNonce = e.before.autoBreedNonce
  /\ something = e.before.something
  /\ sudoKey = e.before.sudoKey
  /\ balances = [e.before.balances EXCEPT ![e.xt.signer] = @ - e.fee]
  /\ balances[e.xt.signer] >= ExistentialDeposit

\* What the extrinsic e of s has cost others, and the signer beyond the fee.
CostsSoFar(e, s) ==
  /\ \A a \in Accounts \ {s} : balances[a] >= e.before.balances[a]
  /\ e.before.balances[s] - balances[s] <= e.fee + AgreedSpending(e.xt.call, e.before.balances[s])
  /\ \A t \in DOMAIN e.before.tokens : e.before.tokens[t].owner # s =>
       \/ /\ t \in DOMAIN e.before.kittyPrices
          /\ tokens[t].owner = s
          /\ balances[e.before.tokens[t].owner]
               = e.before.balances[e.before.tokens[t].owner] + e.before.kittyPrices[t]
       \/ /\ tokens[t] = e.before.tokens[t]
          /\ t \in DOMAIN kittyPrices <=> t \in DOMAIN e.before.kittyPrices
          /\ t \in DOMAIN kittyPrices => kittyPrices[t] = e.before.kittyPrices[t]
  /\ sudoKey = e.before.sudoKey

\* What is known of the storage in the stages of an extrinsic.
StageInv ==
  /\ executing \in Dispatching => AsBefore(executing)
  /\ executing \in PostDispatching =>
       /\ executing.pays_fee = ~BySudo(executing)
       /\ receipt.result # Ok => AsBefore(executing)
       /\ ~BySudo(executing) => CostsSoFar(executing, executing.xt.signer)

RInv == StorageInv /\ FeesInv /\ CountInv /\ StageInv

\* A fee is a natural number.
LEMMA FeeType ==
  ASSUME NEW c
  PROVE  Fee(c) \in Nat
  <1> USE RuntimeAssumption DEF DbRead, DbWrite, ExtrinsicBaseWeight
  <1>1. ASSUME NEW d PROVE PalletWeight(d) \in Nat
    BY DEF PalletWeight
  <1>2. Weight(c) \in Nat
    BY <1>1 DEF Weight
  <1> QED
    BY <1>2 DEF Fee

\* What pre-dispatch remembers of the storage.
LEMMA SnapshotType ==
  ASSUME StorageInv
  PROVE  [tokens |-> tokens, kittyPrices |-> kittyPrices, autoBreedNonce |-> autoBreedNonce,
          balances |-> balances, something |-> something, sudoKey |-> sudoKey] \in Snapshots
  <1>1. tokens \in UNION {[D -> TokenInfo] : D \in SUBSET TokenIds}
    <2>1. tokens \in [0 .. nextTokenId - 1 -> TokenInfo] /\ 0 .. nextTokenId - 1 \in SUBSET TokenIds
      BY MaxTokenIdAssumption DEF StorageInv, IInv, NftInv, TokenIds
    <2> HIDE DEF TokenInfo
    <2> QED BY <2>1
  <1>2. kittyPrices \in UNION {[D -> Prices] : D \in SUBSET TokenIds}
    <2>1. kittyPrices \in [DOMAIN kittyPrices -> Prices] /\ DOMAIN kittyPrices \in SUBSET TokenIds
      BY MaxTokenIdAssumption DEF StorageInv, IInv, NftInv, TokenIds, PriceInv, ListedKittiesExist
    <2> QED BY <2>1
  <1>3. autoBreedNonce \in 0 .. MaxNonce /\ balances \in [Accounts -> Nat]
        /\ something \in {NoValue} \cup 0 .. MaxValue /\ sudoKey \in Accounts
    BY DEF StorageInv, IInv, NonceInv, BalanceInv, TInv
  <1> QED
    BY <1>1, <1>2, <1>3 DEF Snapshots

\* An extrinsic that passed pre-dispatch has been charged and is the one executing.
LEMMA PreDispatchCharges ==
  ASSUME StorageInv, NEW x \in Extrinsics, PreDispatch(x)
  PROVE  /\ x \in SignedExtrinsics
         /\ Fee(x.call) \in Nat
         /\ executing = NoXt
         /\ balances[x.signer] - Fee(x.call) >= ExistentialDeposit
         /\ balances' = [balances EXCEPT ![x.signer] = @ - Fee(x.call)]
         /\ executing' \in Dispatching
         /\ executing'.xt = x /\ executing'.fee = Fee(x.call)
         /\ executing' = [stage |-> "dispatch", xt |-> x, fee |-> Fee(x.call),
                   before |-> [tokens |-> tokens, kittyPrices |-> kittyPrices,
                               autoBreedNonce |-> autoBreedNonce, balances |-> balances,
                               something |-> something, sudoKey |-> sudoKey]]
  <1>1. x \in SignedExtrinsics
    BY RuntimeAssumption DEF Extrinsics, SignedExtrinsics, StorageInv
  <1>2. Fee(x.call) \in Nat
    BY FeeType
  <1> DEFINE snap == [tokens |-> tokens, kittyPrices |-> kittyPrices,
                      autoBreedNonce |-> autoBreedNonce, balances |-> balances,
                      something |-> something, sudoKey |-> sudoKey]
             f == Fee(x.call)
  <1>3. snap \in Snapshots
    BY SnapshotType
  <1>4. executing' = [stage |-> "dispatch", xt |-> x, fee |-> f, before |-> snap]
    BY DEF PreDispatch, ChargeTransactionPayment
  <1>5. f \in Nat
    BY <1>2
  <1>6. executing' \in Dispatching /\ executing'.xt = x /\ executing'.fee = f
    <2> HIDE DEF snap, f
    <2> QED BY <1>1, <1>3, <1>4, <1>5 DEF Dispatching
  <1> QED
    BY <1>1, <1>2, <1>4, <1>6 DEF PreDispatch, ChargeTransactionPayment, FeePayable

\* A stage is not the absence of an extrinsic, and no stage is the other.
LEMMA StagesDiffer ==
  /\ \A e \in Dispatching : e # NoXt /\ e.stage = "dispatch"
  /\ \A e \in PostDispatching : e # NoXt /\ e.stage = "post"
  BY NoXtAssumption DEF Dispatching, PostDispatching

\* The extrinsics of one account.
SignedBy(A, a) == {y \in A : y.signer = a}

\* The extrinsics of one account, before and after one more is applied.
LEMMA OneMore ==
  ASSUME NEW A, IsFiniteSet(A), NEW x, x \notin A, NEW a
  PROVE  /\ Cardinality(SignedBy(A, a)) \in Nat
         /\ Cardinality(SignedBy(A \cup {x}, a))
              = Cardinality(SignedBy(A, a)) + (IF x.signer = a THEN 1 ELSE 0)
  <1>1. SignedBy(A, a) \in SUBSET A
    BY DEF SignedBy
  <1>2. IsFiniteSet(SignedBy(A, a))
    BY <1>1, FS_Subset
  <1>3. Cardinality(SignedBy(A, a)) \in Nat
    BY <1>2, FS_CardinalityType
  <1>4. CASE x.signer = a
    <2>1. SignedBy(A \cup {x}, a) = SignedBy(A, a) \cup {x} /\ x \notin SignedBy(A, a)
      BY <1>4 DEF SignedBy
    <2>2. Cardinality(SignedBy(A, a) \cup {x}) = Cardinality(SignedBy(A, a)) + 1
      BY <1>2, <2>1, FS_AddElement
    <2> QED
      BY <1>3, <1>4, <2>1, <2>2
  <1>5. CASE x.signer # a
    <2>1. SignedBy(A \cup {x}, a) = SignedBy(A, a)
      BY <1>5 DEF SignedBy
    <2> QED
      BY <1>3, <1>5, <2>1
  <1> QED
    BY <1>4, <1>5, <1>3

\* Pre-dispatch keeps the invariant.
LEMMA PreDispatchKeeps ==
  ASSUME RInv, NEW x \in Extrinsics, PreDispatch(x)
  PROVE  RInv'
  <1> DEFINE s == x.signer
             f == Fee(x.call)
  <1>0. StorageInv /\ FeesInv /\ CountInv
    BY DEF RInv
  <1>1. /\ x \in SignedExtrinsics
        /\ f \in Nat
        /\ executing = NoXt
        /\ balances[s] - f >= ExistentialDeposit
        /\ balances' = [balances EXCEPT ![s] = @ - f]
        /\ executing' \in Dispatching
        /\ executing'.xt = x /\ executing'.fee = f
        /\ executing' = [stage |-> "dispatch", xt |-> x, fee |-> f,
                   before |-> [tokens |-> tokens, kittyPrices |-> kittyPrices,
                               autoBreedNonce |-> autoBreedNonce, balances |-> balances,
                               something |-> something, sudoKey |-> sudoKey]]
    BY <1>0, PreDispatchCharges
  <1>2. s \in Accounts /\ balances \in [Accounts -> Nat] /\ balances[s] \in Nat
    BY <1>0, <1>1 DEF SignedExtrinsics, StorageInv, IInv, BalanceInv
  <1>3. balances[s] - f \in Nat /\ executing' # NoXt /\ executing' \notin PostDispatching
    BY <1>1, <1>2, ExistentialDepositAssumption, StagesDiffer
  <1> HIDE DEF f, s
  <1>4. /\ balances' \in [Accounts -> Nat]
        /\ balances'[s] = balances[s] - f
        /\ \A y \in Accounts : y # s => balances'[y] = balances[y]
    BY <1>1, <1>2, <1>3
  <1>5. StorageInv'
    <2>1. BalanceInv'
      BY <1>0, <1>1, <1>4 DEF StorageInv, IInv, BalanceInv, NoDustAccounts
    <2>2. UNCHANGED <<nftVars, kittyPrices, autoBreedNonce, something, sudoKey, height>>
      BY DEF PreDispatch, templateVars
    <2>3. (NftInv /\ PriceInv /\ NonceInv)'
      BY <1>0, <2>2 DEF StorageInv, IInv, NftInv, OwnerIndexAgrees, PriceInv, ListedKittiesExist, NonceInv, nftVars
    <2> QED
      BY <1>0, <1>1, <2>1, <2>2, <2>3 DEF StorageInv, IInv, TInv
  <1>6. FeesInv'
    <2>1. TotalBalance(balances) \in Int /\ TotalBalance(balances') = TotalBalance(balances) - balances[s] + balances'[s]
      <3>1. balances \in [Accounts -> Int] /\ balances' \in [Accounts -> Int]
        BY <1>2, <1>4
      <3> QED BY <1>2, <1>4, <3>1, TotalUpdate
    <2>2. UNCHANGED currencyIssuance
      BY DEF PreDispatch
    <2>3. TotalBalance(balances) + 0 = currencyIssuance /\ currencyIssuance \in Int
      BY <1>0, <1>1 DEF FeesInv, FeesAccounted
    <2>4. TotalBalance(balances') + executing'.fee = currencyIssuance'
      BY <1>1, <1>2, <1>3, <1>4, <2>1, <2>2, <2>3
    <2> QED
      BY <1>3, <2>2, <2>3, <2>4 DEF FeesInv, FeesAccounted
  <1>7. CountInv'
    <2>1. /\ accountNonce \in [Accounts -> Nat]
          /\ IsFiniteSet(applied)
          /\ applied \subseteq SignedExtrinsics
          /\ \A y \in applied : y.nonce < accountNonce[y.signer]
          /\ NonceCountsApplied
      BY <1>0 DEF CountInv
    <2>2. /\ x.nonce = accountNonce[s]
          /\ accountNonce' = [accountNonce EXCEPT ![s] = @ + 1]
          /\ applied' = applied \cup {x}
      BY DEF PreDispatch, CheckNonce, s
    <2>3. x \notin applied /\ x.signer = s
      BY <1>2, <2>1, <2>2 DEF s
    <2>4. /\ accountNonce' \in [Accounts -> Nat]
          /\ accountNonce'[s] = accountNonce[s] + 1
          /\ \A a \in Accounts : a # s => accountNonce'[a] = accountNonce[a]
      BY <1>2, <2>1, <2>2
    <2>5. IsFiniteSet(applied') /\ applied' \subseteq SignedExtrinsics
      <3>1. IsFiniteSet(applied \cup {x})
        BY <2>1, FS_AddElement
      <3> QED
        BY <1>1, <2>1, <2>2, <3>1
    <2>6. \A y \in applied' : y.nonce < accountNonce'[y.signer]
      <3> SUFFICES ASSUME NEW y \in applied' PROVE y.nonce < accountNonce'[y.signer]
        OBVIOUS
      <3>1. y \in SignedExtrinsics
        BY <2>5
      <3>2. y.signer \in Accounts /\ y.nonce \in Nat
        BY <3>1 DEF SignedExtrinsics
      <3> QED
        BY <2>1, <2>2, <2>3, <2>4, <3>2
    <2>7. ASSUME NEW a \in Accounts
          PROVE  accountNonce'[a] = Cardinality({y \in applied' : y.signer = a})
      <3>1. Cardinality(SignedBy(applied \cup {x}, a))
              = Cardinality(SignedBy(applied, a)) + (IF x.signer = a THEN 1 ELSE 0)
        BY <2>1, <2>3, OneMore
      <3>2. accountNonce[a] = Cardinality(SignedBy(applied, a)) /\ accountNonce[a] \in Nat
        BY <2>1 DEF NonceCountsApplied, SignedBy
      <3>3. accountNonce[a] + (IF x.signer = a THEN 1 ELSE 0) = accountNonce'[a]
        BY <2>3, <2>4, <3>2
      <3> QED
        BY <2>2, <3>1, <3>2, <3>3 DEF SignedBy
    <2>8. \A y, z \in applied' : y.signer = z.signer /\ y.nonce = z.nonce => y = z
      <3>1. \A y, z \in applied : y.signer = z.signer /\ y.nonce = z.nonce => y = z
        BY <2>1 DEF NonceCountsApplied
      <3>2. \A y \in applied : ~(y.signer = x.signer /\ y.nonce = x.nonce)
        <4>1. accountNonce[s] \in Nat
          BY <1>2, <2>1
        <4> QED BY <2>1, <2>2, <2>3, <4>1
      <3> QED
        BY <2>2, <3>1, <3>2
    <2>9. \A a \in Accounts : balances'[a] = 0 => accountNonce'[a] = 0
      <3>1. \A a \in Accounts : balances[a] = 0 => accountNonce[a] = 0
        BY <2>1 DEF NonceCountsApplied
      <3> QED
        BY <1>1, <1>4, <2>4, <3>1, ExistentialDepositAssumption
    <2> QED
      BY <2>4, <2>5, <2>6, <2>7, <2>8, <2>9 DEF CountInv, NonceCountsApplied
  <1>8. StageInv'
    <2>1. UNCHANGED <<tokens, kittyPrices, autoBreedNonce, something, sudoKey>>
      BY DEF PreDispatch, templateVars, nftVars
    <2>2. /\ executing'.before.tokens = tokens
          /\ executing'.before.kittyPrices = kittyPrices
          /\ executing'.before.autoBreedNonce = autoBreedNonce
          /\ executing'.before.something = something
          /\ executing'.before.sudoKey = sudoKey
          /\ executing'.before.balances = balances
          /\ executing'.xt.signer = s
          /\ executing'.fee = f
      BY <1>1 DEF s
    <2>3. AsBefore(executing)'
      BY <1>1, <1>4, <2>1, <2>2 DEF AsBefore
    <2> QED
      BY <1>3, <2>3 DEF StageInv
  <1> QED
    BY <1>5, <1>6, <1>7, <1>8 DEF RInv

\* Post-dispatch keeps the invariant: a refund goes to an account that is alive.
LEMMA PostDispatchKeeps ==
  ASSUME RInv, PostDispatch
  PROVE  RInv'
  <1> DEFINE e == executing
             s == e.xt.signer
             r == Refund(e)
  <1>0. StorageInv /\ FeesInv /\ CountInv
    BY DEF RInv
  <1>1. e # NoXt /\ e \in PostDispatching
    BY <1>0, StagesDiffer DEF PostDispatch, StorageInv
  <1>2. e.xt \in SignedExtrinsics /\ e.fee \in Nat /\ e.pays_fee \in BOOLEAN
    BY <1>1 DEF PostDispatching
  <1>3. /\ s \in Accounts
        /\ balances \in [Accounts -> Nat]
        /\ \A a \in Accounts : balances[a] = 0 \/ balances[a] >= ExistentialDeposit
    BY <1>0, <1>2 DEF SignedExtrinsics, StorageInv, IInv, BalanceInv, NoDustAccounts
  <1>4. r \in Nat /\ (balances[s] = 0 => r = 0)
    BY <1>2 DEF Refund
  <1>5. /\ balances' = [balances EXCEPT ![s] = @ + r]
        /\ currencyIssuance' = currencyIssuance - (e.fee - r)
        /\ executing' = NoXt
    BY DEF PostDispatch, Burned
  <1> HIDE DEF e, s, r
  <1>6. /\ balances' \in [Accounts -> Nat]
        /\ balances'[s] = balances[s] + r
        /\ \A y \in Accounts : y # s => balances'[y] = balances[y]
    BY <1>3, <1>4, <1>5
  <1>7. UNCHANGED <<nftVars, kittyPrices, autoBreedNonce, something, sudoKey, height, accountNonce, applied>>
    BY DEF PostDispatch, templateVars
  <1>8. StorageInv'
    <2>1. BalanceInv'
      BY <1>3, <1>4, <1>6, ExistentialDepositAssumption DEF BalanceInv, NoDustAccounts
    <2>2. (NftInv /\ PriceInv /\ NonceInv)'
      BY <1>0, <1>7 DEF StorageInv, IInv, NftInv, OwnerIndexAgrees, PriceInv, ListedKittiesExist, NonceInv, nftVars
    <2> QED
      BY <1>0, <1>5, <1>7, <2>1, <2>2 DEF StorageInv, IInv, TInv
  <1>9. FeesInv'
    <2>1. TotalBalance(balances) \in Int /\ TotalBalance(balances') = TotalBalance(balances) - balances[s] + balances'[s]
      <3>1. balances \in [Accounts -> Int] /\ balances' \in [Accounts -> Int]
        BY <1>3, <1>6
      <3> QED BY <1>3, <1>6, <3>1, TotalUpdate
    <2>2. TotalBalance(balances) + e.fee = currencyIssuance /\ currencyIssuance \in Int
      BY <1>0, <1>1 DEF FeesInv, FeesAccounted, e
    <2>3. balances[s] \in Nat
      BY <1>3
    <2>4. TotalBalance(balances') + 0 = currencyIssuance' /\ currencyIssuance' \in Int
      BY <1>2, <1>4, <1>5, <1>6, <2>1, <2>2, <2>3
    <2> QED
      BY <1>5, <2>4 DEF FeesInv, FeesAccounted
  <1>10. CountInv'
    <2>1. \A a \in Accounts : balances'[a] = 0 => balances[a] = 0
      BY <1>3, <1>4, <1>6
    <2> QED
      BY <1>0, <1>7, <2>1 DEF CountInv, NonceCountsApplied
  <1>11. StageInv'
    BY <1>5, StagesDiffer DEF StageInv
  <1> QED
    BY <1>8, <1>9, <1>10, <1>11 DEF RInv

\* So does an unsigned auto_breed, which moves no money.
LEMMA ApplyUnsignedKeeps ==
  ASSUME RInv, NEW k1 \in TokenIds, NEW k2 \in TokenIds, NEW n \in 0 .. MaxNonce, NEW x \in Solutions,
         ApplyUnsigned(k1, k2, n, x)
  PROVE  RInv'
  <1>0. StorageInv /\ FeesInv /\ CountInv
    BY DEF RInv
  <1>1. IInv
    BY <1>0 DEF StorageInv
  <1>2. PICK d \in RandomValue : ApplyAutoBreed(k1, k2, n, x, d)
    BY DEF ApplyUnsigned
  <1>3. IInv'
    BY <1>1, <1>2, ApplyAutoBreedSafe DEF SafeStep
  <1>4. UNCHANGED <<balances, currencyIssuance>>
    BY <1>2 DEF ApplyAutoBreed, AutoBreed, DoBreed, balanceVars
  <1>5. executing = NoXt /\ UNCHANGED <<something, accountNonce, sudoKey, height, executing, applied>>
    BY DEF ApplyUnsigned, templateVars
  <1>6. StorageInv'
    BY <1>0, <1>3, <1>5 DEF StorageInv, TInv
  <1>7. FeesInv'
    BY <1>0, <1>4, <1>5 DEF FeesInv, FeesAccounted
  <1>8. CountInv'
    BY <1>0, <1>4, <1>5 DEF CountInv, NonceCountsApplied
  <1>9. StageInv'
    BY <1>5, StagesDiffer DEF StageInv
  <1> QED
    BY <1>6, <1>7, <1>8, <1>9 DEF RInv

\* Nothing is lost between blocks, or when nothing happens.
LEMMA RestKeeps ==
  ASSUME RInv, UNCHANGED <<vars, templateVars, accountNonce, sudoKey, executing, applied>>, height' \in Nat
  PROVE  RInv'
  <1>0. StorageInv /\ FeesInv /\ CountInv /\ StageInv
    BY DEF RInv
  <1>1. UNCHANGED <<tokens, tokensByOwner, nextTokenId, totalIssuance, balances, currencyIssuance,
                    kittyPrices, autoBreedNonce, receipt, something, accountNonce, sudoKey, executing, applied>>
    BY DEF vars, templateVars, nftVars, balanceVars
  <1>2. StorageInv'
    BY <1>0, <1>1 DEF StorageInv, IInv, NftInv, OwnerIndexAgrees, PriceInv, ListedKittiesExist, BalanceInv,
                      NoDustAccounts, NonceInv, TInv
  <1>3. FeesInv'
    BY <1>0, <1>1 DEF FeesInv, FeesAccounted
  <1>4. CountInv'
    BY <1>0, <1>1 DEF CountInv, NonceCountsApplied
  <1>5. StageInv'
    BY <1>0, <1>1 DEF StageInv, AsBefore, CostsSoFar, BySudo
  <1> QED
    BY <1>2, <1>3, <1>4, <1>5 DEF RInv

\* What a call may cost: nobody but the signer s loses anything, except a kitty for
\* the price that was asked, and s no more than the call c says.
PaysItsWay(s, c) ==
  /\ \A a \in Accounts \ {s} : balances'[a] >= balances[a]
  /\ balances[s] - balances'[s] <= AgreedSpending(c, balances[s])
  /\ \A t \in DOMAIN tokens : tokens[t].owner # s =>
       \/ /\ t \in DOMAIN kittyPrices
          /\ tokens'[t].owner = s
          /\ balances'[tokens[t].owner] = balances[tokens[t].owner] + kittyPrices[t]
       \/ /\ tokens'[t] = tokens[t]
          /\ t \in DOMAIN kittyPrices' <=> t \in DOMAIN kittyPrices
          /\ t \in DOMAIN kittyPrices' => kittyPrices'[t] = kittyPrices[t]
  /\ UNCHANGED sudoKey

\* Spending has a natural bound, which grows with the balance.
LEMMA AgreedSpendingType ==
  ASSUME NEW c, CallModelled(c), NEW b \in Nat, NEW d \in Nat, d <= b
  PROVE  /\ AgreedSpending(c, b) \in Nat /\ AgreedSpending(c, d) \in Nat
         /\ AgreedSpending(c, d) <= AgreedSpending(c, b)
  <1>1. CASE c.name = "buy"
    <2>1. c.max_price \in Nat
      BY <1>1, KittiesAssumption DEF CallModelled, PalletCallModelled
    <2> QED BY <1>1, <2>1 DEF AgreedSpending
  <1>2. CASE c.name = "balances_transfer"
    <2>1. c.value \in Nat /\ c.keep_alive \in BOOLEAN
      BY <1>2, KittiesAssumption DEF CallModelled, PalletCallModelled
    <2> QED BY <1>2, <2>1 DEF AgreedSpending
  <1>3. CASE c.name \notin {"buy", "balances_transfer"}
    BY <1>3 DEF AgreedSpending
  <1> QED
    BY <1>1, <1>2, <1>3

\* A call that changes nothing costs nothing.
LEMMA NothingPaid ==
  ASSUME IInv, NEW s \in Accounts, NEW c, CallModelled(c), UNCHANGED <<tokens, kittyPrices, balances, sudoKey>>
  PROVE  PaysItsWay(s, c)
  <1>1. balances \in [Accounts -> Nat] /\ balances[s] \in Nat
    BY DEF IInv, BalanceInv
  <1>2. AgreedSpending(c, balances[s]) \in Nat
    <2>1. balances[s] <= balances[s]
      BY <1>1
    <2> QED BY <1>1, <2>1, AgreedSpendingType
  <1> QED
    BY <1>1, <1>2 DEF PaysItsWay

\* A signed call of the pallet or of pallet_balances pays its way.
LEMMA KittiesCallPays ==
  ASSUME IInv, NEW s \in Accounts, NEW c, PalletCallModelled(c), KittiesCall(s, c), UNCHANGED sudoKey
  PROVE  PaysItsWay(s, c)
  <1>0. s \in DispatchOrigins /\ CallModelled(c)
    BY DEF DispatchOrigins, CallModelled
  <1>1. CASE receipt'.result # Ok
    <2>1. UNCHANGED <<tokens, kittyPrices, balances>>
      BY <1>1, KittiesCallFails DEF nftVars, balanceVars
    <2> QED
      BY <1>0, <2>1, NothingPaid
  <1>2. CASE receipt'.result = Ok
    <2>1. SafeStep
      BY <1>0, KittiesCallSafe
    <2>2. FairStep
      BY <1>0, KittiesCallFair
    <2>3. receipt'.origin = s /\ AgreedSpending(receipt'.call, balances[s]) = AgreedSpending(c, balances[s])
      BY <1>2, KittiesCallSays
    <2>4. balances \in [Accounts -> Nat] /\ balances' \in [Accounts -> Nat]
      BY <2>1 DEF SafeStep, IInv, BalanceInv
    <2>5. \A a \in Accounts \ {s} : balances'[a] >= balances[a]
      BY <2>2, <2>3, <2>4 DEF FairStep, Spends
    <2>6. balances[s] - balances'[s] <= AgreedSpending(c, balances[s])
      <3>1. balances[s] \in Nat /\ balances'[s] \in Nat /\ balances[s] <= balances[s]
        BY <2>4
      <3>2. AgreedSpending(c, balances[s]) \in Nat
        BY <1>0, <3>1, AgreedSpendingType
      <3>3. CASE balances'[s] < balances[s]
        BY <2>2, <2>3, <3>3 DEF FairStep, Spends
      <3>4. CASE ~(balances'[s] < balances[s])
        BY <3>1, <3>2, <3>4
      <3> QED BY <3>3, <3>4
    <2>7. ASSUME NEW t \in DOMAIN tokens, tokens[t].owner # s
          PROVE  \/ /\ t \in DOMAIN kittyPrices
                    /\ tokens'[t].owner = s
                    /\ balances'[tokens[t].owner] = balances[tokens[t].owner] + kittyPrices[t]
                 \/ /\ tokens'[t] = tokens[t]
                    /\ t \in DOMAIN kittyPrices' <=> t \in DOMAIN kittyPrices
                    /\ t \in DOMAIN kittyPrices' => kittyPrices'[t] = kittyPrices[t]
      <3>1. CASE OwnerChanges(t)
        BY <2>2, <2>3, <2>7, <3>1 DEF FairStep, Consents
      <3>2. CASE ~OwnerChanges(t)
        <4>1. tokens'[t] = tokens[t]
          <5>1. t \in DOMAIN tokens' /\ tokens'[t].data = tokens[t].data /\ tokens'[t].owner = tokens[t].owner
            BY <2>1, <2>7, <3>2 DEF SafeStep, KeepsKitties, OwnerChanges
          <5>2. tokens[t] \in [owner : Accounts, data : TokenData] /\ tokens'[t] \in [owner : Accounts, data : TokenData]
            BY <2>1, <5>1 DEF SafeStep, IInv, NftInv, TokenInfo
          <5> QED BY <5>1, <5>2
        <4>2. t \in DOMAIN kittyPrices' => t \in DOMAIN kittyPrices /\ kittyPrices'[t] = kittyPrices[t]
          BY <2>2, <2>3, <2>7 DEF FairStep, Lists
        <4>3. t \in DOMAIN kittyPrices => t \in DOMAIN kittyPrices'
          BY <1>0, <2>7, <3>2, KittiesCallUnlists
        <4> QED BY <4>1, <4>2, <4>3
      <3> QED BY <3>1, <3>2
    <2> QED
      BY <2>5, <2>6, <2>7 DEF PaysItsWay
  <1> QED
    BY <1>1, <1>2

\* So does the call of every signed extrinsic, unless it is the sudo key's.
LEMMA SignedCallPays ==
  ASSUME IInv, NEW s \in Accounts, NEW c, CallModelled(c), SignedCall(s, c),
         ~(c.name \in SudoCalls /\ IsSudo(s))
  PROVE  PaysItsWay(s, c)
  <1>1. CASE c.name \notin SudoCalls /\ PalletCall(s, c) /\ UNCHANGED sudoKey
    <2>1. PalletCallModelled(c)
      BY <1>1 DEF CallModelled, SudoCalls
    <2>2. CASE KittiesCall(s, c)
      BY <1>1, <2>1, <2>2, KittiesCallPays
    <2>3. CASE UNCHANGED <<nftVars, balanceVars, kittyPrices, autoBreedNonce>>
      BY <1>1, <2>3, NothingPaid DEF nftVars, balanceVars
    <2> QED
      BY <1>1, <2>2, <2>3 DEF PalletCall
  <1>2. CASE UNCHANGED <<nftVars, balanceVars, kittyPrices, autoBreedNonce, templateVars, sudoKey>>
    BY <1>2, NothingPaid DEF nftVars, balanceVars
  <1> QED
    BY <1>1, <1>2 DEF SignedCall, SudoCalls

\* What dispatch starts from.
LEMMA DispatchStarts ==
  ASSUME RInv, Dispatch
  PROVE  /\ executing \in Dispatching /\ executing # NoXt
         /\ executing.xt.signer \in Accounts /\ CallModelled(executing.xt.call)
         /\ executing.fee \in Nat
         /\ AsBefore(executing)
  <1>1. executing \in Dispatching /\ executing # NoXt
    BY StagesDiffer DEF RInv, Dispatch, StorageInv
  <1>2. executing.xt \in SignedExtrinsics /\ executing.fee \in Nat
    BY <1>1 DEF Dispatching
  <1>3. executing.xt.signer \in Accounts /\ executing.xt.call \in Calls
    BY <1>2 DEF SignedExtrinsics
  <1> QED
    BY <1>1, <1>2, <1>3, CallsAssumption DEF RInv, StageInv

\* The stage that follows dispatch.
LEMMA DispatchEnds ==
  ASSUME RInv, Dispatch
  PROVE  /\ executing' \in PostDispatching
         /\ executing'.xt = executing.xt /\ executing'.fee = executing.fee
         /\ executing'.before = executing.before
         /\ executing'.pays_fee = ~BySudo(executing)
  <1> DEFINE p == ~(executing.xt.call.name \in SudoCalls /\ IsSudo(executing.xt.signer))
  <1>1. executing \in Dispatching /\ AsBefore(executing)
    BY DispatchStarts
  <1>2. executing.xt \in SignedExtrinsics /\ executing.fee \in Nat /\ executing.before \in Snapshots
    BY <1>1 DEF Dispatching
  <1>3. executing' = [stage |-> "post", xt |-> executing.xt, before |-> executing.before,
                      fee |-> executing.fee, pays_fee |-> p]
    BY DEF Dispatch
  <1>4. p = ~BySudo(executing) /\ p \in BOOLEAN
    BY <1>1 DEF AsBefore, BySudo, IsSudo
  <1> HIDE DEF p
  <1> QED
    BY <1>2, <1>3, <1>4 DEF PostDispatching

\* Reaping forgets the nonce and the extrinsics of an account together.
LEMMA ReapKeeps ==
  ASSUME CountInv, Reap
  PROVE  CountInv'
  <1> DEFINE dead == {a \in Accounts : balances'[a] = 0}
  <1>1. /\ accountNonce' = [a \in Accounts |-> IF a \in dead THEN 0 ELSE accountNonce[a]]
        /\ applied' = {x \in applied : x.signer \notin dead}
    BY DEF Reap
  <1>2. /\ accountNonce \in [Accounts -> Nat]
        /\ IsFiniteSet(applied)
        /\ applied \subseteq SignedExtrinsics
        /\ \A x \in applied : x.nonce < accountNonce[x.signer]
        /\ \A a \in Accounts : accountNonce[a] = Cardinality(SignedBy(applied, a))
        /\ \A x, y \in applied : x.signer = y.signer /\ x.nonce = y.nonce => x = y
    BY DEF CountInv, NonceCountsApplied, SignedBy
  <1>3. \A a \in Accounts : balances'[a] = 0 => accountNonce'[a] = 0
    BY <1>1
  <1> HIDE DEF dead
  <1>4. accountNonce' \in [Accounts -> Nat]
    BY <1>1, <1>2
  <1>5. applied' \in SUBSET applied /\ IsFiniteSet(applied')
    <2>1. applied' \in SUBSET applied
      BY <1>1
    <2> QED BY <1>2, <2>1, FS_Subset
  <1>6. \A x \in applied' : x.nonce < accountNonce'[x.signer]
    <2>1. \A x \in applied : x.signer \in Accounts
      BY <1>2 DEF SignedExtrinsics
    <2> QED
      BY <1>1, <1>2, <2>1
  <1>7. ASSUME NEW a \in Accounts
        PROVE  accountNonce'[a] = Cardinality(SignedBy(applied', a))
    <2>1. CASE a \in dead
      <3>1. SignedBy(applied', a) = {}
        BY <1>1, <2>1 DEF SignedBy
      <3> QED
        BY <1>1, <2>1, <3>1, FS_EmptySet
    <2>2. CASE a \notin dead
      <3>1. SignedBy(applied', a) = SignedBy(applied, a)
        BY <1>1, <2>2 DEF SignedBy
      <3> QED
        BY <1>1, <1>2, <2>2, <3>1
    <2> QED BY <2>1, <2>2
  <1>8. \A x, y \in applied' : x.signer = y.signer /\ x.nonce = y.nonce => x = y
    BY <1>2, <1>5
  <1> QED
    BY <1>2, <1>3, <1>4, <1>5, <1>6, <1>7, <1>8 DEF CountInv, NonceCountsApplied, SignedBy

\* A call that pays its way costs what CostsSoFar allows.
LEMMA DispatchCosts ==
  ASSUME StorageInv, AsBefore(executing), NEW s \in Accounts, executing.xt.signer = s,
         executing \in Dispatching, CallModelled(executing.xt.call), executing.fee \in Nat,
         balances' \in [Accounts -> Nat], PaysItsWay(s, executing.xt.call),
         executing'.xt = executing.xt, executing'.fee = executing.fee,
         executing'.before = executing.before
  PROVE  CostsSoFar(executing, executing.xt.signer)'
  <1> DEFINE had == executing.before
             c == executing.xt.call
  <1>1. had.balances \in [Accounts -> Nat]
    BY DEF Dispatching, Snapshots
  <1>2. /\ tokens = had.tokens /\ kittyPrices = had.kittyPrices /\ sudoKey = had.sudoKey
        /\ balances = [had.balances EXCEPT ![s] = @ - executing.fee]
    BY DEF AsBefore
  <1>3. balances \in [Accounts -> Nat] /\ \A t \in DOMAIN tokens : tokens[t].owner \in Accounts
    BY DEF StorageInv, IInv, BalanceInv, NftInv, TokenInfo
  <1> HIDE DEF had, c
  <1>4. balances[s] = had.balances[s] - executing.fee /\ \A a \in Accounts : a # s => balances[a] = had.balances[a]
    BY <1>1, <1>2
  <1>5. balances[s] \in Nat /\ had.balances[s] \in Nat /\ balances'[s] \in Nat
    BY <1>1, <1>3
  <1>6. /\ \A a \in Accounts \ {s} : balances'[a] >= balances[a]
        /\ balances[s] - balances'[s] <= AgreedSpending(c, balances[s])
        /\ \A t \in DOMAIN tokens : tokens[t].owner # s =>
             \/ /\ t \in DOMAIN kittyPrices
                /\ tokens'[t].owner = s
                /\ balances'[tokens[t].owner] = balances[tokens[t].owner] + kittyPrices[t]
             \/ /\ tokens'[t] = tokens[t]
                /\ t \in DOMAIN kittyPrices' <=> t \in DOMAIN kittyPrices
                /\ t \in DOMAIN kittyPrices' => kittyPrices'[t] = kittyPrices[t]
        /\ sudoKey' = sudoKey
    BY DEF PaysItsWay, c
  <1>7. \A a \in Accounts \ {s} : balances'[a] >= had.balances[a]
    BY <1>4, <1>6
  <1>8. had.balances[s] - balances'[s] <= executing.fee + AgreedSpending(c, had.balances[s])
    <2>1. balances[s] <= had.balances[s]
      BY <1>4, <1>5
    <2>2. /\ AgreedSpending(c, had.balances[s]) \in Nat /\ AgreedSpending(c, balances[s]) \in Nat
          /\ AgreedSpending(c, balances[s]) <= AgreedSpending(c, had.balances[s])
      BY <1>5, <2>1, AgreedSpendingType DEF c
    <2> QED
      BY <1>4, <1>5, <1>6, <2>2
  <1>9. \A t \in DOMAIN had.tokens : had.tokens[t].owner # s =>
          \/ /\ t \in DOMAIN had.kittyPrices
             /\ tokens'[t].owner = s
             /\ balances'[had.tokens[t].owner] = had.balances[had.tokens[t].owner] + had.kittyPrices[t]
          \/ /\ tokens'[t] = had.tokens[t]
             /\ t \in DOMAIN kittyPrices' <=> t \in DOMAIN had.kittyPrices
             /\ t \in DOMAIN kittyPrices' => kittyPrices'[t] = had.kittyPrices[t]
    BY <1>2, <1>3, <1>4, <1>6
  <1>10. sudoKey' = had.sudoKey
    BY <1>2, <1>6
  <1> QED
    BY <1>7, <1>8, <1>9, <1>10 DEF CostsSoFar, had, c

\* Dispatch keeps the invariant.
LEMMA DispatchKeeps ==
  ASSUME RInv, Dispatch
  PROVE  RInv'
  <1> DEFINE s == executing.xt.signer
             c == executing.xt.call
  <1>0. StorageInv /\ FeesInv /\ CountInv /\ IInv /\ TInv /\ sudoKey \in Accounts /\ currencyIssuance \in Int
    BY DEF RInv, StorageInv, FeesInv
  <1>1. /\ executing \in Dispatching /\ executing # NoXt
        /\ s \in Accounts /\ CallModelled(c)
        /\ executing.fee \in Nat
        /\ AsBefore(executing)
    BY DispatchStarts
  <1>2. /\ executing' \in PostDispatching
        /\ executing'.xt = executing.xt /\ executing'.fee = executing.fee
        /\ executing'.before = executing.before
        /\ executing'.pays_fee = ~BySudo(executing)
    BY DispatchEnds
  <1>3. executing' # NoXt /\ executing' \notin Dispatching
    BY <1>2, StagesDiffer
  <1>4. SignedCall(s, c) /\ Reap /\ UNCHANGED height
    BY DEF Dispatch
  <1> HIDE DEF s, c
  <1>5. SoundStep /\ sudoKey' \in Accounts /\ (receipt'.result # Ok => UNCHANGED sudoKey)
    BY <1>0, <1>1, <1>4, SignedCallSound
  <1>6. IInv' /\ TInv' /\ KeepsMoney /\ (receipt'.result # Ok => Unmoved)
    BY <1>5 DEF SoundStep, SafeStep
  <1>7. StorageInv'
    BY <1>0, <1>2, <1>4, <1>5, <1>6 DEF StorageInv
  <1>8. FeesInv'
    <2>1. TotalBalance(balances) \in Int /\ TotalBalance(balances') \in Int
      <3>1. balances \in [Accounts -> Nat] /\ balances' \in [Accounts -> Nat]
        BY <1>0, <1>6 DEF IInv, BalanceInv
      <3> QED BY <3>1, TotalType
    <2>2. TotalBalance(balances) + executing.fee = currencyIssuance
      BY <1>0, <1>1 DEF FeesInv, FeesAccounted
    <2>3. /\ currencyIssuance' \in Int
          /\ TotalBalance(balances') + currencyIssuance = TotalBalance(balances) + currencyIssuance'
      BY <1>6 DEF KeepsMoney
    <2>4. TotalBalance(balances') + executing'.fee = currencyIssuance'
      BY <1>0, <1>1, <1>2, <2>1, <2>2, <2>3
    <2> QED
      BY <1>3, <2>3, <2>4 DEF FeesInv, FeesAccounted
  <1>9. CountInv'
    BY <1>0, <1>4, ReapKeeps
  <1>10. StageInv'
    <2>1. BySudo(executing)' <=> BySudo(executing)
      BY <1>2 DEF BySudo
    <2>2. receipt'.result # Ok => AsBefore(executing)'
      BY <1>1, <1>2, <1>5, <1>6 DEF AsBefore, Unmoved
    <2>3. ASSUME ~BySudo(executing)
          PROVE  CostsSoFar(executing, executing.xt.signer)'
      <3>1. ~(c.name \in SudoCalls /\ IsSudo(s))
        BY <1>1, <2>3 DEF BySudo, IsSudo, AsBefore, s, c
      <3>2. PaysItsWay(s, c)
        BY <1>0, <1>1, <1>4, <3>1, SignedCallPays
      <3>3. balances' \in [Accounts -> Nat]
        BY <1>6 DEF IInv, BalanceInv
      <3> QED
        BY <1>0, <1>1, <1>2, <3>2, <3>3, DispatchCosts DEF s, c
    <2> QED
      BY <1>2, <1>3, <2>1, <2>2, <2>3 DEF StageInv
  <1> QED
    BY <1>7, <1>8, <1>9, <1>10 DEF RInv

-----------------------------------------------------------------------------
(* Theorems *)

\* The invariant holds at genesis.
LEMMA RInitSafe == RInit => RInv
  <1> SUFFICES ASSUME RInit PROVE RInv
    OBVIOUS
  <1>1. Init /\ TInit /\ accountNonce = [a \in Accounts |-> 0] /\ sudoKey = SudoKey /\ height = 1
        /\ executing = NoXt /\ applied = {}
    BY DEF RInit
  <1>2. StorageInv
    BY <1>1, InitSafe, RuntimeAssumption DEF StorageInv, TInit, TInv
  <1>3. FeesInv
    <2>1. balances = InitialBalances /\ currencyIssuance = TotalBalance(InitialBalances)
      BY <1>1 DEF Init, BalancesInit
    <2>2. TotalBalance(InitialBalances) \in Int
      BY InitialBalancesAssumption, TotalType
    <2> QED
      BY <1>1, <2>1, <2>2 DEF FeesInv, FeesAccounted
  <1>4. CountInv
    <2>1. \A a \in Accounts : {x \in applied : x.signer = a} = {}
      BY <1>1
    <2> QED
      BY <1>1, <2>1, FS_EmptySet DEF CountInv, NonceCountsApplied
  <1>5. StageInv
    BY <1>1, StagesDiffer DEF StageInv
  <1> QED
    BY <1>2, <1>3, <1>4, <1>5 DEF RInv

\* Every step of the runtime keeps it.
LEMMA RNextSafe == RInv /\ [RNext]_rvars => RInv'
  <1> SUFFICES ASSUME RInv, [RNext]_rvars PROVE RInv'
    OBVIOUS
  <1>1. ASSUME NEW x \in Extrinsics, PreDispatch(x) PROVE RInv'
    BY <1>1, PreDispatchKeeps
  <1>2. CASE Dispatch
    BY <1>2, DispatchKeeps
  <1>3. CASE PostDispatch
    BY <1>3, PostDispatchKeeps
  <1>4. ASSUME NEW k1 \in TokenIds, NEW k2 \in TokenIds, NEW n \in 0 .. MaxNonce, NEW x \in Solutions,
               ApplyUnsigned(k1, k2, n, x)
        PROVE  RInv'
    BY <1>4, ApplyUnsignedKeeps
  <1>5. CASE NextBlock
    <2>1. UNCHANGED <<vars, templateVars, accountNonce, sudoKey, executing, applied>> /\ height' \in Nat
      BY <1>5 DEF NextBlock, RInv, StorageInv
    <2> QED
      BY <2>1, RestKeeps
  <1>6. CASE UNCHANGED rvars
    <2>1. UNCHANGED <<vars, templateVars, accountNonce, sudoKey, executing, applied>> /\ height' \in Nat
      BY <1>6 DEF rvars, runtimeVars, RInv, StorageInv
    <2> QED
      BY <2>1, RestKeeps
  <1> QED
    BY <1>1, <1>2, <1>3, <1>4, <1>5, <1>6 DEF RNext

\* The runtime keeps the invariant.
LEMMA RSafety == RSpec => []RInv
  BY RInitSafe, RNextSafe, PTL DEF RSpec

\* Fees, refunds and the modelled calls, under sudo too, leave no account below the
\* existential deposit: CurrencyAdapter withdraws with KeepAlive and a refund never revives an
\* account that the call emptied.
THEOREM FeesLeaveNoDust == RSpec => []NoDustAccounts
  <1>1. RInv => NoDustAccounts
    BY DEF RInv, StorageInv, IInv, BalanceInv
  <1> QED
    BY <1>1, RSafety, PTL

\* No money is made or lost between taking a fee, running a call and settling the
\* fee, for every set of accounts and of modelled calls.
THEOREM FeesBalance == RSpec => []FeesAccounted
  <1>1. RInv => FeesAccounted
    BY DEF RInv, FeesInv
  <1> QED
    BY <1>1, RSafety, PTL

\* CheckNonce lets no signed extrinsic be applied twice in one life of its signer,
\* and the nonce counts the extrinsics applied, however many there are.
THEOREM NoncesCount == RSpec => []NonceCountsApplied
  <1>1. RInv => NonceCountsApplied
    BY DEF RInv, CountInv
  <1> QED
    BY <1>1, RSafety, PTL

\* Only post-dispatch ends an extrinsic.
LEMMA CompletesByPost ==
  ASSUME RInv, RNext, Completes
  PROVE  PostDispatch /\ executing \in PostDispatching /\ executing.xt.signer \in Accounts
  <1>1. PostDispatch
    <2>1. ASSUME Dispatch PROVE FALSE
      BY <2>1, DispatchEnds, StagesDiffer DEF Completes
    <2> QED
      BY <2>1 DEF RNext, Completes, PreDispatch, ApplyUnsigned, NextBlock
  <1>2. executing \in PostDispatching
    BY <1>1, StagesDiffer DEF PostDispatch, RInv, StorageInv
  <1> QED
    BY <1>1, <1>2 DEF PostDispatching, SignedExtrinsics

\* A failing extrinsic, whichever modelled call it makes and under whatever origin, leaves storage as
\* it found it and costs the signer the fee; one under sudo costs nothing.
THEOREM FailuresCostTheFee == RSpec => FailureCostsOnlyFee
  <1> DEFINE Fails ==
        Completes /\ receipt.result # Ok =>
          /\ tokens' = executing.before.tokens
          /\ kittyPrices' = executing.before.kittyPrices
          /\ autoBreedNonce' = executing.before.autoBreedNonce
          /\ something' = executing.before.something
          /\ sudoKey' = executing.before.sudoKey
          /\ balances' = [executing.before.balances EXCEPT
                            ![executing.xt.signer] = @ - IF BySudo(executing) THEN 0
                                                         ELSE executing.fee]
  <1>1. ASSUME RInv, [RNext]_rvars PROVE [Fails]_rvars
    <2> SUFFICES ASSUME RNext, Completes, receipt.result # Ok PROVE Fails
      BY <1>1
    <2> DEFINE s == executing.xt.signer
               had == executing.before
               r == Refund(executing)
    <2>1. PostDispatch /\ executing \in PostDispatching /\ s \in Accounts
      BY <1>1, CompletesByPost
    <2>2. AsBefore(executing) /\ executing.pays_fee = ~BySudo(executing)
      BY <1>1, <2>1 DEF RInv, StageInv
    <2>3. UNCHANGED <<tokens, kittyPrices, autoBreedNonce, something, sudoKey>>
      BY <2>1 DEF PostDispatch, nftVars, templateVars
    <2>4. executing.fee \in Nat /\ had.balances \in [Accounts -> Nat]
      BY <2>1 DEF PostDispatching, Snapshots
    <2>5. balances = [had.balances EXCEPT ![s] = @ - executing.fee] /\ balances[s] # 0
      <3>1. balances[s] >= ExistentialDeposit /\ balances[s] \in Nat
        BY <1>1, <2>1, <2>2 DEF AsBefore, RInv, StorageInv, IInv, BalanceInv
      <3> QED
        BY <2>2, <3>1, ExistentialDepositAssumption DEF AsBefore
    <2>6. r = IF BySudo(executing) THEN executing.fee ELSE 0
      BY <2>2, <2>5 DEF Refund
    <2>7. balances' = [balances EXCEPT ![s] = @ + r]
      BY <2>1 DEF PostDispatch
    <2> DEFINE paid == IF BySudo(executing) THEN 0 ELSE executing.fee
    <2>8. balances' = [had.balances EXCEPT ![s] = @ - paid]
      <3>1. had.balances[s] \in Nat /\ (had.balances[s] - executing.fee) + r = had.balances[s] - paid
        BY <2>1, <2>4, <2>6
      <3> HIDE DEF had, r, paid, s
      <3> QED
        BY <2>1, <2>4, <2>5, <2>7, <3>1
    <2> QED
      BY <2>2, <2>3, <2>8 DEF AsBefore
  <1> QED
    BY <1>1, RSafety, PTL DEF RSpec, FailureCostsOnlyFee

\* Unless the holder of the sudo key intervenes, an extrinsic costs nobody but its
\* signer anything, save a kitty for the price asked, and the signer no more than the
\* call says plus the fee.
THEOREM SignerBearsTheCost == RSpec => CostsOnlyTheSigner
  <1> DEFINE Cost ==
        Completes /\ ~BySudo(executing) =>
          LET s   == executing.xt.signer
              had == executing.before
          IN  /\ \A a \in Accounts \ {s} : balances'[a] >= had.balances[a]
              /\ had.balances[s] - balances'[s]
                   <= executing.fee + AgreedSpending(executing.xt.call, had.balances[s])
              /\ \A t \in DOMAIN had.tokens : had.tokens[t].owner # s =>
                   \/ SoldTo(executing, t)
                   \/ /\ tokens'[t] = had.tokens[t]
                      /\ t \in DOMAIN kittyPrices' <=> t \in DOMAIN had.kittyPrices
                      /\ t \in DOMAIN kittyPrices' => kittyPrices'[t] = had.kittyPrices[t]
              /\ sudoKey' = had.sudoKey
  <1>1. ASSUME RInv, [RNext]_rvars PROVE [Cost]_rvars
    <2> SUFFICES ASSUME RNext, Completes, ~BySudo(executing) PROVE Cost
      BY <1>1
    <2>1. PostDispatch /\ executing \in PostDispatching /\ executing.xt.signer \in Accounts
      BY <1>1, CompletesByPost
    <2>2. executing.pays_fee /\ CostsSoFar(executing, executing.xt.signer)
      BY <1>1, <2>1 DEF RInv, StageInv
    <2>3. UNCHANGED <<tokens, kittyPrices, sudoKey>>
      BY <2>1 DEF PostDispatch, nftVars
    <2>4. UNCHANGED balances
      <3>1. Refund(executing) = 0
        BY <2>2 DEF Refund
      <3>2. balances \in [Accounts -> Nat]
        BY <1>1 DEF RInv, StorageInv, IInv, BalanceInv
      <3>3. balances' = [balances EXCEPT ![executing.xt.signer] = @ + 0]
        BY <2>1, <3>1 DEF PostDispatch
      <3> QED
        BY <2>1, <3>2, <3>3
    <2> QED
      BY <2>2, <2>3, <2>4 DEF CostsSoFar, SoldTo
  <1> QED
    BY <1>1, RSafety, PTL DEF RSpec, CostsOnlyTheSigner

\* A call of any pallet is a call of the template pallet or leaves it alone.
LEMMA PalletCallIsTemplate ==
  ASSUME NEW o \in DispatchOrigins, NEW c, PalletCallModelled(c), PalletCall(o, c)
  PROVE  [TNext]_<<something, outcome>>
  <1>1. o \in Origins
    BY DEF DispatchOrigins, Origins
  <1>2. CASE UNCHANGED templateVars
    BY <1>2 DEF templateVars
  <1>3. CASE c.name = "do_something" /\ DoSomething(o, c.something)
    <2>1. c.something \in 0 .. MaxValue
      BY <1>3 DEF PalletCallModelled
    <2> QED BY <1>1, <1>3, <2>1 DEF TNext
  <1>4. CASE CauseError(o)
    BY <1>1, <1>4 DEF TNext
  <1> QED
    BY <1>2, <1>3, <1>4 DEF PalletCall, TemplateCall

\* Composed into the runtime, under the origins that signatures and sudo give, the
\* template pallet behaves as it does alone.
THEOREM RuntimeRunsTemplate == RSpec => TSpec
  <1>1. RInit => TInit
    BY DEF RInit
  <1>2. ASSUME RInv, [RNext]_rvars PROVE [TNext]_<<something, outcome>>
    <2>1. ASSUME Dispatch PROVE [TNext]_<<something, outcome>>
      <3> DEFINE s == executing.xt.signer
                 c == executing.xt.call
      <3>1. s \in Accounts /\ CallModelled(c)
        BY <1>2, <2>1, DispatchStarts
      <3>2. SignedCall(s, c)
        BY <2>1 DEF Dispatch
      <3> HIDE DEF s, c
      <3>3. CASE c.name \notin SudoCalls /\ PalletCall(s, c)
        <4>1. PalletCallModelled(c) /\ s \in DispatchOrigins
          BY <3>1, <3>3 DEF CallModelled, SudoCalls, DispatchOrigins
        <4> QED BY <3>3, <4>1, PalletCallIsTemplate
      <3>4. CASE c.name = "sudo" /\ PalletCall(RootOrigin, c.call)
        <4>1. PalletCallModelled(c.call) /\ RootOrigin \in DispatchOrigins
          BY <3>1, <3>4 DEF CallModelled, PalletCallModelled, DispatchOrigins
        <4> QED BY <3>4, <4>1, PalletCallIsTemplate
      <3>5. CASE c.name = "sudo_as" /\ PalletCall(c.who, c.call)
        <4>1. PalletCallModelled(c.call) /\ c.who \in DispatchOrigins
          BY <3>1, <3>5 DEF CallModelled, PalletCallModelled, DispatchOrigins
        <4> QED BY <3>5, <4>1, PalletCallIsTemplate
      <3>6. CASE UNCHANGED templateVars
        BY <3>6 DEF templateVars
      <3> QED
        BY <3>2, <3>3, <3>4, <3>5, <3>6 DEF SignedCall
    <2>2. ASSUME ~Dispatch PROVE UNCHANGED <<something, outcome>>
      BY <1>2, <2>2 DEF RNext, rvars, PreDispatch, PostDispatch, ApplyUnsigned, NextBlock, templateVars
    <2> QED
      BY <2>1, <2>2
  <1> QED
    BY <1>1, <1>2, RSafety, PTL DEF RSpec, TSpec

\* Through whatever call it is reached, cause_error never makes the number smaller.
THEOREM NumberNeverWrapsInRuntime == RSpec => ShrinksOnlyByOverwrite
  BY RuntimeRunsTemplate, NumberNeverWraps, PTL

\* The pallet's storage stays consistent under fees, refunds and every modelled call:
\* those of the kitties, balances and template pallets, signed, by root, or made by
\* sudo in the name of others.  (System's set_storage is none of them.)
THEOREM StorageInRuntime == RSpec => [](TypeOK /\ IdsAreDense /\ OwnerIndexAgrees /\ ListedKittiesExist)
  <1>1. RInv => TypeOK /\ IdsAreDense /\ OwnerIndexAgrees /\ ListedKittiesExist
    <2> SUFFICES ASSUME IInv PROVE TypeOK /\ IdsAreDense /\ OwnerIndexAgrees /\ ListedKittiesExist
      BY DEF RInv, StorageInv
    <2>1. IdsAreDense /\ OwnerIndexAgrees /\ ListedKittiesExist
      BY DEF IInv, NftInv, PriceInv, IdsAreDense
    <2>2. TypeOK
      BY InvTyped
    <2> QED BY <2>1, <2>2
  <1> QED
    BY <1>1, RSafety, PTL

\* Root gets nothing done with kitties through the pallets: every call of theirs that
\* touches a kitty wants a signature or, as auto_breed, none.
RootLeavesKitties ==
  [][Dispatch /\ executing.xt.call.name = "sudo" => UNCHANGED <<tokens, kittyPrices>>]_rvars

\* One step of it.
RootStep == Dispatch /\ executing.xt.call.name = "sudo" => UNCHANGED <<tokens, kittyPrices>>

\* The calls of the kitties, balances and template pallets under root.
LEMMA RootRefused ==
  ASSUME NEW c, PalletCall(RootOrigin, c)
  PROVE  UNCHANGED <<tokens, kittyPrices>>
  <1>1. RootOrigin \notin Accounts /\ RootOrigin # NoneOrigin
    BY OriginAssumption
  <1>2. CASE c.name = "create" /\ \E d \in RandomValue : Create(RootOrigin, d)
    BY <1>1, <1>2 DEF Create, nftVars, Ok
  <1>3. CASE c.name = "breed" /\ \E s \in RandomValue : Breed(RootOrigin, c.k1, c.k2, s)
    BY <1>1, <1>3 DEF Breed, DoBreed, BreedResult, nftVars, Ok
  <1>4. CASE Transfer(RootOrigin, c.to, c.id)
    BY <1>1, <1>4 DEF Transfer, nftVars, Ok
  <1>5. CASE SetPrice(RootOrigin, c.id, c.price)
    BY <1>1, <1>5 DEF SetPrice, SetPriceResult, nftVars, Ok
  <1>6. CASE Buy(RootOrigin, c.owner, c.id, c.max_price)
    BY <1>1, <1>6 DEF Buy, BuyResult, KittyMoves, nftVars, Ok
  <1>7. CASE RefusedAutoBreed(RootOrigin, c.k1, c.k2, c.nonce, c.solution)
    BY <1>1, <1>7 DEF RefusedAutoBreed, AutoBreed, AutoBreedResult, DoBreed, nftVars, Ok
  <1>8. CASE BalancesTransfer(RootOrigin, c.to, c.value, c.keep_alive)
    BY <1>8 DEF BalancesTransfer, nftVars
  <1>9. CASE ForceTransfer(RootOrigin, c.from, c.to, c.value)
    BY <1>9 DEF ForceTransfer, nftVars
  <1>10. CASE UNCHANGED <<nftVars, balanceVars, kittyPrices, autoBreedNonce>>
    BY <1>10 DEF nftVars
  <1> QED
    BY <1>2, <1>3, <1>4, <1>5, <1>6, <1>7, <1>8, <1>9, <1>10 DEF PalletCall, KittiesCall

\* Through the calls of the kitties, balances and template pallets, under whatever origin
\* signatures, sudo and sudo_as give them, no kitty is destroyed or altered or handed
\* over with its old price, and root itself moves none at all.  What root can do to
\* kitties it does with set_storage, kill_storage and set_code, which are not modelled.
THEOREM KittiesInRuntime ==
  RSpec => KittiesAreForever /\ NoListingSurvivesOwnerChange /\ RootLeavesKitties
  <1>1. ASSUME RInv, [RNext]_rvars PROVE [KeepsKitties /\ Delists]_vars
    <2>1. ASSUME Dispatch PROVE KeepsKitties /\ Delists
      <3> DEFINE s == executing.xt.signer
                 c == executing.xt.call
      <3>1. s \in Accounts /\ CallModelled(c) /\ SignedCall(s, c)
        BY <1>1, <2>1, DispatchStarts DEF Dispatch
      <3>2. IInv /\ TInv /\ currencyIssuance \in Int /\ sudoKey \in Accounts
        BY <1>1 DEF RInv, StorageInv, FeesInv
      <3> HIDE DEF s, c
      <3>3. SoundStep
        BY <3>1, <3>2, SignedCallSound
      <3> QED
        BY <3>3 DEF SoundStep, SafeStep
    <2>2. ASSUME NEW k1, NEW k2, NEW n, NEW x, ApplyUnsigned(k1, k2, n, x)
          PROVE  KeepsKitties /\ Delists
      <3>1. IInv
        BY <1>1 DEF RInv, StorageInv
      <3>2. PICK d \in RandomValue : ApplyAutoBreed(k1, k2, n, x, d)
        BY <2>2 DEF ApplyUnsigned
      <3> QED
        BY <3>1, <3>2, ApplyAutoBreedSafe DEF SafeStep
    <2>3. ASSUME UNCHANGED tokens PROVE KeepsKitties /\ Delists
      BY <2>3 DEF KeepsKitties, Delists, OwnerChanges
    <2>4. ASSUME NEW x, PreDispatch(x) PROVE UNCHANGED tokens
      BY <2>4 DEF PreDispatch, nftVars
    <2>5. ASSUME PostDispatch \/ NextBlock \/ UNCHANGED rvars PROVE UNCHANGED tokens
      BY <2>5 DEF PostDispatch, NextBlock, rvars, vars, nftVars
    <2> QED
      BY <1>1, <2>1, <2>2, <2>3, <2>4, <2>5 DEF RNext
  <1>2. ASSUME Dispatch, executing.xt.call.name = "sudo" PROVE UNCHANGED <<tokens, kittyPrices>>
    <2> DEFINE c == executing.xt.call
    <2>1. SignedCall(executing.xt.signer, c) /\ c.name = "sudo"
      BY <1>2 DEF Dispatch
    <2>2. CASE PalletCall(RootOrigin, c.call)
      BY <2>2, RootRefused
    <2>3. CASE UNCHANGED <<nftVars, balanceVars, kittyPrices, autoBreedNonce>>
      BY <2>3 DEF nftVars
    <2> QED
      BY <2>1, <2>2, <2>3 DEF SignedCall, SudoCalls
  <1>3. RootStep
    BY <1>2 DEF RootStep
  <1>4. RSpec => RootLeavesKitties
    BY <1>3, PTL DEF RSpec, RootLeavesKitties, RootStep
  <1> QED
    BY <1>1, <1>4, RSafety, PTL DEF RSpec, KittiesAreForever, NoListingSurvivesOwnerChange,
                                    KeepsKitties, Delists

-----------------------------------------------------------------------------
(* Trade in the runtime *)

\* What traders are promised of a call, whatever gave it its origin.
LawfulStep == Consents /\ Lists /\ Breeds /\ MarketStep

\* A step that at most moves money.
LEMMA OnlyMoneyMoves ==
  ASSUME IInv', UNCHANGED <<tokens, kittyPrices>>
  PROVE  LawfulStep
  <1>1. Consents /\ Lists /\ Breeds
    BY DEF Consents, OwnerChanges, Lists, Breeds
  <1>2. balances' \in [Accounts -> Nat]
    BY DEF IInv, BalanceInv
  <1>3. Market!Spend
    BY <1>2 DEF Market!Spend
  <1> QED
    BY <1>1, <1>3 DEF LawfulStep, MarketStep, Market!Next

\* The calls of the kitties pallet and of pallet_balances.
LEMMA KittiesCallLawful ==
  ASSUME IInv, IInv', NEW o \in DispatchOrigins, NEW c, PalletCallModelled(c), KittiesCall(o, c)
  PROVE  LawfulStep
  <1>1. CASE c.name = "force_transfer"
    <2>1. ForceTransfer(o, c.from, c.to, c.value)
      BY <1>1 DEF KittiesCall
    <2> QED
      BY <2>1, OnlyMoneyMoves DEF ForceTransfer, nftVars
  <1>2. CASE c.name # "force_transfer"
    <2>1. FairStep
      BY <1>2, KittiesCallFair
    <2>2. MarketStep
      <3>1. CASE \E d \in RandomValue : Create(o, d)
        BY <3>1, CreateRefines
      <3>2. CASE \E d \in RandomValue : Breed(o, c.k1, c.k2, d)
        BY <3>2, BreedRefines
      <3>3. CASE c.name = "transfer" /\ Transfer(o, c.to, c.id)
        <4>1. c.to \in Accounts
          BY <3>3 DEF PalletCallModelled
        <4> QED
          BY <3>3, <4>1, TransferRefines
      <3>4. CASE c.name = "set_price" /\ SetPrice(o, c.id, c.price)
        <4>1. c.price \in Prices \cup {NoPrice}
          BY <3>4 DEF PalletCallModelled
        <4> QED
          BY <3>4, <4>1, SetPriceRefines
      <3>5. CASE c.name = "buy" /\ Buy(o, c.owner, c.id, c.max_price)
        <4>1. c.owner \in Accounts /\ c.max_price \in Prices
          BY <3>5 DEF PalletCallModelled
        <4> QED
          BY <3>5, <4>1, BuyRefines
      <3>6. CASE RefusedAutoBreed(o, c.k1, c.k2, c.nonce, c.solution)
        BY <3>6, AutoBreedRefines DEF RefusedAutoBreed
      <3>7. CASE BalancesTransfer(o, c.to, c.value, c.keep_alive)
        BY <3>7, BalancesTransferRefines
      <3> QED
        BY <1>2, <3>1, <3>2, <3>3, <3>4, <3>5, <3>6, <3>7 DEF KittiesCall
    <2> QED
      BY <2>1, <2>2 DEF FairStep, LawfulStep
  <1> QED
    BY <1>1, <1>2

\* The calls of every pallet.
LEMMA PalletCallLawful ==
  ASSUME IInv, IInv', NEW o \in DispatchOrigins, NEW c, PalletCallModelled(c), PalletCall(o, c)
  PROVE  LawfulStep
  <1>1. CASE KittiesCall(o, c)
    BY <1>1, KittiesCallLawful
  <1>2. CASE UNCHANGED <<nftVars, balanceVars, kittyPrices, autoBreedNonce>>
    BY <1>2, OnlyMoneyMoves DEF nftVars
  <1> QED
    BY <1>1, <1>2 DEF PalletCall

\* The steps of the runtime.
LEMMA RNextLawful ==
  ASSUME RInv, RInv', [RNext]_rvars
  PROVE  LawfulStep
  <1>1. IInv /\ IInv'
    BY DEF RInv, StorageInv
  <1>2. ASSUME UNCHANGED <<tokens, kittyPrices>> PROVE LawfulStep
    BY <1>1, <1>2, OnlyMoneyMoves
  <1>3. CASE Dispatch
    <2> DEFINE s == executing.xt.signer
               c == executing.xt.call
    <2>1. s \in Accounts /\ CallModelled(c) /\ SignedCall(s, c)
      BY <1>3, DispatchStarts DEF Dispatch
    <2> HIDE DEF s, c
    <2>2. CASE c.name \notin SudoCalls /\ PalletCall(s, c)
      <3>1. PalletCallModelled(c) /\ s \in DispatchOrigins
        BY <2>1, <2>2 DEF CallModelled, SudoCalls, DispatchOrigins
      <3> QED
        BY <1>1, <2>2, <3>1, PalletCallLawful
    <2>3. CASE c.name = "sudo" /\ PalletCall(RootOrigin, c.call)
      <3>1. PalletCallModelled(c.call) /\ RootOrigin \in DispatchOrigins
        BY <2>1, <2>3 DEF CallModelled, PalletCallModelled, DispatchOrigins
      <3> QED
        BY <1>1, <2>3, <3>1, PalletCallLawful
    <2>4. CASE c.name = "sudo_as" /\ PalletCall(c.who, c.call)
      <3>1. PalletCallModelled(c.call) /\ c.who \in DispatchOrigins
        BY <2>1, <2>4 DEF CallModelled, PalletCallModelled, DispatchOrigins
      <3> QED
        BY <1>1, <2>4, <3>1, PalletCallLawful
    <2>5. CASE UNCHANGED <<nftVars, balanceVars, kittyPrices, autoBreedNonce, templateVars>>
      BY <1>2, <2>5 DEF nftVars
    <2> QED
      BY <2>1, <2>2, <2>3, <2>4, <2>5 DEF SignedCall
  <1>4. ASSUME NEW k1, NEW k2, NEW n, NEW x, ApplyUnsigned(k1, k2, n, x) PROVE LawfulStep
    <2>1. PICK d \in RandomValue : ApplyAutoBreed(k1, k2, n, x, d)
      BY <1>4 DEF ApplyUnsigned
    <2>2. AutoBreed(NoneOrigin, k1, k2, n, x, d) /\ d \in Dna
      BY <2>1 DEF ApplyAutoBreed, RandomValue
    <2> QED
      BY <1>1, <2>2, AutoBreedFair, AutoBreedRefines DEF LawfulStep, FairStep
  <1>5. ASSUME NEW x, PreDispatch(x) PROVE UNCHANGED <<tokens, kittyPrices>>
    BY <1>5 DEF PreDispatch, nftVars
  <1>6. ASSUME PostDispatch \/ NextBlock \/ UNCHANGED rvars PROVE UNCHANGED <<tokens, kittyPrices>>
    BY <1>6 DEF PostDispatch, NextBlock, rvars, vars, nftVars
  <1> QED
    BY <1>2, <1>3, <1>4, <1>5, <1>6 DEF RNext

\* With fees, nonces, weights and sudo around it the pallet still implements the
\* marketplace: what a trader sees of the whole runtime are births, gifts, offers,
\* trades paid in full, and money spent elsewhere, as far as the modelled calls go.
THEOREM RuntimeIsMarketplace == RSpec => ImplementsMarketplace
  <1>1. RInit => Market!Init
    BY InitialBalancesAssumption DEF RInit, Init, NftInit, BalancesInit, Market!Init
  <1>2. RInv /\ RInv' /\ [RNext]_rvars => [Market!Next]_Market!marketVars
    BY RNextLawful DEF LawfulStep, MarketStep, MarketRests, Market!marketVars, Owners
  <1> QED
    BY <1>1, <1>2, RSafety, PTL DEF RSpec, ImplementsMarketplace, Market!Spec

\* The fee taken before a call and the refund after it change nothing about who may
\* give, list and breed a kitty: a call under sudo acts on kitties only in the
\* name of the account it is made for, and root itself on none, as far as the modelled
\* calls go.
THEOREM TradeInRuntime ==
  RSpec => OwnershipMovesByConsentOrSale /\ OnlyOwnersList /\ BreedingIsLegal
  <1>1. RInv /\ RInv' /\ [RNext]_rvars => [Consents]_vars /\ [Lists]_vars /\ [Breeds]_vars
    BY RNextLawful DEF LawfulStep
  <1> QED
    BY <1>1, RSafety, PTL
    DEF RSpec, OwnershipMovesByConsentOrSale, OnlyOwnersList, BreedingIsLegal, Consents, Lists, Breeds

=============================================================================
