------------------------------ MODULE Runtime -------------------------------
(***************************************************************************)
(* The runtime, runtime/src/lib.rs: how a signed extrinsic becomes a call  *)
(* of one of the pallets.  Executive::apply_extrinsic runs three stages:   *)
(*                                                                         *)
(*   - pre-dispatch: the SignedExtra checks era, account nonce and block   *)
(*     weight, and withdraws the fee; if one of them refuses, the          *)
(*     extrinsic is not in the block and nothing has happened;             *)
(*   - dispatch: the call runs, with the origin the signer or sudo gives;  *)
(*   - post-dispatch: the fee is refunded or burned.                       *)
(*                                                                         *)
(* A stage reads the storage the one before it wrote, so each is a step;   *)
(* nothing else happens in between.  Users may hand the same extrinsic to  *)
(* block authors any number of times and at any time.                      *)
(*                                                                         *)
(* The signed extensions, sudo and transaction payment are library code    *)
(* put together and configured here.  Weights are in units of 10^6         *)
(* picoseconds, which drops the weight 1000 of auto_breed; IdentityFee     *)
(* makes one unit of weight one unit of money.                             *)
(***************************************************************************)
EXTENDS Kitties, Template

CONSTANTS
  Calls,            \* the calls that are signed
  Lifetimes,        \* periods of mortal extrinsics; 0 is immortal
  LengthFee,        \* TransactionByteFee for the bytes of an extrinsic
  TransferWeight,   \* weight of Balances::transfer
  MaxBlockWeight,   \* BlockWeights: 2 * WEIGHT_PER_SECOND
  BlockHashCount,   \* for how many blocks hashes are kept
  SudoKey,          \* SudoConfig.key of the chain specification
  NoXt,             \* no extrinsic is being applied
  MaxIndex,         \* bound on the nonce of an account
  MaxHeight         \* bound on the block number

ASSUME RuntimeAssumption ==
  /\ Lifetimes \subseteq Nat
  /\ {LengthFee, TransferWeight, MaxBlockWeight, BlockHashCount} \subseteq Nat
  /\ SudoKey \in Accounts
  /\ MaxIndex \in Nat /\ MaxHeight \in Nat

\* A call of the kitties, balances and template pallets that the model dispatches,
\* with the types of its arguments.
PalletCallModelled(c) ==
  \/ c.name \in {"create", "cause_error"}
  \/ c.name = "breed" /\ {c.k1, c.k2} \subseteq TokenIds
  \/ c.name = "transfer" /\ c.to \in Accounts /\ c.id \in TokenIds
  \/ c.name = "set_price" /\ c.id \in TokenIds /\ c.price \in Prices \cup {NoPrice}
  \/ c.name = "buy" /\ c.owner \in Accounts /\ c.id \in TokenIds /\ c.max_price \in Prices
  \/ /\ c.name = "auto_breed" /\ {c.k1, c.k2} \subseteq TokenIds
     /\ c.nonce \in 0 .. MaxNonce /\ c.solution \in Solutions
  \/ c.name = "balances_transfer" /\ c.to \in Accounts /\ c.value \in Prices /\ c.keep_alive \in BOOLEAN
  \/ c.name = "force_transfer" /\ {c.from, c.to} \subseteq Accounts /\ c.value \in Prices
  \/ c.name = "do_something" /\ c.something \in 0 .. MaxValue

\* The same, or one of sudo's around it.
CallModelled(c) ==
  \/ PalletCallModelled(c)
  \/ c.name = "sudo" /\ PalletCallModelled(c.call)
  \/ c.name = "sudo_as" /\ c.who \in Accounts /\ PalletCallModelled(c.call)
  \/ c.name = "set_key" /\ c.new \in Accounts

\* The calls of this model.  The runtime has more: those of System, Timestamp and
\* Grandpa, set_balance and transfer_all of Balances, sudo_unchecked_weight.  Under sudo
\* System's set_storage, kill_storage and set_code rewrite storage and runtime at will,
\* so nothing here holds for a chain whose key holder uses them.
ASSUME CallsAssumption == \A c \in Calls : CallModelled(c)

\* An extrinsic, the part of storage its properties compare, and the two stages it
\* is in while it is applied.
SignedExtrinsics ==
  [signer : Accounts, nonce : Nat, call : Calls, lifetime : Lifetimes, birth : Nat]

Snapshots ==
  [tokens : UNION {[D -> TokenInfo] : D \in SUBSET TokenIds},
   kittyPrices : UNION {[D -> Prices] : D \in SUBSET TokenIds},
   autoBreedNonce : 0 .. MaxNonce, balances : [Accounts -> Nat],
   something : {NoValue} \cup 0 .. MaxValue, sudoKey : Accounts]

Dispatching ==
  [stage : {"dispatch"}, xt : SignedExtrinsics, before : Snapshots, fee : Nat]

PostDispatching ==
  [stage : {"post"}, xt : SignedExtrinsics, before : Snapshots, fee : Nat, pays_fee : BOOLEAN]

ASSUME NoXtAssumption == NoXt \notin Dispatching \cup PostDispatching

VARIABLES
  accountNonce,  \* System::Account(a).nonce
  sudoKey,       \* Sudo::Key
  height,        \* number of the block that is being built
  blockWeight,   \* System::BlockWeight, normal class
  executing,     \* the extrinsic being applied, or NoXt
  blockWork,     \* auxiliary: what the calls of the block cost by the benchmarks
  applied        \* auxiliary: extrinsics applied in the present life of their signer

templateVars == <<something, outcome>>

runtimeVars == <<accountNonce, sudoKey, height, blockWeight, executing, blockWork, applied>>

-----------------------------------------------------------------------------
(* Weights and fees *)

DbRead == 25    \* RocksDbWeight
DbWrite == 100
ExtrinsicBaseWeight == 125

\* The weights of runtime/src/weights/pallet_kitties.rs, and of the library
\* calls; auto_breed has the constant weight of lib.rs:227, and the template pallet
\* states its weights at its calls.
PalletWeight(call) ==
  CASE call.name = "create"     -> 36 + 5 * DbRead + 4 * DbWrite
    [] call.name = "breed"      -> 46 + 7 * DbRead + 4 * DbWrite
    [] call.name = "transfer"   -> 26 + 2 * DbRead + 4 * DbWrite
    [] call.name = "set_price"  -> 21 + 3 * DbRead + DbWrite
    [] call.name = "buy"        -> 67 + 4 * DbRead + 5 * DbWrite
    [] call.name \in {"auto_breed", "set_key"} -> 0
    [] call.name = "do_something" -> DbWrite
    [] call.name = "cause_error"  -> DbRead + DbWrite
    [] OTHER                    -> TransferWeight

\* Sudo charges for the call inside; sudo_as also for an account.
Weight(call) ==
  CASE call.name = "sudo"    -> PalletWeight(call.call)
    [] call.name = "sudo_as" -> PalletWeight(call.call) + DbRead + DbWrite
    [] OTHER                 -> PalletWeight(call)

\* What a successful call costs at least: auto_breed and breed both end in
\* do_breed.
Work(call) ==
  IF call.name = "auto_breed" THEN Weight([name |-> "breed"]) ELSE Weight(call)

\* The part of a block that normal extrinsics may use: NORMAL_DISPATCH_RATIO.
MaxNormalWeight == (MaxBlockWeight * 75) \div 100

\* compute_fee with IdentityFee and a constant multiplier.
Fee(call) == LengthFee + ExtrinsicBaseWeight + Weight(call)

-----------------------------------------------------------------------------
(* Pre-dispatch: SignedExtra *)

\* CheckEra: the block the extrinsic refers to is past and known, and its
\* period is not over.
CheckEra(x) ==
  x.lifetime # 0 =>
    /\ x.birth < height /\ height < x.birth + x.lifetime
    /\ height - x.birth <= BlockHashCount

\* Fault: SignedExtra without CheckNonce.
CheckNonceSkipped(x) == UNCHANGED accountNonce

\* CheckNonce: extrinsics of an account run in order.
CheckNonce(x) ==
  /\ x.nonce = accountNonce[x.signer]
  /\ accountNonce' = [accountNonce EXCEPT ![x.signer] = @ + 1]

\* CheckWeight: the block has room for the extrinsic.
CheckWeight(call) ==
  /\ blockWeight + ExtrinsicBaseWeight + Weight(call) <= MaxNormalWeight
  /\ blockWeight' = blockWeight + ExtrinsicBaseWeight + Weight(call)

\* Fault: the fee is withdrawn with AllowDeath.
FeePayableToDeath(signer, fee) == balances[signer] >= fee

\* CurrencyAdapter withdraws the fee with KeepAlive.
FeePayable(signer, fee) == balances[signer] - fee >= ExistentialDeposit

\* ChargeTransactionPayment: the fee is out of the account until post-dispatch.
\* before is auxiliary: the state the extrinsic found.
ChargeTransactionPayment(x) ==
  /\ FeePayable(x.signer, Fee(x.call))
  /\ balances' = [balances EXCEPT ![x.signer] = @ - Fee(x.call)]
  /\ executing' = [stage |-> "dispatch", xt |-> x, fee |-> Fee(x.call),
                   before |-> [tokens |-> tokens, kittyPrices |-> kittyPrices,
                               autoBreedNonce |-> autoBreedNonce, balances |-> balances,
                               something |-> something, sudoKey |-> sudoKey]]

PreDispatch(x) ==
  /\ executing = NoXt
  /\ accountNonce[x.signer] < MaxIndex
  /\ CheckEra(x)
  /\ CheckNonce(x)
  /\ CheckWeight(x.call)
  /\ ChargeTransactionPayment(x)
  /\ applied' = applied \cup {x}
  /\ UNCHANGED <<nftVars, currencyIssuance, kittyPrices, autoBreedNonce, receipt, templateVars,
                 sudoKey, height, blockWork>>

\* Auxiliary: the work of the call that ran; nothing is counted for one that failed.
CountWork(call) ==
  blockWork' = IF receipt'.result = Ok THEN blockWork + Work(call) ELSE blockWork

-----------------------------------------------------------------------------
(* Dispatch *)

\* Balances::force_transfer, for root only.
ForceTransfer(origin, from, to, value) ==
  LET result == IF origin # RootOrigin THEN "BadOrigin"
                ELSE CurrencyTransferResult(from, to, value, FALSE)
  IN  /\ IF result = Ok THEN CurrencyTransfer(from, to, value) ELSE UNCHANGED balanceVars
      /\ Dispatched(origin, [name |-> "force_transfer"], result, NoEvent)
      /\ UNCHANGED <<nftVars, kittyPrices, autoBreedNonce>>

\* A call of the kitties pallet or of pallet_balances.
KittiesCall(origin, c) ==
  \/ c.name = "create" /\ \E d \in RandomValue : Create(origin, d)
  \/ c.name = "breed" /\ \E s \in RandomValue : Breed(origin, c.k1, c.k2, s)
  \/ c.name = "transfer" /\ Transfer(origin, c.to, c.id)
  \/ c.name = "set_price" /\ SetPrice(origin, c.id, c.price)
  \/ c.name = "buy" /\ Buy(origin, c.owner, c.id, c.max_price)
  \/ c.name = "auto_breed" /\ RefusedAutoBreed(origin, c.k1, c.k2, c.nonce, c.solution)
  \/ c.name = "balances_transfer" /\ BalancesTransfer(origin, c.to, c.value, c.keep_alive)
  \/ c.name = "force_transfer" /\ ForceTransfer(origin, c.from, c.to, c.value)

\* A call of the template pallet.
TemplateCall(origin, c) ==
  \/ c.name = "do_something" /\ DoSomething(origin, c.something)
  \/ c.name = "cause_error" /\ CauseError(origin)

\* A call of the composed pallets, under some origin.
PalletCall(origin, c) ==
  \/ KittiesCall(origin, c) /\ UNCHANGED templateVars
  \/ /\ TemplateCall(origin, c)
     /\ Dispatched(origin, c, outcome'.result, NoEvent)
     /\ UNCHANGED <<nftVars, balanceVars, kittyPrices, autoBreedNonce>>

\* Fault: sudo does not ask who is calling.
IsSudoAnyone(who) == TRUE

\* The signer holds the sudo key.
IsSudo(who) == who = sudoKey

SudoCalls == {"sudo", "sudo_as", "set_key"}

\* The call of a signed extrinsic, with the origin it gets.
SignedCall(signer, c) ==
  \/ c.name \notin SudoCalls /\ PalletCall(signer, c) /\ UNCHANGED sudoKey
  \/ c.name = "sudo" /\ IsSudo(signer) /\ PalletCall(RootOrigin, c.call) /\ UNCHANGED sudoKey
  \/ c.name = "sudo_as" /\ IsSudo(signer) /\ PalletCall(c.who, c.call) /\ UNCHANGED sudoKey
  \/ /\ c.name = "set_key" /\ IsSudo(signer)
     /\ sudoKey' = c.new
     /\ Dispatched(signer, c, Ok, NoEvent)
     /\ UNCHANGED <<nftVars, balanceVars, kittyPrices, autoBreedNonce, templateVars>>
  \/ /\ c.name \in SudoCalls /\ ~IsSudo(signer)
     /\ Dispatched(signer, c, "RequireSudo", NoEvent)
     /\ UNCHANGED <<nftVars, balanceVars, kittyPrices, autoBreedNonce, templateVars, sudoKey>>

\* An account below the deposit is removed from System::Account, nonce included.
Reap ==
  LET dead == {a \in Accounts : balances'[a] = 0}
  IN  /\ accountNonce' = [a \in Accounts |-> IF a \in dead THEN 0 ELSE accountNonce[a]]
      /\ applied' = {x \in applied : x.signer \notin dead}

\* Sudo calls of the right signer are free.
Dispatch ==
  /\ executing # NoXt
  /\ executing.stage = "dispatch"
  /\ SignedCall(executing.xt.signer, executing.xt.call)
  /\ Reap
  /\ executing' = [stage |-> "post", xt |-> executing.xt, before |-> executing.before,
                   fee |-> executing.fee,
                   pays_fee |-> ~(executing.xt.call.name \in SudoCalls /\ IsSudo(executing.xt.signer))]
  /\ CountWork(executing.xt.call)
  /\ UNCHANGED <<height, blockWeight>>

-----------------------------------------------------------------------------
(* Post-dispatch *)

\* Fault: the whole fee leaves the issuance although a part was refunded.
BurnedWhole(e, refund) == e.fee

\* What is left of the fee is burned: OnUnbalanced is ().
Burned(e, refund) == e.fee - refund

\* Fault: the refund is paid out without asking whether the account still exists.
RefundToAnyone(e) == IF e.pays_fee THEN 0 ELSE e.fee

\* correct_and_deposit_fee: what goes back, into an account that exists still.
Refund(e) == IF e.pays_fee \/ balances[e.xt.signer] = 0 THEN 0 ELSE e.fee

PostDispatch ==
  /\ executing # NoXt
  /\ executing.stage = "post"
  /\ balances' = [balances EXCEPT ![executing.xt.signer] = @ + Refund(executing)]
  /\ currencyIssuance' = currencyIssuance - Burned(executing, Refund(executing))
  /\ executing' = NoXt
  /\ UNCHANGED <<nftVars, kittyPrices, autoBreedNonce, receipt, templateVars, accountNonce,
                 sudoKey, height, blockWeight, blockWork, applied>>

-----------------------------------------------------------------------------

\* An unsigned auto_breed pays no fee but takes part in the weight of the block.
ApplyUnsigned(k1, k2, nonce, solution) ==
  /\ executing = NoXt
  /\ \E s \in RandomValue : ApplyAutoBreed(k1, k2, nonce, solution, s)
  /\ CheckWeight([name |-> "auto_breed"])
  /\ CountWork([name |-> "auto_breed"])
  /\ UNCHANGED <<templateVars, accountNonce, sudoKey, height, executing, applied>>

\* finalize_block, and initialize_block of the next one.
NextBlock ==
  /\ executing = NoXt
  /\ height < MaxHeight
  /\ height' = height + 1
  /\ blockWeight' = 0
  /\ blockWork' = 0
  /\ UNCHANGED <<vars, templateVars, accountNonce, sudoKey, executing, applied>>

\* Anything a user may have signed by now.
Extrinsics ==
  {x \in [signer : Accounts, nonce : 0 .. MaxIndex - 1, call : Calls,
          lifetime : Lifetimes, birth : 0 .. height - 1] : x.lifetime = 0 => x.birth = 0}

RInit ==
  /\ Init
  /\ TInit
  /\ accountNonce = [a \in Accounts |-> 0]
  /\ sudoKey = SudoKey
  /\ height = 1
  /\ blockWeight = 0
  /\ executing = NoXt
  /\ blockWork = 0
  /\ applied = {}

RNext ==
  \/ \E x \in Extrinsics : PreDispatch(x)
  \/ Dispatch
  \/ PostDispatch
  \/ \E k1, k2 \in TokenIds, n \in 0 .. MaxNonce, x \in Solutions : ApplyUnsigned(k1, k2, n, x)
  \/ NextBlock

rvars == <<vars, templateVars, runtimeVars>>

RSpec == RInit /\ [][RNext]_rvars

-----------------------------------------------------------------------------
(* Properties *)

\* The nonce of an account counts the extrinsics it paid for, the failed ones
\* too, since the account last came into existence, and no two of them carry
\* the same one: whoever collects signed extrinsics can have none of them
\* applied twice in one life of the account.  When an account falls below the
\* deposit its nonce is forgotten.
NonceCountsApplied ==
  /\ \A a \in Accounts : accountNonce[a] = Cardinality({x \in applied : x.signer = a})
  /\ \A x, y \in applied : x.signer = y.signer /\ x.nonce = y.nonce => x = y
  /\ \A a \in Accounts : balances[a] = 0 => accountNonce[a] = 0

\* Money is neither made nor lost between withdrawing a fee, running a call that
\* moves money or reaps the payer, and refunding or burning the fee.
FeesAccounted ==
  TotalBalance(balances) + (IF executing = NoXt THEN 0 ELSE executing.fee) = currencyIssuance

\* An extrinsic is over in this step.
Completes == executing # NoXt /\ executing' = NoXt

\* The signer used the sudo key as the key was before.
BySudo(e) == e.xt.call.name \in SudoCalls /\ e.xt.signer = e.before.sudoKey

\* An extrinsic that fails costs its signer the fee and changes nothing else,
\* though its checks run after the fee has been taken and buy has moved the
\* kitty by the time the payment fails.  A failing call under sudo costs nothing.
\* In particular auto_breed, signed or under sudo, neither breeds nor spends the
\* nonce that the unsigned extrinsics in the pool carry.
FailureCostsOnlyFee ==
  [][Completes /\ receipt.result # Ok =>
       /\ tokens' = executing.before.tokens
       /\ kittyPrices' = executing.before.kittyPrices
       /\ autoBreedNonce' = executing.before.autoBreedNonce
       /\ something' = executing.before.something
       /\ sudoKey' = executing.before.sudoKey
       /\ balances' = [executing.before.balances EXCEPT
                         ![executing.xt.signer] = @ - IF BySudo(executing) THEN 0
                                                      ELSE executing.fee]]_rvars

\* What an account had before the extrinsic e and has no more: the kitty t was
\* sold at the price it asked, to the signer.
SoldTo(e, t) ==
  LET seller == e.before.tokens[t].owner
  IN  /\ t \in DOMAIN e.before.kittyPrices
      /\ tokens'[t].owner = e.xt.signer
      /\ balances'[seller] = e.before.balances[seller] + e.before.kittyPrices[t]

\* Unless the holder of the sudo key intervenes, an extrinsic takes nothing from
\* anybody but its signer, except a kitty for the price that was asked, changes
\* nobody else's listings, and costs the signer at most what the call says plus
\* the fee.
CostsOnlyTheSigner ==
  [][Completes /\ ~BySudo(executing) =>
       LET s   == executing.xt.signer
           had == executing.before
       IN  /\ \A a \in Accounts \ {s} : balances'[a] >= had.balances[a]
           /\ had.balances[s] - balances'[s]
                <= executing.fee + AgreedSpending(executing.xt.call, had.balances[s])
           /\ \A t \in DOMAIN had.tokens : had.tokens[t].owner # s =>
                \/ SoldTo(executing, t)
                \/ /\ tokens'[t] = had.tokens[t]
                   /\ t \in DOMAIN kittyPrices' <=> t \in DOMAIN had.kittyPrices
                   /\ t \in DOMAIN kittyPrices' => kittyPrices'[t] = had.kittyPrices[t]
           /\ sudoKey' = had.sudoKey]_rvars

\* "We allow for 2 seconds of compute" (runtime/src/lib.rs:139): the calls in a
\* block take no longer than the weight of a block.
ComputeWithinLimit == blockWork <= MaxBlockWeight

=============================================================================
