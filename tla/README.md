# Substrate Kitties in TLA+

A model of the blockchain in this repository: the kitties pallet and its
off-chain worker, the runtime that charges for its calls and decides their
origins, the production of blocks, the template pallet and the life of a node.
TLC checks small instances of it, TLAPS proves the central properties for every
size.

## The system

| part | state it keeps | operations | what is hard about it |
|---|---|---|---|
| kitties pallet (`pallets/kitties/src/lib.rs:55-323`) | `KittyPrices`, `AutoBreedNonce`, `ClassId`; the kitties themselves are tokens of `orml_nft` | `create`, `breed`, `transfer`, `set_price`, `buy`, `auto_breed`, `validate_unsigned` | ownership is recorded three times (token, owner index, price); `buy` has two effects of which the second may fail; `auto_breed` is unsigned |
| off-chain worker (`lib.rs:325-374`) | a lock in the node's local storage; local variables | find two kitties, find a proof of work, submit `auto_breed` | runs next to the chain on an old snapshot; lock with deadlines; crashes; random searches that must end |
| `orml_nft` | `Tokens`, `TokensByOwner`, `NextTokenId`, `Classes` | `mint`, `transfer` | external; the end of the id space |
| `pallet_balances` | accounts, total issuance | `transfer`, `transfer_keep_alive`, `Currency::transfer` | external; existential deposit, reaping |
| runtime (`runtime/src/lib.rs`, `weights/`) | account nonces, sudo key, weight of the block | checks, fee, call and refund of a signed extrinsic; unsigned extrinsics; sudo | three stages, each on what the one before left; accounts that die on the way; weights that must bound the work |
| block production (`service.rs:82-106`, `208-256`; `runtime/src/lib.rs:108-118`, `202-235`) | chain and clock of every authority, last slot it looked at | author, miss a slot, import, restart | slots are counted by node and runtime separately; clocks differ; forks; upgrades |
| chain specification (`node/src/chain_spec.rs`, `load_spec`) | constants | two built-in chains, or a file | the genesis of the two parts above |
| template pallet (`pallets/template/src/lib.rs`) | `Something` | `do_something`, `cause_error` | width of the number |
| node service (`node/src/service.rs`, `command.rs`) | the task manager | `new_partial`, `new_full`, `new_light`, `run` with its subcommands | tasks run while the node is being built; steps that fail; essential tasks; commands that build half a node |
| runtime APIs, RPC, argument parsing, benchmarks | | | see *Not modelled* |

Parts interact by calls (pallet to pallet), by the transaction pool (worker to
chain) and by snapshots of the state (chain to worker). The pallet is correct
when owner index, tokens and prices agree, when nobody loses a kitty or money
without having agreed, when kitties last, and when one proof of work breeds once.
The runtime is correct when every extrinsic is paid for by its signer, once, and a
failing one costs nothing but the fee. Block production is correct when honest blocks
are valid and no authority signs two for a slot.
The worker is correct when it ends, leaves no lock behind, keeps to one at a time
and submits only what can succeed. The service is correct when an incomplete node is never on
the network and a node never survives its essential tasks.

## Modules

| module | models | how |
|---|---|---|
| `Frame` | accounts, origins, storage maps | a storage map with `OptionQuery` is a function whose domain is the set of keys present |
| `OrmlNft`, `Balances` | the two external pallets | every operation is a pair: a result (the first check that fails, or `Ok`) and an effect |
| `KittyDna` | DNA as bits: gender and inheritance | operators shared by the modules below |
| `KittyBytes` | the loop of `do_breed` on bytes | the operators of `u8` by the bits of a number; the reference is `KittyDna` |
| `Kitties` | the kitties pallet | one action per call; a call that fails leaves a receipt only, because every check comes before the first write, or, in `buy`, because of `#[transactional]`. A step leaves a `receipt` with origin, call, result and event |
| `Marketplace` | what the pallet promises to traders | abstract specification with owners, asks and purses; `Kitties!ImplementsMarketplace` is the refinement |
| `KittiesHistory` | observers of the chain | an indexer that sees only events; a record of the unsigned extrinsics in the chain |
| `OffchainWorker` | `run_offchain_worker`, lock, pools, authors, crashes, forks | threads in stages `start`, `draw`, `mine`, `exit`, composed with `Kitties` |
| `Runtime` | the life of an extrinsic | `PreDispatch`, `Dispatch`, `PostDispatch`, `ApplyUnsigned`, `NextBlock`, composed with `Kitties` and `Template` |
| `ChainSpec` | the chains a node can run | genesis records, used by `MCRuntime` and `MCProduction` |
| `Production` | Aura as configured, timestamp inherents | every authority has a clock, a chain and a last slot |
| `Template` | the template pallet | two actions, which `Runtime` dispatches |
| `NodeService` | commands, builders and life of a node | a builder is a list of steps that may fail and may spawn a task |
| `KittiesProofs`, `MoneyProofs` | theorems about `Kitties` | see *Proofs* |
| `HistoryProofs`, `BytesProofs`, `WorkerProofs`, `ProductionProofs`, `RuntimeProofs`, `ServiceProofs` | theorems about `KittiesHistory`, `KittyBytes`, `OffchainWorker`, `Production`, `Runtime` with `Template`, and `NodeService` | see *Proofs* |
| `MCKitties`, `MCHistory`, `MCBytes`, `MCWorker`, `MCRuntime`, `MCProduction` | instances for TLC; `MCBytes` also compares the operators of `KittyBytes` with those of `Bitwise` | |

Definitions whose comment begins with *Fault* are deliberate errors that no
specification uses. Each is a variant of the definition that follows it, and
shows that some property would notice that error.

### Choices in the model

* DNA is a function from bits to Booleans, except in `KittyBytes`, which shows that
  the arithmetic of the code on bytes comes to the same.
* `random_value` is any value: the code hashes seed, sender and extrinsic index.
* A proof of work is checked against an arbitrary function `HashOf`.
* `ClassId` is constant after genesis and is left out with the class argument.
* `#[pallet::call]` of this FRAME version does not roll back on error. The model
  therefore follows the order of checks and writes in each call.
* An unsigned extrinsic that is refused is not in a block. One that is accepted
  spends its nonce in `validate_unsigned`, run by `pre_dispatch`; the write stays
  when the call fails. Validation for the pool is run on a state that is thrown
  away, and does not spend it.
* In `Kitties` a step is a whole extrinsic, free of charge. `Runtime` splits it into
  its stages, because each reads what the one before it wrote: the fee is gone when
  the call runs, and the call may have emptied the account the refund would go to.
  Nothing else happens between the stages.
* "Nobody loses money without having signed" is meant without sudo in `Kitties`; in
  `Runtime` sudo can act for anybody, and the properties say what others cannot.
  A call under sudo succeeds even if the call inside fails; the receipt has the inner result.
* Weights are in units of 10^6 picoseconds, so the weight 1000 of `auto_breed` is 0, and
  so is what sudo adds for itself. `IdentityFee` makes a unit of weight a unit of money,
  so the instances scale balances down with it; deposit and fees keep their relation.
* Anyone may hand in any extrinsic ever signed again. Signatures, spec version and genesis
  hash are not modelled; an extrinsic is the signer's if it says so.
* In `Production` a block is its header: slot, timestamp, and the `MinimumPeriod` of the
  runtime it leaves behind. Clocks move in both directions. The node asks for the slot
  duration once and keeps it; the runtime always has its own.
* The lock of the worker expires when both its block (the worker's plus one) and
  its time (20 s) are past, and is cleared by whoever drops a guard. `TryLock`
  reads and writes it in one step, as the compare-and-set of the storage does.
* The pool may refuse what a worker submits, for any reason. `validate_unsigned`
  provides no tag (the test in `tests.rs` expects `provides: vec![]`), and a pool that insists on tags
  refuses every such extrinsic; the properties do not depend on it.
* A worker that is slower than its lock is possible: the variable `late` marks a node from
  the moment a worker inside has overrun its deadline until nobody is inside. Exclusion
  is promised to nodes that are not late; that no lock stays set (`NoStuckLock`) is
  promised to all.
* `Fork` remembers a state of the chain and `Reorg` returns to it; what follows is the other
  fork. A worker and its extrinsic keep a count `shared` of how many of the kitties the
  worker saw are still the ones of the best chain. Pools lose extrinsics at any time, keep
  them after inclusion, and so offer them again after a re-organisation.

## Runs

| run | bounds | shows |
|---|---|---|
| `market` | 3 accounts, 1 kitty, prices 0, 1, 3 around a deposit of 2, one account with money | sales are atomic, paid for and authorised; a price dies with the ownership; no dust, no money made; refinement of `Marketplace` |
| `two_kitties` | 2 accounts, 2 kitties, ids used up | ids and owner index agree, prices are the owner's; kitties keep id and DNA; only owners list; events tell an indexer the whole story |
| `breeding` | 2 accounts, 3 kitties of 2 bits, nonces to 2, two proofs of work per nonce | parents, DNA and owner of every kitten, signed or not; one inclusion per nonce, failed ones too, until the counter sticks |
| `bytes` | 2 bytes of 2 bits, all parents of opposite gender, all selectors | the loop on bytes inherits bit by bit |
| `replay` | 1 account, 3 kitties, nonces to 2 | **violated**: at the last nonce the same extrinsic is included twice |
| `lock` | 2 threads of a node, 2 kitties, 4 blocks, 1 tick, deadline 0 | workers exclude one another, through crashes and expiry; after an overrun, again once the node has come to rest; no worker leaves a lock behind, and one left by a crash expires; every worker ends |
| `worker` | 1 thread, 3 kitties, 2 nonces, pool of 2, forks | what a worker submits is dropped as stale or breeds, while its parents are on the best chain; only the end of the ids makes it fail |
| `fees` | 3 accounts, one of them new, 1 kitty, 2 extrinsics each, immortal and mortal, 2 blocks | the fee is all a failing extrinsic costs; others pay nothing; no dust |
| `sudo` | 2 accounts, nonces to 2, all sudo calls by both, payments that empty an account, `auto_breed` in every form, a template number of at most 2 | only the key holder has power, also while the key is handed on; refunds to the dead are burned; no money is lost between the stages; nothing is applied twice in one life of an account; the number never wraps |
| `compute` | 1 account, 4 kitties, blocks of 1500 units | **violated**: a few breedings at weight 0 exceed the block |
| `production` | 2 authorities, chains of 4 blocks, clocks from 2 to 8, slot duration 3, upgrade to 4 | honest blocks are valid; an upgrade of the duration stops the chain; one block per slot and authority, with forks and clocks set back |
| `service` | 10 commands, 96 configurations | the network opens last; maintenance never authors; the end of an essential task ends the node |

The bounds are the smallest at which the cases exist: a kitty must be able to go
round three owners and come back; two kitties show that a call on one leaves the
other alone, and three are a breeding, in which parents need a bit that tells their gender and one
they may have in common; a nonce needs a first, a middle and a last value.
Prices lie below and above the deposit, so that payments fail for each reason.
Accounts in the runtime's instances start with two or three times the fee, so that they
get into every state between rich and reaped. `sudo` reaches the case in which an
account is emptied, funded again and its old extrinsic applied a second time, which
`NonceCountsApplied` permits: with the account its nonce is gone, and only mortality protects the signer.
An odd slot duration is not what the code has (2000), but what `MinimumPeriod` would make of it.
`MCSymmetry` (`market`) exchanges accounts that no constant tells apart. `MCView` hides the receipt, which no guard reads and the properties of these runs read only in the
state a step leads to, from the comparison of states (`worker`, `lock` and `breeding`); in `fees` it
hides it between extrinsics, together with auxiliary variables no guard reads. `MCNonceView`
(`sudo`) keeps of the applied extrinsics their number and nonces, all that `NonceCountsApplied` reads.

**Fairness.** `lock` assumes that a started thread goes on
(`WF(WorkerStep(w))`), which is what the executor's thread pool does; no fairness
of blocks, clock or pool is needed. `WorkersFinish` says that a worker returns; that its lock is
then gone is the safety property `NoStuckLock`. `service` assumes that the main thread goes
on building and then polls the task manager.

**Findings.** 1. The comment at `lib.rs:86` promises a "Nonce for auto breed to prevent
replay attack". `saturating_add` (`lib.rs:250`) keeps the nonce at `u32::MAX` for ever
once it gets there, and from then on an extrinsic is accepted any number of times.
Reaching that value takes 2^32 - 1 accepted extrinsics.
2. `runtime/src/lib.rs:139` says "We allow for 2 seconds of compute". `auto_breed` is declared at
weight 1000 (`lib.rs:227`) and does the work of `breed`, whose benchmark says about
half a million times as much; the weight limit therefore does not bound the time of a block
that has many of them. The number of solutions found limits them in practice.

## Proofs

Theorems hold for all constants that satisfy the named assumptions, TLC's runs for the
instances above. Of the 36 properties that the passing runs check, 34 are also theorems; the other two are liveness. In every module
the argument is the same: an inductive invariant, one lemma per action that
shows the action keeps it, and the theorems as its consequences.

**`KittiesProofs`**: `TypeCorrect`, `DenseIds`, `OwnersAgree`, `ListingsExist`, `NoDust`,
`KittiesStay`, `ListingsEndWithOwnership`. The invariant is `IInv`, the conjunction of `NftInv`
(tokens are exactly the ids below `nextTokenId`, counted by `totalIssuance` and mirrored by the
owner index), `PriceInv`, `BalanceInv` and `NonceInv`. Its parts need one another: that a
listed kitty exists follows from the owner index at `set_price`; that the index stays
right at a mint needs the density of ids (the new id is not in use); that a payment keeps
balances natural needs prices that are. The argument has two layers: what an effect
does to storage (`MintStep`, `MoveStep`, `PayStep`, `DelistStep`), then, for each call, that it
is one of these effects or none (`CreateSafe` to `BalancesTransferSafe`, whose conclusion
`SafeStep` carries the invariant and both action properties).

In its second part: `ConsentOrSale`, `AuthorisedSpending`, `OwnersList`, `LegalBreeding`. These
are properties of steps. `IInv` is enough for them; for each call one lemma shows
`FairStep`, the four properties at once. For `buy` it needs that buyer and seller differ, that the named seller is the owner (which
the NFT transfer checks in `tokens`), and that a successful payment moves exactly the price; for a breeding that both
parents exist and that the kitten's id is none of theirs (`NftInv`).

In its third part: `PalletIsMarketplace`. The mapping takes owners from `tokens`, asks from
`kittyPrices` and purses from `balances`. Every call is a step of `Marketplace` or leaves all three
alone (`MarketStep`); a `buy` is one `Trade`, though the code takes the price, moves the kitty and pays in turn.

**`HistoryProofs`**: `EventsTellAll`, `PricesAreTheOwners`, `NoncesAreSpent`,
`ReplayNeedsSaturation`. The invariant `HInv` adds to `IInv` that the indexer's copy is equal to
storage (`IndexInv`), and that the nonces of included extrinsics are below the counter
unless it has stuck (`IncludedInv`). The second part is what makes "one inclusion per
nonce" inductive: what is included next carries the counter's value, which no earlier one does.

**`MoneyProofs`**: `MoneyIsConserved`, `NoBalanceWraps`. `TotalBalance` is a fold over accounts,
that is, a recursive function chosen by its equation. The provers cannot instantiate the
induction theorems, so the module argues by the smallest counterexample: among
sets of accounts for which a statement fails there is one whose strict subsets all satisfy
it. In this way it shows that the function exists, that the order of
addition does not matter (`SumsAnyFirst`), and what one changed balance does to the sum (`TotalUpdate`). A payment is then two changed
balances, less dust that is taken off the issuance too. `NoBalanceWraps` is why
`Balances` may do without the width of a `u128`: no balance exceeds the money of genesis.

**`BytesProofs`**: `BytesInherit`, `GenderIsInherited`, for bytes of any width and DNA of any length. A
byte is a number and `Bit` divides it, so the work is to show that a number below 2^n is its n
bits: every choice of bits is the bits of one number (`NumberOfBits`), and `!` flips each of them
(`ComplementFlips`). Both go by induction on n, stated of a set of numbers that holds 0 and the
successor of each of its elements (`Induction`), since the library's induction theorems cannot be
instantiated; the same form shows that the recursive function `Pow2` exists. With these,
`combine_dna` picks each bit from the parent the selector names (`CombineByteBits`), and the invariant
`BInv` of the loop says that the bytes before `i` are combined.

**`WorkerProofs`**: `WorkersTyped`, `LockHeld`, `MutualExclusion`, `LocksComeOff`, `PairsCanBreed`, `BreedsSucceed`,
`StorageThroughReorgs`, `WorkersWearOut`.
The invariant `OInv` is `ChainInv` (`IInv` of the best chain, the same of the remembered ancestor, and that the first extends the second), `NodeInv`
(types), `BlockInv` (no worker comes from a future block, so a deadline that has passed
for a worker has passed for its node), `LockInv` (`HolderKeepsLock` and `LockExclusive`, which are
inductive only together: a second worker gets in when the lock is free or expired, and
the first, having kept it, rules out the one and by `late` the other), `SnapshotInv` and
`PoolInv` (the kitties below `shared` that a worker saw are on the best chain, and the
pair it settled on differs in gender). `StorageThroughReorgs` is the part of `OInv` that speaks of storage:
it holds on whatever fork is the best chain. `LocksComeOff` needs, next to `OInv`, that no lock outlasts
one taken now (`LockBound`), which rests on `BlockInv`; a lock that is set stays with its owner
(`OwnerStays`) or has just been taken by one (`TakerOwns`), whether or not the node is late. `WorkersWearOut` is the safety half of `WorkersFinish`:
`StepsLeft`, the rounds that remain and the two stages after them, goes down with every
step of a worker and is raised by no step of anyone else, so a worker returns within `MAX_ITERATIONS + 3`
steps; only that the executor lets it take them is left to fairness.

**`ProductionProofs`**: `OneBlockPerSlot`, `TimestampsFit`, `UpgradeEndsProduction`. The invariant
`PInv` is `ClockInv`, `ChainsInv` (every block lies in the slot of its timestamp by the
duration of genesis, and no block follows one that changed it) and `SealInv` (the slots an
authority has sealed are no later than the one it remembers, unless it was restarted). The first two theorems
use only arithmetic of slots; the third also that two durations never agree on
the slot of a time after the epoch.

**`RuntimeProofs`**: `FeesLeaveNoDust`, `FeesBalance`, `NoncesCount`, `FailuresCostTheFee`,
`SignerBearsTheCost`, `StorageInRuntime`, `KittiesInRuntime`, `NumberNeverWraps`,
`RuntimeRunsTemplate`, `NumberNeverWrapsInRuntime`, `RuntimeIsMarketplace`, `TradeInRuntime`. An extrinsic takes three steps, so
what it costs is a statement about the first and the last of them. The invariant `RInv` carries it across:
`StorageInv` (`IInv`, the range of the template's number, and types), `FeesInv` (balances and the fee that is out
add up to the issuance), `CountInv` (`NonceCountsApplied`, and that what has been applied carries
a smaller nonce) and `StageInv`, which says of the stage `dispatch` that storage is as it was but for the
fee, and of the stage `post` how far it may differ, by the result in the receipt.
`RuntimeRunsTemplate` is a refinement: the runtime's behaviours, seen through the variables of
`Template`, are behaviours of `Template`, which carries `NumberNeverWraps` over. `RuntimeIsMarketplace` is one of the whole runtime, sudo and
unsigned extrinsics included: a dispatched call is a step of the marketplace under whatever origin it runs, and
all other stages only move money (`LawfulStep`); `TradeInRuntime` says the same of the
consent of owners, of listings and of breeding. All of these are about the calls the model has (`CallModelled`).
A key holder who has `System::set_storage`, `kill_storage` or `set_code` dispatched can rewrite kitties, balances
and the runtime itself; what `KittiesInRuntime` shows is that the pallets give root no other way: under its own
origin none of their calls touches a kitty (`RootLeavesKitties`).

**`ServiceProofs`**: `NetworkIsLast`, `AuthoringIsBuiltOn`. First what the lists of steps are: which step
of a full node or a light client spawns what (`FullPlaces`, `LightPlaces`), and that no other
command opens the network or authors (`OtherCommands`). Hence the network is opened by the last step, which cannot fail and comes after every
task of the node (`OpeningIsLast`), and authoring after the tasks it needs (`AuthoringIsLate`). The
invariant `SInv` ties them to the process: until it ends, running and ended tasks together
are what the steps so far have spawned, and the network is open only when no step is left.

**Assumptions**, each evaluated by TLC on the runs' instances: a deposit of at least 1, natural
prices, genesis balances that respect the deposit, DNA of at least one bit; finitely
many accounts (`AccountsFinite`: an id has 32 bytes); bytes and DNA that are not empty, with as many bits as the bytes have together; calls of the modelled kinds with arguments
of their types (`CallsAssumption`, a restriction of the model: the runtime decodes other calls too, see *Not modelled*); slot durations of at least 2
and clocks past the epoch (`EpochAssumption`: milliseconds since 1970, so that slots are numbered in the
hundreds of millions); `NoXt` is not an extrinsic.

**Only model-checked:**

* `WorkersFinish` and `EssentialTasksAreEssential`, which are liveness under fairness and out of the prover's reach
  (for the first, see `WorkersWearOut`);
* `NoReplay` and `ComputeWithinLimit`, which are false.

## Not modelled

* Runtime APIs: one-line delegations. Those with an effect are part of `Runtime`, `Production`
  and `OffchainWorker`.
* Calls that `construct_runtime` exposes and `Runtime` leaves out: those of `System`, `Timestamp` and
  `Grandpa`, `set_balance` and `transfer_all` of `Balances`, and `sudo_unchecked_weight`. They are library code
  that knows nothing of kitties, but it is not true that nothing depends on them: under sudo `System::set_storage`,
  `kill_storage` and `set_code` change any storage, kitties included, and `set_balance` makes and destroys money. The
  theorems about the runtime hold for chains on which they are not used.
* The length of blocks; locks and reserves of balances.
* GRANDPA: library code the node only starts.
* RPC, argument parsing, build scripts: registration and declarations without state.
* Benchmarks, mock runtimes and tests, which never run on a chain; the tests were read for
  what they expect.
* The tag that `validate_unsigned` does not provide: whether a pool insists on it is not in this
  repository.
* A restart in the middle of a slot: nothing in the repository keeps an authority from signing again,
  so `NoEquivocation` leaves restarted authorities out.

## Plan

1. Core: `Kitties` with its external pallets, `Marketplace`, runs and first
   theorems. *Done.*
2. Worker, observers, template, service. *Done.*
3. Runtime, chain specification, weights. *Done.*
4. Bytes, forks, overrun locks, block production, subcommands. *Done.*
5. Proofs. *Done* for every safety property that a passing run checks (see *Only model-checked*).
