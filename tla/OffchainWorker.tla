-------------------------- MODULE OffchainWorker ----------------------------
(***************************************************************************)
(* The pallet's off-chain worker, run_offchain_worker                      *)
(* (pallets/kitties/src/lib.rs:325-374), composed with the chain it reads  *)
(* from and submits to.                                                    *)
(*                                                                         *)
(* A node starts a worker for a new best block (offchain_worker,           *)
(* lib.rs:139).  The worker sees the state of that block however long it   *)
(* runs, while the chain moves on, or moves to another fork.  Workers of   *)
(* one node exclude one another with a lock in the node's local storage    *)
(* that survives a crash and expires.  What a worker finds goes to the     *)
(* transaction pools, from where block authors take it.                    *)
(*                                                                         *)
(* The lock (sp_runtime::offchain::storage_lock), the pools and the choice *)
(* of the best chain are external, modelled from how the worker uses them. *)
(***************************************************************************)
EXTENDS Kitties

CONSTANTS
  Nodes,          \* nodes that run off-chain workers
  Workers,        \* worker threads
  NodeOf,         \* the node a worker thread belongs to
  MaxIterations,  \* MAX_ITERATIONS, 500 in the code
  Prefixes,       \* values of rng.next_u32() used as solution_prefix
  PrefixShift,    \* 2^32: a solution is (prefix << 32) + i
  LockTimeout,    \* expiration of the lock in time, 20 s
  NoLock,         \* the lock is not set
  Reorgs,         \* TRUE when the best chain may move to another fork
  PoolLimit,      \* how many extrinsics the pools hold
  MaxBlock,       \* bound on the block number
  MaxClock        \* bound on the clock

ASSUME WorkerAssumption ==
  /\ NodeOf \in [Workers -> Nodes]
  /\ MaxIterations \in Nat \ {0}
  /\ Prefixes \subseteq Nat
  /\ PrefixShift \in Nat
  /\ LockTimeout \in Nat
  /\ PoolLimit \in Nat
  /\ Reorgs \in BOOLEAN
  /\ NoLock \notin [block : Nat, time : Nat]

VARIABLES
  block,     \* number of the best block
  clock,     \* sp_io::offchain::timestamp
  lock,      \* "kitties/lock" of every node: NoLock or the deadline
  worker,    \* the state of every worker thread
  pool,      \* unsigned extrinsics waiting for a block author, in any pool
  ancestor,  \* the state of a block that other forks start from
  late       \* auxiliary: nodes where someone overran its lock, see Overruns

workerVars == <<block, clock, lock, worker, pool, ancestor, late>>

-----------------------------------------------------------------------------
(* A worker *)

\* at: where run_offchain_worker is; block, count, nonce, seen: the number and
\* the state of its block; left: remaining_iterations; k1, k2: the pair it drew;
\* deadline: what it wrote to the lock.  shared is auxiliary: as many of the
\* kitties it saw are on the best chain still.
Idle == [at |-> "idle"]

\* A worker for the new best block.
Started(b) ==
  [at |-> "start", block |-> b, count |-> nextTokenId, nonce |-> autoBreedNonce,
   seen |-> [t \in DOMAIN tokens |-> tokens[t].data], shared |-> nextTokenId,
   left |-> MaxIterations, k1 |-> 0, k2 |-> 0, deadline |-> NoLock]

\* The state of s when run_offchain_worker is about to return.
Exit(s) == [at |-> "exit", deadline |-> s.deadline]

\* The worker holds the lock, or believes it does.
Inside(w) == worker[w].at \in {"draw", "mine", "exit"}

\* Nodes import a block and start a worker for it, on the idle threads ws,
\* one to a node; a node may also have none to spare, or be down.
NewBlock(ws) ==
  /\ block < MaxBlock
  /\ \A w \in ws : worker[w] = Idle
  /\ \A v, w \in ws : NodeOf[v] = NodeOf[w] => v = w
  /\ block' = block + 1
  /\ worker' = [w \in Workers |-> IF w \in ws THEN Started(block + 1) ELSE worker[w]]
  /\ UNCHANGED <<vars, clock, lock, pool, ancestor>>

\* BlockAndTime::has_expired: both the block and the time are past.
HasExpired(deadline, b) == clock > deadline.time /\ b > deadline.block

\* with_block_deadline(.., 1) and the default duration of the lock.
Deadline(b) == [block |-> b + 1, time |-> clock + LockTimeout]

\* Fault: a worker that does not get the lock drops a guard all the same.
LockAfterRefusalCleared(n) == [lock EXCEPT ![n] = NoLock]

\* `?` returns before there is a guard to drop.
LockAfterRefusal(n) == lock

\* try_lock: taken when it is free or expired; otherwise the worker gives up.
TryLock(w) ==
  LET n == NodeOf[w]
      b == worker[w].block
  IN  /\ worker[w].at = "start"
      /\ IF lock[n] = NoLock \/ HasExpired(lock[n], b)
         THEN /\ lock' = [lock EXCEPT ![n] = Deadline(b)]
              /\ worker' = [worker EXCEPT ![w].at = "draw", ![w].deadline = Deadline(b)]
         ELSE /\ lock' = LockAfterRefusal(n)
              /\ worker' = [worker EXCEPT ![w] = Idle]
      /\ UNCHANGED <<vars, block, clock, pool, ancestor>>

\* Fault: any two kitties are taken for a pair.
MatesAny(s, k1, k2) == TRUE

\* The worker compares the genders it saw.
Mates(s, k1, k2) == Gender(s.seen[k1]) # Gender(s.seen[k2])

\* Fault: the search goes on for ever when all kitties have one gender.
NextRoundForever(s) == [s EXCEPT !.left = IF @ = 1 THEN MaxIterations ELSE @ - 1]

\* Fault: the iterations are compared with 0 before they are counted down.
NextRoundToZero(s) == IF s.left = 0 THEN Exit(s) ELSE [s EXCEPT !.left = @ - 1]

\* One iteration less; the worker gives up when none remains.
NextRound(s) == IF s.left = 1 THEN Exit(s) ELSE [s EXCEPT !.left = @ - 1]

\* One round of the loop that looks for a pair among the ids below kitty_count.
Draw(w) ==
  /\ worker[w].at = "draw"
  /\ \/ worker[w].count = 0 /\ worker' = [worker EXCEPT ![w] = Exit(@)]
     \/ \E k1, k2 \in 0 .. worker[w].count - 1 :
          worker' = [worker EXCEPT ![w] =
            IF ~({k1, k2} \subseteq DOMAIN @.seen) THEN Exit(@)
            ELSE IF Mates(@, k1, k2) THEN [@ EXCEPT !.at = "mine", !.k1 = k1, !.k2 = k2]
            ELSE NextRound(@)]
  /\ UNCHANGED <<vars, block, clock, lock, pool, ancestor>>

\* The extrinsic a worker in state s makes of a solution.
Extrinsic(s, solution) ==
  [k1 |-> s.k1, k2 |-> s.k2, nonce |-> s.nonce, solution |-> solution, shared |-> s.shared]

\* The first of the remaining solutions that is valid, if any, is submitted.
\* The pool may refuse it: it is full, the nonce is stale by now, or it does
\* not take extrinsics that provide no tag.
Mine(w) ==
  /\ worker[w].at = "mine"
  /\ \E prefix \in Prefixes :
       LET valid == {i \in 0 .. worker[w].left - 1 :
                       ValidateSolution(worker[w].k1, worker[w].k2, worker[w].nonce,
                                        prefix * PrefixShift + i)}
       IN  \/ UNCHANGED pool
           \/ /\ valid # {}
              /\ Cardinality(pool) < PoolLimit
              /\ pool' = pool \cup {Extrinsic(worker[w], prefix * PrefixShift + Min(valid))}
  /\ worker' = [worker EXCEPT ![w] = Exit(@)]
  /\ UNCHANGED <<vars, block, clock, lock, ancestor>>

\* Fault: the guard is forgotten rather than dropped, and the lock stays.
UnlockForgets(w) ==
  /\ worker[w].at = "exit"
  /\ worker' = [worker EXCEPT ![w] = Idle]
  /\ UNCHANGED <<vars, block, clock, lock, pool, ancestor>>

\* Every way out drops _guard, which clears the lock whoever holds it by now.
Unlock(w) ==
  /\ worker[w].at = "exit"
  /\ lock' = [lock EXCEPT ![NodeOf[w]] = NoLock]
  /\ worker' = [worker EXCEPT ![w] = Idle]
  /\ UNCHANGED <<vars, block, clock, pool, ancestor>>

WorkerStep(w) == TryLock(w) \/ Draw(w) \/ Mine(w) \/ Unlock(w)

-----------------------------------------------------------------------------
(* The environment of the workers *)

Tick ==
  /\ clock < MaxClock
  /\ clock' = clock + 1
  /\ UNCHANGED <<vars, block, lock, worker, pool, ancestor>>

\* A node stops and starts again.  Its workers are gone, its lock is not.
Crash(n) ==
  /\ \E w \in Workers : NodeOf[w] = n /\ worker[w] # Idle
  /\ worker' = [w \in Workers |-> IF NodeOf[w] = n THEN Idle ELSE worker[w]]
  /\ UNCHANGED <<vars, block, clock, lock, pool, ancestor>>

\* Anyone may send an auto_breed with a proof of work to a pool, about kitties
\* it need not know anything of.
PeerSubmits(k1, k2, nonce, solution) ==
  /\ ValidateUnsigned(k1, k2, nonce, solution)
  /\ Cardinality(pool) < PoolLimit
  /\ pool' = pool \cup {[k1 |-> k1, k2 |-> k2, nonce |-> nonce,
                         solution |-> solution, shared |-> 0]}
  /\ UNCHANGED <<vars, block, clock, lock, worker, ancestor>>

\* A block author includes an extrinsic.  It may stay in the pools of others,
\* and comes back to a pool when the block is retracted.
Author(x) ==
  /\ \E s \in RandomValue : ApplyAutoBreed(x.k1, x.k2, x.nonce, x.solution, s)
  /\ pool' \in {pool, pool \ {x}}
  /\ UNCHANGED <<block, clock, lock, worker, ancestor>>

\* An extrinsic is lost: validate_unsigned refuses it by now, its longevity of
\* 64 blocks is over, or the pools are cleared.
PoolDrops(x) ==
  /\ pool' = pool \ {x}
  /\ UNCHANGED <<vars, block, clock, lock, worker, ancestor>>

\* The state of the chain.
ChainState ==
  [tokens |-> tokens, tokensByOwner |-> tokensByOwner, nextTokenId |-> nextTokenId,
   totalIssuance |-> totalIssuance, balances |-> balances,
   currencyIssuance |-> currencyIssuance, kittyPrices |-> kittyPrices,
   autoBreedNonce |-> autoBreedNonce]

\* A fork starts from the best block.
Fork ==
  /\ Reorgs
  /\ ancestor' = ChainState
  /\ UNCHANGED <<vars, block, clock, lock, worker, pool>>

\* What s, a worker or an extrinsic, shares with the best chain after a return
\* to the ancestor.
Rebased(s) == [s EXCEPT !.shared = Min({@, ancestor.nextTokenId})]

\* The fork overtakes the best chain, whose blocks since the ancestor are
\* retracted.  Its own blocks are the steps that follow.
Reorg ==
  /\ Reorgs
  /\ ancestor # ChainState
  /\ tokens' = ancestor.tokens
  /\ tokensByOwner' = ancestor.tokensByOwner
  /\ nextTokenId' = ancestor.nextTokenId
  /\ totalIssuance' = ancestor.totalIssuance
  /\ balances' = ancestor.balances
  /\ currencyIssuance' = ancestor.currencyIssuance
  /\ kittyPrices' = ancestor.kittyPrices
  /\ autoBreedNonce' = ancestor.autoBreedNonce
  /\ worker' = [w \in Workers |-> IF worker[w].at \in {"idle", "exit"} THEN worker[w]
                                  ELSE Rebased(worker[w])]
  /\ pool' = {Rebased(x) : x \in pool}
  /\ UNCHANGED <<receipt, block, clock, lock, ancestor>>

\* A node is late from when a worker inside has overrun the lock until nobody is
\* inside any more.
Overruns ==
  late' = {n \in Nodes : \E w \in Workers :
             /\ NodeOf[w] = n
             /\ Inside(w)'
             /\ n \in late \/ \E v \in Workers : /\ NodeOf[v] = n
                                                 /\ Inside(v)'
                                                 /\ HasExpired(worker[v].deadline, block)'}

OInit ==
  /\ Init
  /\ block = 0
  /\ clock = 0
  /\ lock = [n \in Nodes |-> NoLock]
  /\ worker = [w \in Workers |-> Idle]
  /\ pool = {}
  /\ ancestor = ChainState
  /\ late = {}

ONext ==
  /\ \/ DispatchNext /\ UNCHANGED <<block, clock, lock, worker, pool, ancestor>>
     \/ \E ws \in SUBSET Workers : NewBlock(ws)
     \/ \E w \in Workers : WorkerStep(w)
     \/ Tick
     \/ \E n \in Nodes : Crash(n)
     \/ \E k1, k2 \in TokenIds, n \in 0 .. MaxNonce, x \in Solutions : PeerSubmits(k1, k2, n, x)
     \/ \E x \in pool : Author(x)
     \/ \E x \in pool : PoolDrops(x)
     \/ Fork
     \/ Reorg
  /\ Overruns

allVars == <<vars, workerVars>>

OSpec == OInit /\ [][ONext]_allVars

\* The executor runs every thread it has started.
FairOSpec == OSpec /\ \A w \in Workers : WF_allVars(WorkerStep(w) /\ Overruns)

-----------------------------------------------------------------------------
(* Properties *)

Deadlines == [block : Nat, time : Nat]

\* The state of the nodes is of its type; remaining_iterations is never 0 while
\* the loops run, so the u128 subtraction cannot underflow.
WorkerTypeOK ==
  /\ block \in Nat
  /\ clock \in Nat
  /\ lock \in [Nodes -> Deadlines \cup {NoLock}]
  /\ \A w \in Workers :
       /\ worker[w].at \in {"idle", "start", "draw", "mine", "exit"}
       /\ Inside(w) => worker[w].deadline \in Deadlines
       /\ worker[w].at \in {"draw", "mine"} => worker[w].left \in 1 .. MaxIterations

\* The lock of a worker stays in place, with the deadline the worker gave it,
\* until the worker itself lets go: nobody breaks it before it expires, no other
\* worker's guard clears it.  Where a worker was slower than its lock the promise
\* holds again from the moment nobody of the node is inside.
HolderKeepsLock ==
  \A w \in Workers :
    Inside(w) /\ NodeOf[w] \notin late => lock[NodeOf[w]] = worker[w].deadline

\* At most one worker of a node is past try_lock, with the same exception: a
\* worker that overran its lock and was overtaken clears the lock of another, so
\* that a third one gets in, but the disorder ends when the node comes to rest.
LockExclusive ==
  \A v, w \in Workers :
    Inside(v) /\ Inside(w) /\ NodeOf[v] = NodeOf[w] /\ NodeOf[v] \notin late => v = w

\* The parents x names can have a kitten, unless one of them was on a fork that
\* is no longer the best chain.
CanBreed(x) ==
  x.k1 < x.shared /\ x.k2 < x.shared =>
    /\ {x.k1, x.k2} \subseteq DOMAIN tokens
    /\ Gender(tokens[x.k1].data) # Gender(tokens[x.k2].data)

\* What a worker works on, and what it left in the pool, however long ago, names
\* two kitties that can still breed, if the blocks they came from still count.
WorkerPairsCanBreed ==
  /\ \A w \in Workers : worker[w].at = "mine" => CanBreed(worker[w])
  /\ \A x \in pool : CanBreed(x)

\* A worker's extrinsic is never included in vain: whatever happened between the
\* snapshot it was computed from and its inclusion, on whatever fork that still
\* has its parents, auto_breed returns an error only when there is no id left
\* for the kitten.
WorkerBreedsSucceed ==
  [][\A x \in pool :
       Author(x) /\ x.k1 < x.shared /\ x.k2 < x.shared =>
         receipt'.result \in {Ok, "NoAvailableTokenId", "Overflow"}]_allVars

\* The lock of n is that of a worker at work.
LockOwned(n) ==
  \E w \in Workers : NodeOf[w] = n /\ Inside(w) /\ worker[w].deadline = lock[n]

\* No worker leaves a lock behind: one that is set belongs to a worker inside, also
\* where workers overran their locks and cleared those of others, and only a crash
\* takes the owner away and leaves the lock.  A lock that was left so is not
\* stuck either: as any lock it expires within the timeout and with the next block.
NoStuckLock ==
  [][\A n \in Nodes : lock'[n] # NoLock =>
       /\ lock'[n].time <= clock' + LockTimeout
       /\ lock'[n].block <= block' + 1
       /\ \/ LockOwned(n)'
          \/ lock'[n] = lock[n] /\ (~LockOwned(n) \/ Crash(n))]_allVars

\* A worker that got the lock returns in the end, on every way out.
WorkersFinish == \A w \in Workers : Inside(w) ~> worker[w] = Idle

=============================================================================
