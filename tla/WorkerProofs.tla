---------------------------- MODULE WorkerProofs ----------------------------
(***************************************************************************)
(* The off-chain worker's lock excludes, and what its workers submit can   *)
(* be bred, proved for every number of nodes, threads, kitties and blocks, *)
(* and for every length of its search.                                     *)
(***************************************************************************)
EXTENDS OffchainWorker, KittiesProofs

-----------------------------------------------------------------------------
(* The inductive invariant, by the state it is about *)

\* The DNA of the kitties of some block.
Snapshots == UNION {[0 .. n - 1 -> Dna] : n \in TokenIds}

\* A worker that has a snapshot: where it may be, what it wrote to the lock.
Busy(places, deadlines) ==
  [at : places, block : Nat, count : TokenIds, nonce : 0 .. MaxNonce, seen : Snapshots,
   shared : TokenIds, left : 1 .. MaxIterations, k1 : TokenIds, k2 : TokenIds,
   deadline : deadlines]

Exiting == [at : {"exit"}, deadline : Deadlines]

WorkerStates ==
  {Idle} \cup Exiting \cup Busy({"start"}, {NoLock}) \cup Busy({"draw", "mine"}, Deadlines)

NodeInv ==
  /\ block \in Nat
  /\ clock \in Nat
  /\ lock \in [Nodes -> Deadlines \cup {NoLock}]
  /\ worker \in [Workers -> WorkerStates]

\* No worker comes from a block that is still to come, so what has expired for
\* a worker has expired for its node.
BlockInv == \A w \in Workers : worker[w].at = "start" => worker[w].block <= block

LockInv == HolderKeepsLock /\ LockExclusive

\* What s saw is on the best chain still, up to what a reorganisation took away,
\* and s has compared the parents it settled on.
Sound(s) ==
  /\ s.seen \in [0 .. s.count - 1 -> Dna]
  /\ \A t \in 0 .. s.count - 1 :
       t < s.shared => t \in DOMAIN tokens /\ tokens[t].data = s.seen[t]
  /\ s.at = "mine" =>
       s.k1 \in 0 .. s.count - 1 /\ s.k2 \in 0 .. s.count - 1 /\ Mates(s, s.k1, s.k2)

SnapshotInv == \A w \in Workers : worker[w].at \in {"start", "draw", "mine"} => Sound(worker[w])

\* An extrinsic as Extrinsic and PeerSubmits make it.
IsExtrinsic(x) ==
  /\ x = [k1 |-> x.k1, k2 |-> x.k2, nonce |-> x.nonce, solution |-> x.solution,
          shared |-> x.shared]
  /\ x.k1 \in TokenIds /\ x.k2 \in TokenIds /\ x.shared \in TokenIds

PoolInv == \A x \in pool : IsExtrinsic(x) /\ CanBreed(x)

\* The ancestor was a state of the chain.
AncestorSound ==
  /\ ancestor.nextTokenId \in TokenIds
  /\ ancestor.tokens \in [0 .. ancestor.nextTokenId - 1 -> TokenInfo]
  /\ ancestor.totalIssuance = ancestor.nextTokenId
  /\ ancestor.tokensByOwner = {<<ancestor.tokens[t].owner, t>> : t \in DOMAIN ancestor.tokens}
  /\ DOMAIN ancestor.kittyPrices \subseteq DOMAIN ancestor.tokens
  /\ ancestor.kittyPrices \in [DOMAIN ancestor.kittyPrices -> Prices]
  /\ ancestor.balances \in [Accounts -> Nat]
  /\ \A a \in Accounts : ancestor.balances[a] = 0 \/ ancestor.balances[a] >= ExistentialDeposit
  /\ ancestor.autoBreedNonce \in 0 .. MaxNonce

\* The best chain extends the ancestor.
AncestorIsPrefix ==
  \A t \in DOMAIN ancestor.tokens :
    t \in DOMAIN tokens /\ tokens[t].data = ancestor.tokens[t].data

ChainInv == IInv /\ AncestorSound /\ AncestorIsPrefix

OInv == ChainInv /\ NodeInv /\ BlockInv /\ LockInv /\ SnapshotInv /\ PoolInv

-----------------------------------------------------------------------------
(* Operators *)

\* The smaller of two numbers.
LEMMA MinOfTwo ==
  ASSUME NEW m \in Nat, NEW n \in Nat
  PROVE  Min({m, n}) = IF m <= n THEN m ELSE n
  BY DEF Min

\* What a reorganisation makes of a worker or an extrinsic.
LEMMA RebasedExtrinsic ==
  ASSUME NEW x, IsExtrinsic(x), AncestorSound
  PROVE  /\ IsExtrinsic(Rebased(x))
         /\ Rebased(x).k1 = x.k1 /\ Rebased(x).k2 = x.k2
         /\ Rebased(x).shared <= x.shared /\ Rebased(x).shared <= ancestor.nextTokenId
  <1> DEFINE m == Min({x.shared, ancestor.nextTokenId})
  <1>1. x.shared \in Nat /\ ancestor.nextTokenId \in Nat
    BY MaxTokenIdAssumption DEF IsExtrinsic, AncestorSound, TokenIds
  <1>2. m = IF x.shared <= ancestor.nextTokenId THEN x.shared ELSE ancestor.nextTokenId
    BY <1>1, MinOfTwo
  <1>3. m \in TokenIds /\ m <= x.shared /\ m <= ancestor.nextTokenId
    BY <1>1, <1>2 DEF IsExtrinsic, AncestorSound
  <1> HIDE DEF m
  <1>4. Rebased(x) = [k1 |-> x.k1, k2 |-> x.k2, nonce |-> x.nonce, solution |-> x.solution,
                      shared |-> m]
    BY DEF Rebased, IsExtrinsic, m
  <1> QED
    BY <1>3, <1>4 DEF IsExtrinsic

LEMMA RebasedBusy ==
  ASSUME NEW P, NEW D, NEW s \in Busy(P, D), AncestorSound
  PROVE  /\ Rebased(s) \in Busy(P, D)
         /\ Rebased(s).at = s.at /\ Rebased(s).deadline = s.deadline
         /\ Rebased(s).block = s.block /\ Rebased(s).count = s.count
         /\ Rebased(s).seen = s.seen /\ Rebased(s).left = s.left
         /\ Rebased(s).k1 = s.k1 /\ Rebased(s).k2 = s.k2
         /\ Rebased(s).shared <= s.shared /\ Rebased(s).shared <= ancestor.nextTokenId
  <1> DEFINE m == Min({s.shared, ancestor.nextTokenId})
  <1>1. s.shared \in TokenIds /\ ancestor.nextTokenId \in TokenIds
    BY DEF Busy, AncestorSound
  <1>2. m = IF s.shared <= ancestor.nextTokenId THEN s.shared ELSE ancestor.nextTokenId
    BY <1>1, MinOfTwo, MaxTokenIdAssumption DEF TokenIds
  <1>3. m \in TokenIds /\ m <= s.shared /\ m <= ancestor.nextTokenId
    BY <1>1, <1>2, MaxTokenIdAssumption DEF TokenIds
  <1> HIDE DEF m
  <1>4. Rebased(s) = [s EXCEPT !.shared = m]
    BY DEF Rebased, m
  <1> QED
    BY <1>3, <1>4 DEF Busy

\* The places a worker can be in, and what it carries there.
LEMMA WorkerPlaces ==
  ASSUME NEW s \in WorkerStates
  PROVE  /\ s.at \in {"idle", "start", "draw", "mine", "exit"}
         /\ s.at = "idle" => s = Idle
         /\ s.at = "exit" => s \in Exiting
         /\ s.at = "start" => s \in Busy({"start"}, {NoLock})
         /\ s.at \in {"draw", "mine"} => s \in Busy({"draw", "mine"}, Deadlines)
         /\ s.at \in {"draw", "mine", "exit"} => s.deadline \in Deadlines
  BY DEF WorkerStates, Idle, Exiting, Busy

-----------------------------------------------------------------------------
(* The lock *)

\* A worker that is inside on a node in order is within its time, and so are
\* the others of the node.
LEMMA InOrder ==
  ASSUME Overruns, NEW w \in Workers, Inside(w)', NodeOf[w] \notin late'
  PROVE  /\ NodeOf[w] \notin late
         /\ \A v \in Workers : NodeOf[v] = NodeOf[w] /\ Inside(v)' =>
              ~HasExpired(worker[v].deadline, block)'
  <1>1. NodeOf[w] \in Nodes
    BY WorkerAssumption
  <1> QED
    BY <1>1 DEF Overruns

\* Steps that leave the lock alone and bring nobody inside.
LEMMA LockKept ==
  ASSUME LockInv, Overruns, UNCHANGED lock,
         \A w \in Workers : Inside(w)' => Inside(w) /\ worker'[w].deadline = worker[w].deadline
  PROVE  LockInv'
  <1>1. \A w \in Workers : Inside(w)' /\ NodeOf[w] \notin late' => NodeOf[w] \notin late
    BY InOrder
  <1>2. HolderKeepsLock'
    BY <1>1 DEF LockInv, HolderKeepsLock
  <1>3. LockExclusive'
    BY <1>1 DEF LockInv, LockExclusive
  <1> QED
    BY <1>2, <1>3 DEF LockInv

-----------------------------------------------------------------------------
(* The steps of a worker *)

\* What all workers know is as sound as it was when the one at work has a sound
\* new state.
LEMMA OneMoves ==
  ASSUME NodeInv, BlockInv, SnapshotInv, NEW w \in Workers, NEW s \in WorkerStates,
         worker' = [worker EXCEPT ![w] = s],
         UNCHANGED <<tokens, block, clock>>, lock' \in [Nodes -> Deadlines \cup {NoLock}],
         s.at # "start", s.at \in {"draw", "mine"} => Sound(s)
  PROVE  NodeInv' /\ BlockInv' /\ SnapshotInv'
  <1>1. /\ worker' \in [Workers -> WorkerStates]
        /\ worker'[w] = s
        /\ \A v \in Workers : v # w => worker'[v] = worker[v]
    BY DEF NodeInv
  <1>2. NodeInv'
    BY <1>1 DEF NodeInv
  <1>3. BlockInv'
    BY <1>1 DEF BlockInv
  <1>4. SnapshotInv'
    <2> SUFFICES ASSUME NEW v \in Workers, worker'[v].at \in {"start", "draw", "mine"}
                 PROVE  Sound(worker[v])'
      BY DEF SnapshotInv
    <2>1. CASE v = w
      <3>1. worker'[v] = s /\ Sound(s)
        BY <1>1, <2>1
      <3> QED
        BY <3>1 DEF Sound, Mates
    <2>2. CASE v # w
      <3>1. worker'[v] = worker[v] /\ Sound(worker[v])
        BY <1>1, <2>2 DEF SnapshotInv
      <3> QED
        BY <3>1 DEF Sound, Mates
    <2> QED
      BY <2>1, <2>2
  <1> QED
    BY <1>2, <1>3, <1>4

\* A worker that goes about its work, in and out as it was.
LEMMA OneMovesInside ==
  ASSUME OInv, Overruns, NEW w \in Workers, NEW s \in WorkerStates,
         worker' = [worker EXCEPT ![w] = s], UNCHANGED <<tokens, block, clock, lock>>,
         s.at # "start", s.at \in {"draw", "mine"} => Sound(s),
         Inside(w), s.deadline = worker[w].deadline
  PROVE  NodeInv' /\ BlockInv' /\ SnapshotInv' /\ LockInv'
  <1>1. NodeInv' /\ BlockInv' /\ SnapshotInv'
    BY OneMoves DEF OInv, NodeInv
  <1>2. \A v \in Workers : Inside(v)' => Inside(v) /\ worker'[v].deadline = worker[v].deadline
    BY DEF Inside, OInv, NodeInv
  <1> QED
    BY <1>1, <1>2, LockKept DEF OInv

\* What a step of a worker leaves in order.
WorkerStepSafe == NodeInv' /\ BlockInv' /\ SnapshotInv' /\ LockInv'

\* try_lock lets a worker in only where nobody is in time any more.
LEMMA TryLockSafe ==
  ASSUME OInv, Overruns, NEW w \in Workers, TryLock(w)
  PROVE  WorkerStepSafe
  <1> DEFINE n == NodeOf[w]
             b == worker[w].block
             s == [worker[w] EXCEPT !.at = "draw", !.deadline = Deadline(b)]
  <1>0. UNCHANGED <<tokens, block, clock>>
    BY DEF TryLock, vars, nftVars
  <1>1. worker[w] \in WorkerStates /\ worker[w].at = "start"
    BY DEF OInv, NodeInv, TryLock
  <1>2. worker[w] \in Busy({"start"}, {NoLock})
    BY <1>1, WorkerPlaces
  <1>3. b \in Nat /\ b <= block /\ block \in Nat /\ clock \in Nat /\ n \in Nodes
    BY <1>1, <1>2, WorkerAssumption DEF Busy, OInv, NodeInv, BlockInv
  <1>4. Deadline(b) \in Deadlines
    BY <1>3, WorkerAssumption DEF Deadline, Deadlines
  <1>5. CASE ~(lock[n] = NoLock \/ HasExpired(lock[n], b))
    <2>1. lock' = lock /\ worker' = [worker EXCEPT ![w] = Idle]
      BY <1>5 DEF TryLock, LockAfterRefusal
    <2>2. Idle \in WorkerStates /\ Idle.at = "idle"
      BY DEF WorkerStates, Idle
    <2>3. NodeInv' /\ BlockInv' /\ SnapshotInv'
      BY <1>0, <2>1, <2>2, OneMoves DEF OInv, NodeInv
    <2>4. \A v \in Workers : Inside(v)' => Inside(v) /\ worker'[v].deadline = worker[v].deadline
      BY <2>1, <2>2 DEF Inside, OInv, NodeInv
    <2> QED
      BY <2>1, <2>3, <2>4, LockKept DEF OInv, WorkerStepSafe
  <1>6. CASE lock[n] = NoLock \/ HasExpired(lock[n], b)
    <2>1. lock' = [lock EXCEPT ![n] = Deadline(b)]
      BY <1>6 DEF TryLock
    <2>2. s \in Busy({"draw", "mine"}, Deadlines) /\ s.at = "draw" /\ s.deadline = Deadline(b)
      BY <1>2, <1>4 DEF Busy
    <2>3. worker' = [worker EXCEPT ![w] = s]
      BY <1>1, <1>6 DEF TryLock
    <2>4. Sound(s)
      <3>1. s.seen = worker[w].seen /\ s.count = worker[w].count /\ s.shared = worker[w].shared
        BY <1>2 DEF Busy
      <3>2. Sound(worker[w])
        BY <1>1 DEF OInv, SnapshotInv
      <3> QED
        BY <2>2, <3>1, <3>2 DEF Sound
    <2> HIDE DEF s, n, b
    <2>5. s \in WorkerStates
      BY <2>2 DEF WorkerStates
    <2>6. lock' \in [Nodes -> Deadlines \cup {NoLock}]
      BY <1>4, <2>1 DEF OInv, NodeInv
    <2>7. NodeInv' /\ BlockInv' /\ SnapshotInv'
      BY <1>0, <2>2, <2>3, <2>4, <2>5, <2>6, OneMoves DEF OInv
    <2>8. /\ worker'[w].deadline = lock'[n]
          /\ \A v \in Workers : v # w => worker'[v] = worker[v]
          /\ \A m \in Nodes : m # n => lock'[m] = lock[m]
      BY <1>3, <2>1, <2>2, <2>3 DEF OInv, NodeInv
    <2>9. ASSUME NEW v \in Workers, v # w, NodeOf[v] = n, Inside(v)'
          PROVE  n \in late'
      <3> SUFFICES ASSUME n \notin late' PROVE FALSE
        OBVIOUS
      <3>1. n \notin late /\ ~HasExpired(worker[v].deadline, block)'
        BY <2>9, InOrder
      <3>2. Inside(v) /\ worker'[v] = worker[v]
        BY <2>8, <2>9 DEF Inside
      <3>3. lock[n] = worker[v].deadline
        BY <2>9, <3>1, <3>2 DEF OInv, LockInv, HolderKeepsLock
      <3>4. worker[v].deadline \in Deadlines
        BY <3>2, WorkerPlaces DEF Inside, OInv, NodeInv
      <3>5. lock[n] # NoLock
        BY <3>3, <3>4, WorkerAssumption DEF Deadlines
      <3>6. HasExpired(worker[v].deadline, b)
        BY <1>6, <3>3, <3>5
      <3>7. HasExpired(worker[v].deadline, block)'
        BY <1>0, <1>3, <3>2, <3>4, <3>6 DEF HasExpired, Deadlines
      <3> QED
        BY <3>1, <3>7
    <2>10. \A v \in Workers : Inside(v)' /\ NodeOf[v] \notin late' => NodeOf[v] \notin late
      BY InOrder
    <2>11. \A v \in Workers : NodeOf[v] \in Nodes
      BY WorkerAssumption
    <2>12. HolderKeepsLock'
      <3> SUFFICES ASSUME NEW v \in Workers, Inside(v)', NodeOf[v] \notin late'
                   PROVE  lock'[NodeOf[v]] = worker'[v].deadline
        BY DEF HolderKeepsLock
      <3>1. CASE v = w
        BY <2>8, <3>1 DEF n
      <3>2. CASE v # w
        <4>1. NodeOf[v] # n
          BY <2>9, <3>2
        <4>2. Inside(v) /\ NodeOf[v] \notin late
          BY <2>8, <2>10, <3>2 DEF Inside
        <4> QED
          BY <2>8, <2>11, <3>2, <4>1, <4>2 DEF OInv, LockInv, HolderKeepsLock
      <3> QED
        BY <3>1, <3>2
    <2>13. LockExclusive'
      <3> SUFFICES ASSUME NEW u \in Workers, NEW v \in Workers, Inside(u)', Inside(v)',
                          NodeOf[u] = NodeOf[v], NodeOf[u] \notin late', u # v
                   PROVE  FALSE
        BY DEF LockExclusive
      <3>1. CASE u = w
        BY <2>9, <3>1 DEF n
      <3>2. CASE v = w
        BY <2>9, <3>2 DEF n
      <3>3. CASE u # w /\ v # w
        <4>1. Inside(u) /\ Inside(v) /\ NodeOf[u] \notin late
          BY <2>8, <2>10, <3>3 DEF Inside
        <4> QED
          BY <4>1 DEF OInv, LockInv, LockExclusive
      <3> QED
        BY <3>1, <3>2, <3>3
    <2> QED
      BY <2>7, <2>12, <2>13 DEF LockInv, WorkerStepSafe
  <1> QED
    BY <1>5, <1>6

\* A worker about to return keeps its deadline.
LEMMA ExitState ==
  ASSUME NEW s \in Busy({"draw", "mine"}, Deadlines)
  PROVE  /\ Exit(s) \in WorkerStates
         /\ Exit(s).at = "exit" /\ Exit(s).deadline = s.deadline
  BY DEF Exit, WorkerStates, Exiting, Busy

\* The search for a pair ends with a pair, or goes on while iterations remain.
LEMMA DrawSafe ==
  ASSUME OInv, Overruns, NEW w \in Workers, Draw(w)
  PROVE  WorkerStepSafe
  <1> DEFINE s == worker[w]
  <1>0. UNCHANGED <<tokens, block, clock, lock>>
    BY DEF Draw, vars, nftVars
  <1>1. s \in WorkerStates /\ s.at = "draw"
    BY DEF OInv, NodeInv, Draw
  <1>2. s \in Busy({"draw", "mine"}, Deadlines) /\ Inside(w)
    BY <1>1, WorkerPlaces DEF Inside
  <1>3. Sound(s)
    BY <1>1 DEF OInv, SnapshotInv
  <1>4. CASE worker' = [worker EXCEPT ![w] = Exit(s)]
    <2>1. Exit(s) \in WorkerStates /\ Exit(s).at = "exit" /\ Exit(s).deadline = s.deadline
      BY <1>2, ExitState
    <2> QED
      BY <1>0, <1>2, <1>4, <2>1, OneMovesInside DEF WorkerStepSafe
  <1>5. ASSUME NEW k1 \in 0 .. s.count - 1, NEW k2 \in 0 .. s.count - 1,
               {k1, k2} \subseteq DOMAIN s.seen, Mates(s, k1, k2),
               worker' = [worker EXCEPT ![w] = [s EXCEPT !.at = "mine", !.k1 = k1, !.k2 = k2]]
        PROVE  WorkerStepSafe
    <2> DEFINE r == [s EXCEPT !.at = "mine", !.k1 = k1, !.k2 = k2]
    <2>1. s.count \in TokenIds
      BY <1>2 DEF Busy
    <2>2. k1 \in TokenIds /\ k2 \in TokenIds
      BY <2>1, MaxTokenIdAssumption DEF TokenIds
    <2>3. /\ r \in Busy({"draw", "mine"}, Deadlines)
          /\ r.at = "mine" /\ r.deadline = s.deadline /\ r.k1 = k1 /\ r.k2 = k2
          /\ r.seen = s.seen /\ r.count = s.count /\ r.shared = s.shared
      BY <1>2, <2>2 DEF Busy
    <2>4. Sound(r)
      BY <1>3, <1>5, <2>3 DEF Sound, Mates
    <2> HIDE DEF r
    <2>5. r \in WorkerStates
      BY <2>3 DEF WorkerStates
    <2>6. worker' = [worker EXCEPT ![w] = r]
      BY <1>5 DEF r
    <2> QED
      BY <1>0, <1>2, <2>3, <2>4, <2>5, <2>6, OneMovesInside DEF WorkerStepSafe
  <1>6. CASE worker' = [worker EXCEPT ![w] = NextRound(s)] /\ s.left # 1
    <2> DEFINE r == [s EXCEPT !.left = @ - 1]
    <2>1. s.left \in 1 .. MaxIterations
      BY <1>2 DEF Busy
    <2>2. s.left - 1 \in 1 .. MaxIterations
      BY <1>6, <2>1, WorkerAssumption
    <2>3. /\ r \in Busy({"draw", "mine"}, Deadlines)
          /\ r.at = "draw" /\ r.deadline = s.deadline
          /\ r.seen = s.seen /\ r.count = s.count /\ r.shared = s.shared
      BY <1>1, <1>2, <2>2 DEF Busy
    <2>4. Sound(r)
      BY <1>3, <2>3 DEF Sound
    <2>5. worker' = [worker EXCEPT ![w] = r]
      BY <1>6 DEF NextRound
    <2> HIDE DEF r
    <2>6. r \in WorkerStates
      BY <2>3 DEF WorkerStates
    <2> QED
      BY <1>0, <1>2, <2>3, <2>4, <2>5, <2>6, OneMovesInside DEF WorkerStepSafe
  <1>7. CASE worker' = [worker EXCEPT ![w] = NextRound(s)] /\ s.left = 1
    BY <1>4, <1>7 DEF NextRound
  <1>8. CASE \E k1, k2 \in 0 .. s.count - 1 :
               worker' = [worker EXCEPT ![w] =
                 IF ~({k1, k2} \subseteq DOMAIN s.seen) THEN Exit(s)
                 ELSE IF Mates(s, k1, k2) THEN [s EXCEPT !.at = "mine", !.k1 = k1, !.k2 = k2]
                 ELSE NextRound(s)]
    <2>1. PICK k1 \in 0 .. s.count - 1, k2 \in 0 .. s.count - 1 :
               worker' = [worker EXCEPT ![w] =
                 IF ~({k1, k2} \subseteq DOMAIN s.seen) THEN Exit(s)
                 ELSE IF Mates(s, k1, k2) THEN [s EXCEPT !.at = "mine", !.k1 = k1, !.k2 = k2]
                 ELSE NextRound(s)]
      BY <1>8
    <2>2. CASE ~({k1, k2} \subseteq DOMAIN s.seen)
      BY <1>4, <2>1, <2>2
    <2>3. CASE {k1, k2} \subseteq DOMAIN s.seen /\ Mates(s, k1, k2)
      BY <1>5, <2>1, <2>3
    <2>4. CASE {k1, k2} \subseteq DOMAIN s.seen /\ ~Mates(s, k1, k2)
      BY <1>6, <1>7, <2>1, <2>4
    <2> QED
      BY <2>2, <2>3, <2>4
  <1> QED
    BY <1>4, <1>8 DEF Draw

\* A worker that has tried its solutions is about to return.
LEMMA MineSafe ==
  ASSUME OInv, Overruns, NEW w \in Workers, Mine(w)
  PROVE  WorkerStepSafe
  <1>0. UNCHANGED <<tokens, block, clock, lock>>
    BY DEF Mine, vars, nftVars
  <1>1. worker[w] \in WorkerStates /\ worker[w].at = "mine"
    BY DEF OInv, NodeInv, Mine
  <1>2. worker[w] \in Busy({"draw", "mine"}, Deadlines) /\ Inside(w)
    BY <1>1, WorkerPlaces DEF Inside
  <1>3. worker' = [worker EXCEPT ![w] = Exit(worker[w])]
    BY DEF Mine
  <1>4. /\ Exit(worker[w]) \in WorkerStates
        /\ Exit(worker[w]).at = "exit" /\ Exit(worker[w]).deadline = worker[w].deadline
    BY <1>2, ExitState
  <1> QED
    BY <1>0, <1>2, <1>3, <1>4, OneMovesInside DEF WorkerStepSafe

\* A guard that is dropped clears no lock but its own, where nobody overran.
LEMMA UnlockSafe ==
  ASSUME OInv, Overruns, NEW w \in Workers, Unlock(w)
  PROVE  WorkerStepSafe
  <1> DEFINE n == NodeOf[w]
  <1>0. UNCHANGED <<tokens, block, clock>>
    BY DEF Unlock, vars, nftVars
  <1>1. lock' = [lock EXCEPT ![n] = NoLock] /\ worker' = [worker EXCEPT ![w] = Idle]
    BY DEF Unlock
  <1>2. Inside(w)
    BY DEF Unlock, Inside
  <1>3. Idle \in WorkerStates /\ Idle.at = "idle"
    BY DEF WorkerStates, Idle
  <1>4. n \in Nodes /\ lock' \in [Nodes -> Deadlines \cup {NoLock}]
    BY <1>1, WorkerAssumption DEF OInv, NodeInv
  <1>5. NodeInv' /\ BlockInv' /\ SnapshotInv'
    BY <1>0, <1>1, <1>3, <1>4, OneMoves DEF OInv
  <1>6. /\ ~Inside(w)'
        /\ \A v \in Workers : v # w => worker'[v] = worker[v] /\ (Inside(v)' <=> Inside(v))
        /\ \A m \in Nodes : m # n => lock'[m] = lock[m]
    BY <1>1, <1>3 DEF Inside, OInv, NodeInv
  <1> HIDE DEF n
  <1>7. ASSUME NEW v \in Workers, Inside(v)', NodeOf[v] \notin late'
        PROVE  NodeOf[v] # n /\ v # w /\ Inside(v) /\ NodeOf[v] \notin late
    <2>1. v # w /\ Inside(v) /\ NodeOf[v] \notin late
      BY <1>6, <1>7, InOrder
    <2> QED
      BY <1>2, <2>1 DEF OInv, LockInv, LockExclusive, n
  <1>8. HolderKeepsLock'
    <2>1. \A v \in Workers : NodeOf[v] \in Nodes
      BY WorkerAssumption
    <2> QED
      BY <1>6, <1>7, <2>1 DEF OInv, LockInv, HolderKeepsLock
  <1>9. LockExclusive'
    BY <1>7 DEF OInv, LockInv, LockExclusive
  <1> QED
    BY <1>5, <1>8, <1>9 DEF LockInv, WorkerStepSafe

-----------------------------------------------------------------------------
(* The chain, the pool and the snapshots *)

\* The chain and its ancestor stay where they are.
LEMMA ChainRests ==
  ASSUME ChainInv, UNCHANGED <<vars, ancestor>>
  PROVE  ChainInv' /\ UNCHANGED tokens
  <1>1. IInv'
    BY NextSafe DEF ChainInv
  <1>2. UNCHANGED tokens
    BY DEF vars, nftVars
  <1> QED
    BY <1>1, <1>2 DEF ChainInv, AncestorSound, AncestorIsPrefix

\* The chain grows by an extrinsic.
LEMMA ChainGrows ==
  ASSUME ChainInv, SafeStep, UNCHANGED ancestor
  PROVE  ChainInv'
  BY DEF ChainInv, SafeStep, KeepsKitties, AncestorSound, AncestorIsPrefix

\* Kitties that could breed can breed while no kitty is lost.
LEMMA PoolKept ==
  ASSUME PoolInv, pool' \subseteq pool,
         \A t \in DOMAIN tokens : t \in DOMAIN tokens' /\ tokens'[t].data = tokens[t].data
  PROVE  PoolInv'
  <1> SUFFICES ASSUME NEW x \in pool' PROVE IsExtrinsic(x) /\ CanBreed(x)'
    BY DEF PoolInv, IsExtrinsic
  <1>1. IsExtrinsic(x) /\ CanBreed(x)
    BY DEF PoolInv
  <1> QED
    BY <1>1 DEF CanBreed

\* An extrinsic that can be bred joins the pool.
LEMMA PoolGrows ==
  ASSUME PoolInv, UNCHANGED tokens, NEW x, IsExtrinsic(x), CanBreed(x), pool' = pool \cup {x}
  PROVE  PoolInv'
  <1> SUFFICES ASSUME NEW y \in pool' PROVE IsExtrinsic(y) /\ CanBreed(y)'
    BY DEF PoolInv, IsExtrinsic
  <1>1. IsExtrinsic(y) /\ CanBreed(y)
    BY DEF PoolInv
  <1> QED
    BY <1>1 DEF CanBreed

\* What a worker saw stays true while no kitty is lost.
LEMMA SnapshotsKept ==
  ASSUME NodeInv, BlockInv, SnapshotInv, UNCHANGED <<worker, block, clock, lock>>,
         \A t \in DOMAIN tokens : t \in DOMAIN tokens' /\ tokens'[t].data = tokens[t].data
  PROVE  NodeInv' /\ BlockInv' /\ SnapshotInv'
  <1>1. NodeInv' /\ BlockInv'
    BY DEF NodeInv, BlockInv
  <1>2. SnapshotInv'
    <2> SUFFICES ASSUME NEW w \in Workers, worker[w].at \in {"start", "draw", "mine"}
                 PROVE  Sound(worker[w])'
      BY DEF SnapshotInv
    <2>1. Sound(worker[w])
      BY DEF SnapshotInv
    <2> QED
      BY <2>1 DEF Sound, Mates
  <1> QED
    BY <1>1, <1>2

\* An extrinsic on the chain.
LEMMA ExtrinsicSafe ==
  ASSUME OInv, Overruns, SafeStep, pool' \subseteq pool,
         UNCHANGED <<worker, block, clock, lock, ancestor>>
  PROVE  OInv'
  <1>1. ChainInv'
    BY ChainGrows DEF OInv
  <1>2. \A t \in DOMAIN tokens : t \in DOMAIN tokens' /\ tokens'[t].data = tokens[t].data
    BY DEF SafeStep, KeepsKitties
  <1>3. PoolInv'
    BY <1>2, PoolKept DEF OInv
  <1>4. NodeInv' /\ BlockInv' /\ SnapshotInv'
    BY <1>2, SnapshotsKept DEF OInv
  <1>5. LockInv'
    BY LockKept DEF OInv, Inside
  <1> QED
    BY <1>1, <1>3, <1>4, <1>5 DEF OInv

\* What a worker submits can be bred.
LEMMA WorkerSubmits ==
  ASSUME OInv, NEW w \in Workers, worker[w].at = "mine", NEW solution
  PROVE  IsExtrinsic(Extrinsic(worker[w], solution)) /\ CanBreed(Extrinsic(worker[w], solution))
  <1> DEFINE s == worker[w]
             x == Extrinsic(s, solution)
  <1>1. s \in Busy({"draw", "mine"}, Deadlines) /\ Sound(s)
    BY WorkerPlaces DEF OInv, NodeInv, SnapshotInv
  <1>2. s.k1 \in TokenIds /\ s.k2 \in TokenIds /\ s.shared \in TokenIds
    BY <1>1 DEF Busy
  <1>3. /\ x.k1 = s.k1 /\ x.k2 = s.k2 /\ x.nonce = s.nonce /\ x.solution = solution
        /\ x.shared = s.shared
    BY DEF Extrinsic
  <1>4. IsExtrinsic(x)
    BY <1>2, <1>3 DEF IsExtrinsic, Extrinsic
  <1>5. /\ s.k1 \in 0 .. s.count - 1 /\ s.k2 \in 0 .. s.count - 1
        /\ Gender(s.seen[s.k1]) # Gender(s.seen[s.k2])
        /\ \A t \in 0 .. s.count - 1 : t < s.shared => t \in DOMAIN tokens /\ tokens[t].data = s.seen[t]
    BY <1>1 DEF Sound, Mates
  <1>6. CanBreed(x)
    BY <1>3, <1>5 DEF CanBreed
  <1> QED
    BY <1>4, <1>6

\* A step of a worker.
LEMMA WorkerStepKeeps ==
  ASSUME OInv, Overruns, NEW w \in Workers, WorkerStep(w)
  PROVE  OInv'
  <1>1. UNCHANGED <<vars, ancestor>>
    BY DEF WorkerStep, TryLock, Draw, Mine, Unlock
  <1>2. ChainInv' /\ UNCHANGED tokens
    BY <1>1, ChainRests DEF OInv
  <1>3. WorkerStepSafe
    BY TryLockSafe, DrawSafe, MineSafe, UnlockSafe DEF WorkerStep
  <1>4. PoolInv'
    <2>1. CASE pool' = pool
      BY <1>2, <2>1, PoolKept DEF OInv
    <2>2. ASSUME NEW sol, worker[w].at = "mine", pool' = pool \cup {Extrinsic(worker[w], sol)}
          PROVE  PoolInv'
      <3>1. IsExtrinsic(Extrinsic(worker[w], sol)) /\ CanBreed(Extrinsic(worker[w], sol))
        BY <2>2, WorkerSubmits
      <3> QED
        BY <1>2, <2>2, <3>1, PoolGrows DEF OInv
    <2> QED
      BY <2>1, <2>2 DEF WorkerStep, TryLock, Draw, Mine, Unlock
  <1> QED
    BY <1>2, <1>3, <1>4 DEF OInv, WorkerStepSafe

-----------------------------------------------------------------------------
(* The environment of the workers *)

\* A worker starts with what is on the chain.
LEMMA StartedSound ==
  ASSUME IInv, NEW b \in Nat
  PROVE  /\ Started(b) \in Busy({"start"}, {NoLock})
         /\ Started(b).at = "start" /\ Started(b).block = b /\ Sound(Started(b))
  <1> DEFINE seen == [t \in DOMAIN tokens |-> tokens[t].data]
  <1>1. /\ nextTokenId \in TokenIds
        /\ tokens \in [0 .. nextTokenId - 1 -> [owner : Accounts, data : Dna]]
        /\ autoBreedNonce \in 0 .. MaxNonce
    BY KittiesAssumption DEF IInv, NftInv, NonceInv, TokenInfo
  <1>2. seen \in [0 .. nextTokenId - 1 -> Dna] /\ \A t \in DOMAIN tokens : seen[t] = tokens[t].data
    BY <1>1
  <1>3. seen \in Snapshots
    BY <1>1, <1>2 DEF Snapshots
  <1> HIDE DEF seen
  <1>4. 0 \in TokenIds /\ MaxIterations \in 1 .. MaxIterations
    BY MaxTokenIdAssumption, WorkerAssumption DEF TokenIds
  <1>5. Started(b) = [at |-> "start", block |-> b, count |-> nextTokenId, nonce |-> autoBreedNonce,
                      seen |-> seen, shared |-> nextTokenId, left |-> MaxIterations,
                      k1 |-> 0, k2 |-> 0, deadline |-> NoLock]
    BY DEF Started, seen
  <1>6. Started(b) \in Busy({"start"}, {NoLock})
    BY <1>1, <1>3, <1>4, <1>5 DEF Busy
  <1>7. /\ Started(b).seen = seen /\ Started(b).count = nextTokenId
        /\ Started(b).at = "start" /\ Started(b).block = b
    BY <1>5
  <1>8. Sound(Started(b))
    BY <1>1, <1>2, <1>7 DEF Sound
  <1> QED
    BY <1>6, <1>7, <1>8

\* A new best block starts workers that know the chain, and lets nobody in.
LEMMA NewBlockKeeps ==
  ASSUME OInv, Overruns, NEW ws \in SUBSET Workers, NewBlock(ws)
  PROVE  OInv'
  <1> DEFINE s == Started(block + 1)
  <1>1. ChainInv' /\ UNCHANGED tokens
    BY ChainRests DEF NewBlock, OInv
  <1>2. PoolInv'
    BY <1>1, PoolKept DEF NewBlock, OInv
  <1>3. block \in Nat /\ block' = block + 1 /\ UNCHANGED <<clock, lock>>
    BY DEF NewBlock, OInv, NodeInv
  <1>4. s \in Busy({"start"}, {NoLock}) /\ s.at = "start" /\ s.block = block' /\ Sound(s)
    BY <1>3, StartedSound DEF OInv, ChainInv
  <1> HIDE DEF s
  <1>5. \A w \in Workers : worker'[w] = IF w \in ws THEN s ELSE worker[w]
    BY DEF NewBlock, s
  <1>6. s \in WorkerStates
    BY <1>4 DEF WorkerStates
  <1>7. worker' = [w \in Workers |-> IF w \in ws THEN s ELSE worker[w]]
    BY DEF NewBlock, s
  <1>8. NodeInv'
    BY <1>3, <1>6, <1>7 DEF OInv, NodeInv
  <1>9. BlockInv'
    <2> SUFFICES ASSUME NEW w \in Workers, worker'[w].at = "start"
                 PROVE  worker'[w].block <= block'
      BY DEF BlockInv
    <2>1. CASE w \in ws
      BY <1>3, <1>4, <1>5, <2>1
    <2>2. CASE w \notin ws
      <3>1. worker'[w] = worker[w] /\ worker[w].block <= block
        BY <1>5, <2>2 DEF OInv, BlockInv
      <3>2. worker[w].block \in Nat
        BY <2>2, <3>1, WorkerPlaces DEF Busy, OInv, NodeInv
      <3> QED
        BY <1>3, <3>1, <3>2
    <2> QED
      BY <2>1, <2>2
  <1>10. SnapshotInv'
    <2> SUFFICES ASSUME NEW w \in Workers, worker'[w].at \in {"start", "draw", "mine"}
                 PROVE  Sound(worker[w])'
      BY DEF SnapshotInv
    <2>1. CASE w \in ws
      <3>1. worker'[w] = s
        BY <1>5, <2>1
      <3> QED
        BY <1>1, <1>4, <3>1 DEF Sound, Mates
    <2>2. CASE w \notin ws
      <3>1. worker'[w] = worker[w] /\ Sound(worker[w])
        BY <1>5, <2>2 DEF OInv, SnapshotInv
      <3> QED
        BY <1>1, <3>1 DEF Sound, Mates
    <2> QED
      BY <2>1, <2>2
  <1>11. LockInv'
    <2>1. \A w \in Workers : Inside(w)' => Inside(w) /\ worker'[w].deadline = worker[w].deadline
      BY <1>4, <1>5 DEF Inside
    <2> QED
      BY <1>3, <2>1, LockKept DEF OInv
  <1> QED
    BY <1>1, <1>2, <1>8, <1>9, <1>10, <1>11 DEF OInv

\* A crash takes workers out and leaves their locks behind.
LEMMA CrashKeeps ==
  ASSUME OInv, Overruns, NEW n \in Nodes, Crash(n)
  PROVE  OInv'
  <1>1. ChainInv' /\ UNCHANGED tokens
    BY ChainRests DEF Crash, OInv
  <1>2. PoolInv'
    BY <1>1, PoolKept DEF Crash, OInv
  <1>3. UNCHANGED <<block, clock, lock>>
    BY DEF Crash
  <1>4. worker' = [w \in Workers |-> IF NodeOf[w] = n THEN Idle ELSE worker[w]]
    BY DEF Crash
  <1>5. Idle \in WorkerStates /\ Idle.at = "idle"
    BY DEF WorkerStates, Idle
  <1>6. \A w \in Workers : worker'[w].at # "idle" => worker'[w] = worker[w]
    BY <1>4, <1>5
  <1>7. NodeInv'
    BY <1>3, <1>4, <1>5 DEF OInv, NodeInv
  <1>8. BlockInv'
    BY <1>3, <1>6 DEF OInv, BlockInv
  <1>9. SnapshotInv'
    <2> SUFFICES ASSUME NEW w \in Workers, worker'[w].at \in {"start", "draw", "mine"}
                 PROVE  Sound(worker[w])'
      BY DEF SnapshotInv
    <2>1. worker'[w] = worker[w]
      BY <1>6
    <2>2. Sound(worker[w])
      BY <2>1 DEF OInv, SnapshotInv
    <2> QED
      BY <1>1, <2>1, <2>2 DEF Sound, Mates
  <1>10. LockInv'
    <2>1. \A w \in Workers : Inside(w)' => Inside(w) /\ worker'[w].deadline = worker[w].deadline
      BY <1>6 DEF Inside
    <2> QED
      BY <1>3, <2>1, LockKept DEF OInv
  <1> QED
    BY <1>1, <1>2, <1>7, <1>8, <1>9, <1>10 DEF OInv

\* Steps that touch neither the workers nor the chain: the clock, what peers send
\* and what pools lose, and a fork that starts here.
LEMMA OutsideKeeps ==
  ASSUME OInv, Overruns, UNCHANGED <<vars, block, lock, worker>>,
         clock' \in Nat, PoolInv', ancestor' \in {ancestor, ChainState}
  PROVE  OInv'
  <1>1. UNCHANGED tokens /\ IInv'
    BY NextSafe DEF vars, nftVars, OInv, ChainInv
  <1>2. ChainInv'
    <2>1. CASE ancestor' = ancestor
      BY <2>1, ChainRests DEF OInv
    <2>2. CASE ancestor' = ChainState
      <3>1. /\ ancestor'.tokens = tokens /\ ancestor'.tokensByOwner = tokensByOwner
            /\ ancestor'.nextTokenId = nextTokenId /\ ancestor'.totalIssuance = totalIssuance
            /\ ancestor'.balances = balances /\ ancestor'.kittyPrices = kittyPrices
            /\ ancestor'.autoBreedNonce = autoBreedNonce
        BY <2>2 DEF ChainState
      <3>2. AncestorSound'
        BY <3>1 DEF OInv, ChainInv, IInv, NftInv, OwnerIndexAgrees, PriceInv, ListedKittiesExist,
                    BalanceInv, NoDustAccounts, NonceInv, AncestorSound
      <3>3. AncestorIsPrefix'
        BY <1>1, <3>1 DEF AncestorIsPrefix
      <3> QED
        BY <1>1, <3>2, <3>3 DEF ChainInv
    <2> QED
      BY <2>1, <2>2
  <1>3. NodeInv' /\ BlockInv'
    BY DEF OInv, NodeInv, BlockInv
  <1>4. SnapshotInv'
    BY <1>1 DEF OInv, SnapshotInv, Sound, Mates
  <1>5. LockInv'
    BY LockKept DEF OInv, Inside
  <1> QED
    BY <1>2, <1>3, <1>4, <1>5 DEF OInv

\* A peer's extrinsic promises nothing about the kitties it names.
LEMMA PeerSubmitsKeeps ==
  ASSUME OInv, Overruns, NEW k1 \in TokenIds, NEW k2 \in TokenIds, NEW n, NEW sol,
         PeerSubmits(k1, k2, n, sol)
  PROVE  OInv'
  <1> DEFINE x == [k1 |-> k1, k2 |-> k2, nonce |-> n, solution |-> sol, shared |-> 0]
  <1>1. UNCHANGED <<vars, block, clock, lock, worker, ancestor>> /\ pool' = pool \cup {x}
    BY DEF PeerSubmits
  <1>2. 0 \in TokenIds /\ k1 \in Nat
    BY MaxTokenIdAssumption DEF TokenIds
  <1>3. IsExtrinsic(x)
    BY <1>2 DEF IsExtrinsic
  <1>4. CanBreed(x)
    BY <1>2 DEF CanBreed
  <1> HIDE DEF x
  <1>5. PoolInv'
    BY <1>1, <1>3, <1>4, PoolGrows DEF OInv, vars, nftVars
  <1> QED
    BY <1>1, <1>5, OutsideKeeps DEF OInv, NodeInv

\* The best chain moves back to the ancestor: what a worker or an extrinsic shared
\* with the old one it shares with the new one as far as the ancestor goes.
LEMMA ReorgKeeps ==
  ASSUME OInv, Overruns, Reorg
  PROVE  OInv'
  <1>1. /\ tokens' = ancestor.tokens /\ tokensByOwner' = ancestor.tokensByOwner
        /\ nextTokenId' = ancestor.nextTokenId /\ totalIssuance' = ancestor.totalIssuance
        /\ balances' = ancestor.balances /\ kittyPrices' = ancestor.kittyPrices
        /\ autoBreedNonce' = ancestor.autoBreedNonce
        /\ UNCHANGED <<block, clock, lock, ancestor>>
    BY DEF Reorg
  <1>2. AncestorSound
    BY DEF OInv, ChainInv
  <1>3. IInv'
    BY <1>1, <1>2 DEF IInv, NftInv, OwnerIndexAgrees, PriceInv, ListedKittiesExist,
                      BalanceInv, NoDustAccounts, NonceInv, AncestorSound
  <1>4. ChainInv'
    BY <1>1, <1>2, <1>3 DEF ChainInv, AncestorSound, AncestorIsPrefix
  <1>5. /\ DOMAIN tokens' = 0 .. ancestor.nextTokenId - 1 /\ ancestor.nextTokenId \in Nat
        /\ \A t \in DOMAIN tokens' : t \in DOMAIN tokens /\ tokens'[t].data = tokens[t].data
    BY <1>1, <1>2, MaxTokenIdAssumption DEF AncestorSound, TokenIds, OInv, ChainInv, AncestorIsPrefix
  <1>6. PoolInv'
    <2> SUFFICES ASSUME NEW y \in pool' PROVE IsExtrinsic(y) /\ CanBreed(y)'
      BY DEF PoolInv, IsExtrinsic
    <2>1. PICK x \in pool : y = Rebased(x)
      BY DEF Reorg
    <2>2. IsExtrinsic(x) /\ CanBreed(x)
      BY DEF OInv, PoolInv
    <2>3. /\ IsExtrinsic(y) /\ y.k1 = x.k1 /\ y.k2 = x.k2
          /\ y.shared <= x.shared /\ y.shared <= ancestor.nextTokenId
      BY <1>2, <2>1, <2>2, RebasedExtrinsic
    <2>4. /\ x.k1 \in Nat /\ x.k2 \in Nat /\ x.shared \in Nat /\ y.shared \in Nat
      BY <2>2, <2>3, MaxTokenIdAssumption DEF IsExtrinsic, TokenIds
    <2>5. ASSUME y.k1 < y.shared, y.k2 < y.shared
          PROVE  /\ y.k1 \in DOMAIN tokens' /\ y.k2 \in DOMAIN tokens'
                 /\ Gender(tokens'[y.k1].data) # Gender(tokens'[y.k2].data)
      <3>1. x.k1 < x.shared /\ x.k2 < x.shared
        BY <2>3, <2>4, <2>5
      <3>2. Gender(tokens[x.k1].data) # Gender(tokens[x.k2].data)
        BY <2>2, <3>1 DEF CanBreed
      <3>3. y.k1 \in 0 .. ancestor.nextTokenId - 1 /\ y.k2 \in 0 .. ancestor.nextTokenId - 1
        BY <1>5, <2>3, <2>4, <2>5
      <3> QED
        BY <1>5, <2>3, <3>2, <3>3
    <2> QED
      BY <2>3, <2>5 DEF CanBreed
  <1>7. ASSUME NEW w \in Workers
        PROVE  /\ worker[w].at \in {"idle", "exit"} => worker'[w] = worker[w]
               /\ worker[w].at \notin {"idle", "exit"} => worker'[w] = Rebased(worker[w])
    BY DEF Reorg
  <1>8. ASSUME NEW w \in Workers
        PROVE  /\ worker'[w] \in WorkerStates /\ worker'[w].at = worker[w].at
               /\ worker[w].at # "idle" => worker'[w].deadline = worker[w].deadline
    <2>1. worker[w] \in WorkerStates
      BY DEF OInv, NodeInv
    <2>2. CASE worker[w].at \in {"idle", "exit"}
      BY <1>7, <2>1, <2>2
    <2>3. CASE worker[w].at = "start"
      <3>1. worker[w] \in Busy({"start"}, {NoLock}) /\ worker'[w] = Rebased(worker[w])
        BY <1>7, <2>1, <2>3, WorkerPlaces
      <3>2. /\ worker'[w] \in Busy({"start"}, {NoLock}) /\ worker'[w].at = worker[w].at
            /\ worker'[w].deadline = worker[w].deadline
        BY <1>2, <3>1, RebasedBusy
      <3> QED
        BY <3>2 DEF WorkerStates
    <2>4. CASE worker[w].at \in {"draw", "mine"}
      <3>1. worker[w] \in Busy({"draw", "mine"}, Deadlines) /\ worker'[w] = Rebased(worker[w])
        BY <1>7, <2>1, <2>4, WorkerPlaces
      <3>2. /\ worker'[w] \in Busy({"draw", "mine"}, Deadlines) /\ worker'[w].at = worker[w].at
            /\ worker'[w].deadline = worker[w].deadline
        BY <1>2, <3>1, RebasedBusy
      <3> QED
        BY <3>2 DEF WorkerStates
    <2> QED
      BY <2>1, <2>2, <2>3, <2>4, WorkerPlaces
  <1>9. NodeInv'
    <2>1. worker' \in [Workers -> WorkerStates]
      BY <1>8 DEF Reorg
    <2> QED
      BY <1>1, <2>1 DEF OInv, NodeInv
  <1>10. ASSUME NEW w \in Workers, worker[w].at \in {"start", "draw", "mine"}
         PROVE  worker'[w].block = worker[w].block /\ Sound(worker[w])'
    <2> DEFINE s == worker[w]
               r == worker'[w]
    <2>1. s \in Busy({"start"}, {NoLock}) \/ s \in Busy({"draw", "mine"}, Deadlines)
      BY <1>10, WorkerPlaces DEF OInv, NodeInv
    <2>2. r = Rebased(s)
      BY <1>7, <1>10
    <2>3. /\ r.at = s.at /\ r.block = s.block /\ r.count = s.count /\ r.seen = s.seen
          /\ r.k1 = s.k1 /\ r.k2 = s.k2
          /\ r.shared <= s.shared /\ r.shared <= ancestor.nextTokenId
          /\ r.shared \in TokenIds /\ s.shared \in TokenIds /\ s.count \in TokenIds
      <3>1. ASSUME NEW P, NEW D, s \in Busy(P, D)
            PROVE  /\ r.at = s.at /\ r.block = s.block /\ r.count = s.count /\ r.seen = s.seen
                   /\ r.k1 = s.k1 /\ r.k2 = s.k2
                   /\ r.shared <= s.shared /\ r.shared <= ancestor.nextTokenId
                   /\ r \in Busy(P, D)
        BY <1>2, <2>2, <3>1, RebasedBusy
      <3> QED
        BY <2>1, <3>1 DEF Busy
    <2>4. Sound(s)
      BY <1>10 DEF OInv, SnapshotInv
    <2> HIDE DEF r
    <2>5. ASSUME NEW t \in 0 .. s.count - 1, t < r.shared
          PROVE  t \in DOMAIN tokens' /\ tokens'[t].data = s.seen[t]
      <3>1. s.count \in Nat /\ s.shared \in Nat /\ r.shared \in Nat
        BY <2>3, MaxTokenIdAssumption DEF TokenIds
      <3>2. t \in 0 .. ancestor.nextTokenId - 1 /\ t < s.shared
        BY <1>5, <2>3, <2>5, <3>1
      <3> QED
        BY <1>5, <2>4, <3>2 DEF Sound
    <2>6. r.at = "mine" =>
            r.k1 \in 0 .. r.count - 1 /\ r.k2 \in 0 .. r.count - 1 /\ Mates(r, r.k1, r.k2)
      BY <2>3, <2>4 DEF Sound, Mates
    <2>7. r.seen \in [0 .. r.count - 1 -> Dna]
      BY <2>3, <2>4 DEF Sound
    <2> QED
      BY <2>3, <2>5, <2>6, <2>7 DEF Sound, Mates, r
  <1>11. BlockInv'
    BY <1>1, <1>8, <1>10 DEF OInv, BlockInv
  <1>12. SnapshotInv'
    BY <1>8, <1>10 DEF SnapshotInv
  <1>13. LockInv'
    <2>1. \A w \in Workers : Inside(w)' => Inside(w) /\ worker'[w].deadline = worker[w].deadline
      BY <1>8 DEF Inside
    <2> QED
      BY <1>1, <2>1, LockKept DEF OInv
  <1> QED
    BY <1>4, <1>6, <1>9, <1>11, <1>12, <1>13 DEF OInv

-----------------------------------------------------------------------------
(* Theorems *)

\* The invariant holds at genesis.
LEMMA OInitSafe == OInit => OInv
  <1> SUFFICES ASSUME OInit PROVE OInv
    OBVIOUS
  <1>1. IInv
    BY InitSafe DEF OInit
  <1>2. /\ ancestor.tokens = tokens /\ ancestor.tokensByOwner = tokensByOwner
        /\ ancestor.nextTokenId = nextTokenId /\ ancestor.totalIssuance = totalIssuance
        /\ ancestor.balances = balances /\ ancestor.kittyPrices = kittyPrices
        /\ ancestor.autoBreedNonce = autoBreedNonce
    BY DEF OInit, ChainState
  <1>3. ChainInv
    BY <1>1, <1>2 DEF ChainInv, IInv, NftInv, OwnerIndexAgrees, PriceInv, ListedKittiesExist,
                      BalanceInv, NoDustAccounts, NonceInv, AncestorSound, AncestorIsPrefix
  <1>4. Idle \in WorkerStates /\ Idle.at = "idle"
    BY DEF WorkerStates, Idle
  <1>5. \A w \in Workers : worker[w].at = "idle"
    BY <1>4 DEF OInit
  <1>6. NodeInv
    BY <1>4 DEF OInit, NodeInv
  <1>7. BlockInv /\ LockInv /\ SnapshotInv
    BY <1>5 DEF BlockInv, LockInv, HolderKeepsLock, LockExclusive, Inside, SnapshotInv
  <1>8. PoolInv
    BY DEF OInit, PoolInv
  <1> QED
    BY <1>3, <1>6, <1>7, <1>8 DEF OInv

\* An extrinsic is a safe step, even one that changes nothing.
LEMMA NextIsSafe ==
  ASSUME IInv, Next
  PROVE  SafeStep
  <1>1. CASE UNCHANGED vars
    <2>1. NonceInv' /\ UNCHANGED <<nftVars, balances, kittyPrices>>
      BY <1>1 DEF vars, balanceVars, IInv, NonceInv
    <2> QED
      BY <2>1, Untouched
  <1>2. CASE ~UNCHANGED vars
    BY <1>2, NextSafe
  <1> QED
    BY <1>1, <1>2

\* Every step of workers, nodes, peers and the chain keeps the invariant.
LEMMA ONextSafe == OInv /\ [ONext]_allVars => OInv'
  <1> SUFFICES ASSUME OInv, [ONext]_allVars PROVE OInv'
    OBVIOUS
  <1>1. CASE UNCHANGED allVars
    <2>1. /\ UNCHANGED <<vars, ancestor>>
          /\ UNCHANGED <<block, clock, lock, worker, pool, late>>
      BY <1>1 DEF allVars, workerVars
    <2>2. ChainInv' /\ UNCHANGED tokens
      BY <2>1, ChainRests DEF OInv
    <2>3. PoolInv'
      BY <2>1, <2>2, PoolKept DEF OInv
    <2>4. NodeInv' /\ BlockInv' /\ SnapshotInv'
      BY <2>1, <2>2, SnapshotsKept DEF OInv
    <2>5. LockInv'
      BY <2>1 DEF OInv, LockInv, HolderKeepsLock, LockExclusive, Inside
    <2> QED
      BY <2>2, <2>3, <2>4, <2>5 DEF OInv
  <1>2. CASE ONext
    <2>0. Overruns /\ IInv
      BY <1>2 DEF ONext, OInv, ChainInv
    <2>1. CASE DispatchNext /\ UNCHANGED <<block, clock, lock, worker, pool, ancestor>>
      <3>1. SafeStep
        BY <2>0, <2>1, NextIsSafe DEF Next
      <3> QED
        BY <2>0, <2>1, <3>1, ExtrinsicSafe
    <2>2. ASSUME NEW ws \in SUBSET Workers, NewBlock(ws)
          PROVE  OInv'
      BY <2>0, <2>2, NewBlockKeeps
    <2>3. ASSUME NEW w \in Workers, WorkerStep(w)
          PROVE  OInv'
      BY <2>0, <2>3, WorkerStepKeeps
    <2>4. CASE Tick
      <3>1. clock' \in Nat /\ UNCHANGED <<vars, block, lock, worker, pool, ancestor>>
        BY <2>4 DEF Tick, OInv, NodeInv
      <3>2. PoolInv'
        BY <3>1, PoolKept DEF OInv, vars, nftVars
      <3> QED
        BY <2>0, <3>1, <3>2, OutsideKeeps
    <2>5. ASSUME NEW n \in Nodes, Crash(n)
          PROVE  OInv'
      BY <2>0, <2>5, CrashKeeps
    <2>6. ASSUME NEW k1 \in TokenIds, NEW k2 \in TokenIds, NEW n \in 0 .. MaxNonce,
                 NEW x \in Solutions, PeerSubmits(k1, k2, n, x)
          PROVE  OInv'
      BY <2>0, <2>6, PeerSubmitsKeeps
    <2>7. ASSUME NEW x \in pool, Author(x)
          PROVE  OInv'
      <3>1. SafeStep
        BY <2>0, <2>7, ApplyAutoBreedSafe DEF Author
      <3>2. pool' \subseteq pool /\ UNCHANGED <<block, clock, lock, worker, ancestor>>
        BY <2>7 DEF Author
      <3> QED
        BY <2>0, <3>1, <3>2, ExtrinsicSafe
    <2>8. ASSUME NEW x \in pool, PoolDrops(x)
          PROVE  OInv'
      <3>1. pool' \subseteq pool /\ UNCHANGED <<vars, block, clock, lock, worker, ancestor>>
        BY <2>8 DEF PoolDrops
      <3>2. PoolInv'
        BY <3>1, PoolKept DEF OInv, vars, nftVars
      <3> QED
        BY <2>0, <3>1, <3>2, OutsideKeeps DEF OInv, NodeInv
    <2>9. CASE Fork
      <3>1. ancestor' = ChainState /\ UNCHANGED <<vars, block, clock, lock, worker, pool>>
        BY <2>9 DEF Fork
      <3>2. PoolInv'
        BY <3>1, PoolKept DEF OInv, vars, nftVars
      <3> QED
        BY <2>0, <3>1, <3>2, OutsideKeeps DEF OInv, NodeInv
    <2>10. CASE Reorg
      BY <2>0, <2>10, ReorgKeeps
    <2> QED
      BY <1>2, <2>1, <2>2, <2>3, <2>4, <2>5, <2>6, <2>7, <2>8, <2>9, <2>10 DEF ONext
  <1> QED
    BY <1>1, <1>2

\* Workers and chain keep the strengthened invariant.
LEMMA OSafety == OSpec => []OInv
  BY OInitSafe, ONextSafe, PTL DEF OSpec

\* Lock, clock and workers are of their types for any number of nodes and threads,
\* and remaining_iterations never reaches 0 inside the loops, whatever
\* MAX_ITERATIONS is.
THEOREM WorkersTyped == OSpec => []WorkerTypeOK
  <1>1. OInv => WorkerTypeOK
    <2> SUFFICES ASSUME OInv PROVE WorkerTypeOK
      OBVIOUS
    <2>1. ASSUME NEW w \in Workers
          PROVE  /\ worker[w].at \in {"idle", "start", "draw", "mine", "exit"}
                 /\ Inside(w) => worker[w].deadline \in Deadlines
                 /\ worker[w].at \in {"draw", "mine"} => worker[w].left \in 1 .. MaxIterations
      BY WorkerPlaces DEF OInv, NodeInv, Inside, Busy
    <2> QED
      BY <2>1 DEF OInv, NodeInv, WorkerTypeOK
  <1> QED
    BY <1>1, OSafety, PTL

\* The lock a worker holds stays in place until the worker lets go, wherever no
\* worker of the node has overrun its lock, for any number of nodes and threads, any
\* timeout, and through crashes.
THEOREM LockHeld == OSpec => []HolderKeepsLock
  <1>1. OInv => HolderKeepsLock
    BY DEF OInv, LockInv
  <1> QED
    BY <1>1, OSafety, PTL

\* At most one worker of a node is past try_lock, wherever none has overrun.
THEOREM MutualExclusion == OSpec => []LockExclusive
  <1>1. OInv => LockExclusive
    BY DEF OInv, LockInv
  <1> QED
    BY <1>1, OSafety, PTL

\* A worker's pair can breed from the moment it was drawn, in the worker and in the
\* pool, through any number of blocks, crashes and reorganisations that keep the
\* parents.
THEOREM PairsCanBreed == OSpec => []WorkerPairsCanBreed
  <1>1. OInv => WorkerPairsCanBreed
    <2> SUFFICES ASSUME OInv PROVE WorkerPairsCanBreed
      OBVIOUS
    <2>1. \A x \in pool : CanBreed(x)
      BY DEF OInv, PoolInv
    <2>2. ASSUME NEW w \in Workers, worker[w].at = "mine"
          PROVE  CanBreed(worker[w])
      <3> DEFINE x == Extrinsic(worker[w], 0)
      <3>1. CanBreed(x)
        BY <2>2, WorkerSubmits
      <3>2. x.k1 = worker[w].k1 /\ x.k2 = worker[w].k2 /\ x.shared = worker[w].shared
        BY DEF Extrinsic
      <3> HIDE DEF x
      <3> QED
        BY <3>1, <3>2 DEF CanBreed
    <2> QED
      BY <2>1, <2>2 DEF WorkerPairsCanBreed
  <1> QED
    BY <1>1, OSafety, PTL

\* What the steps of block authors do to a worker's extrinsics.
Succeeds ==
  \A x \in pool :
    Author(x) /\ x.k1 < x.shared /\ x.k2 < x.shared =>
      receipt'.result \in {Ok, "NoAvailableTokenId", "Overflow"}

\* A worker's extrinsic is included in vain only when there is no id left.
THEOREM BreedsSucceed == OSpec => WorkerBreedsSucceed
  <1>1. OInv => Succeeds
    <2> SUFFICES ASSUME OInv, NEW x \in pool, Author(x), x.k1 < x.shared, x.k2 < x.shared
                 PROVE  receipt'.result \in {Ok, "NoAvailableTokenId", "Overflow"}
      BY DEF Succeeds
    <2>1. /\ {x.k1, x.k2} \subseteq DOMAIN tokens
          /\ Gender(tokens[x.k1].data) # Gender(tokens[x.k2].data)
      BY DEF OInv, PoolInv, CanBreed
    <2>2. AutoBreedResult(NoneOrigin, x.k1, x.k2) \in {Ok, "NoAvailableTokenId", "Overflow"}
      BY <2>1 DEF AutoBreedResult, DoBreedResult, MintResult
    <2>3. receipt'.result = AutoBreedResult(NoneOrigin, x.k1, x.k2)
      BY ReceiptSays DEF Author, ApplyAutoBreed, AutoBreed, DoBreed
    <2> QED
      BY <2>2, <2>3
  <1> QED
    BY <1>1, OSafety, PTL DEF OSpec, WorkerBreedsSucceed, Succeeds

\* The pallet's storage is in order on whatever fork is the best chain: through any
\* number of retracted blocks and extrinsics of workers and peers, ids stay dense, the
\* owners agree, listings exist and no account is dust.
THEOREM StorageThroughReorgs ==
  OSpec => [](TypeOK /\ IdsAreDense /\ OwnerIndexAgrees /\ ListedKittiesExist /\ NoDustAccounts)
  <1>1. OInv => TypeOK
    BY InvTyped DEF OInv, ChainInv
  <1>2. OInv => IdsAreDense /\ OwnerIndexAgrees /\ ListedKittiesExist /\ NoDustAccounts
    BY DEF OInv, ChainInv, IInv, NftInv, IdsAreDense, PriceInv, BalanceInv
  <1> QED
    BY <1>1, <1>2, OSafety, PTL

-----------------------------------------------------------------------------
(* Workers come to an end *)

\* How many steps a worker in state s has left at most: the rounds of the search
\* that remain, then the mining, then the guard to drop.
StepsLeft(s) ==
  CASE s.at = "start" -> MaxIterations + 3
    [] s.at = "draw"  -> s.left + 2
    [] s.at = "mine"  -> 2
    [] s.at = "exit"  -> 1
    [] OTHER          -> 0

\* The steps left in every place: none only for an idle thread.
LEMMA StepsLeftAt ==
  ASSUME NEW s \in WorkerStates
  PROVE  /\ StepsLeft(s) \in 0 .. MaxIterations + 3
         /\ s # Idle => StepsLeft(s) > 0
         /\ s.at = "start" => StepsLeft(s) = MaxIterations + 3
         /\ s.at = "draw" => StepsLeft(s) = s.left + 2 /\ s.left \in 1 .. MaxIterations
         /\ s.at = "mine" => StepsLeft(s) = 2
         /\ s.at = "exit" => StepsLeft(s) = 1
         /\ s = Idle => StepsLeft(s) = 0
  <1>1. /\ s.at \in {"idle", "start", "draw", "mine", "exit"}
        /\ s.at = "idle" => s = Idle
        /\ s.at = "draw" => s \in Busy({"draw", "mine"}, Deadlines)
    BY WorkerPlaces
  <1>2. s.at = "draw" => s.left \in 1 .. MaxIterations
    BY <1>1 DEF Busy
  <1>3. s = Idle => s.at = "idle"
    BY DEF Idle
  <1> QED
    BY <1>1, <1>2, <1>3, WorkerAssumption DEF StepsLeft

\* Each round of the search uses one up.
LEMMA NextRoundWears ==
  ASSUME NEW s \in Busy({"draw", "mine"}, Deadlines), s.at = "draw"
  PROVE  StepsLeft(NextRound(s)) < StepsLeft(s)
  <1>1. s.left \in 1 .. MaxIterations /\ StepsLeft(s) = s.left + 2
    BY DEF Busy, StepsLeft
  <1>2. CASE s.left = 1
    <2>1. NextRound(s).at = "exit"
      BY <1>2 DEF NextRound, Exit
    <2>2. StepsLeft(NextRound(s)) = 1
      BY <2>1 DEF StepsLeft
    <2> QED
      BY <1>1, <2>2
  <1>3. CASE s.left # 1
    <2>1. NextRound(s).at = "draw" /\ NextRound(s).left = s.left - 1
      BY <1>3 DEF NextRound, Busy
    <2>2. StepsLeft(NextRound(s)) = s.left - 1 + 2
      BY <2>1 DEF StepsLeft
    <2> QED
      BY <1>1, <2>2
  <1> QED
    BY <1>2, <1>3

\* Every step of a worker uses one up, whichever way it goes.
LEMMA WorkerStepWears ==
  ASSUME OInv, NEW w \in Workers, WorkerStep(w)
  PROVE  StepsLeft(worker'[w]) < StepsLeft(worker[w])
  <1> DEFINE s == worker[w]
             r == worker'[w]
  <1>1. s \in WorkerStates /\ worker \in [Workers -> WorkerStates]
    BY DEF OInv, NodeInv
  <1>2. StepsLeft(Idle) = 0
    BY DEF StepsLeft, Idle
  <1>3. CASE TryLock(w)
    <2>1. StepsLeft(s) = MaxIterations + 3 /\ s \in Busy({"start"}, {NoLock})
      BY <1>1, <1>3, StepsLeftAt, WorkerPlaces DEF TryLock
    <2>2. CASE r = Idle
      BY <1>2, <2>1, <2>2, WorkerAssumption
    <2>3. CASE r # Idle
      <3>1. r = [s EXCEPT !.at = "draw", !.deadline = Deadline(s.block)]
        BY <1>1, <1>3, <2>3 DEF TryLock
      <3>2. r.at = "draw" /\ r.left = s.left /\ s.left \in 1 .. MaxIterations
        BY <2>1, <3>1 DEF Busy
      <3>3. StepsLeft(r) = s.left + 2
        BY <3>2 DEF StepsLeft
      <3> QED
        BY <2>1, <3>2, <3>3, WorkerAssumption
    <2> QED
      BY <2>2, <2>3
  <1>4. CASE Draw(w)
    <2>1. s.at = "draw" /\ s \in Busy({"draw", "mine"}, Deadlines)
      BY <1>1, <1>4, WorkerPlaces DEF Draw
    <2>2. StepsLeft(s) = s.left + 2 /\ s.left \in 1 .. MaxIterations
      BY <1>1, <2>1, StepsLeftAt
    <2>3. \/ r = Exit(s)
          \/ r = NextRound(s)
          \/ \E k1, k2 \in 0 .. s.count - 1 : r = [s EXCEPT !.at = "mine", !.k1 = k1, !.k2 = k2]
      BY <1>1, <1>4 DEF Draw
    <2>4. CASE r = Exit(s)
      <3>1. StepsLeft(r) = 1
        BY <2>4 DEF StepsLeft, Exit
      <3> QED
        BY <2>2, <3>1
    <2>5. CASE r = NextRound(s)
      BY <2>1, <2>5, NextRoundWears
    <2>6. ASSUME NEW k1 \in 0 .. s.count - 1, NEW k2 \in 0 .. s.count - 1,
                 r = [s EXCEPT !.at = "mine", !.k1 = k1, !.k2 = k2]
          PROVE  StepsLeft(r) < StepsLeft(s)
      <3>1. r.at = "mine"
        BY <2>1, <2>6 DEF Busy
      <3>2. StepsLeft(r) = 2
        BY <3>1 DEF StepsLeft
      <3> QED
        BY <2>2, <3>2
    <2> QED
      BY <2>3, <2>4, <2>5, <2>6
  <1>5. CASE Mine(w)
    <2>1. StepsLeft(s) = 2 /\ r = Exit(s)
      BY <1>1, <1>5, StepsLeftAt DEF Mine
    <2>2. StepsLeft(Exit(s)) = 1
      BY DEF StepsLeft, Exit
    <2> QED
      BY <2>1, <2>2
  <1>6. CASE Unlock(w)
    <2>1. StepsLeft(s) = 1 /\ r = Idle
      BY <1>1, <1>6, StepsLeftAt DEF Unlock
    <2> QED
      BY <1>2, <2>1
  <1> QED
    BY <1>3, <1>4, <1>5, <1>6 DEF WorkerStep

\* Nothing that others do gives a worker under way more to do.
LEMMA NothingRenews ==
  ASSUME OInv, [ONext]_allVars, NEW w \in Workers, worker[w] # Idle
  PROVE  StepsLeft(worker'[w]) <= StepsLeft(worker[w])
  <1>1. worker[w] \in WorkerStates /\ worker \in [Workers -> WorkerStates]
    BY DEF OInv, NodeInv
  <1>2. StepsLeft(worker[w]) \in Nat
    BY <1>1, StepsLeftAt, WorkerAssumption
  <1>3. CASE worker'[w] = worker[w]
    BY <1>2, <1>3
  <1>4. CASE worker'[w] = Idle
    <2>1. StepsLeft(Idle) = 0
      BY DEF StepsLeft, Idle
    <2> QED
      BY <1>2, <1>4, <2>1
  <1>5. ASSUME NEW v \in Workers, WorkerStep(v)
        PROVE  StepsLeft(worker'[w]) <= StepsLeft(worker[w])
    <2>1. CASE v = w
      <3>1. StepsLeft(worker'[w]) < StepsLeft(worker[w])
        BY <1>5, <2>1, WorkerStepWears
      <3>2. OInv' => worker'[w] \in WorkerStates
        BY DEF OInv, NodeInv
      <3>3. worker'[w] \in WorkerStates
        BY <3>2, ONextSafe
      <3>4. StepsLeft(worker'[w]) \in Nat
        BY <3>3, StepsLeftAt, WorkerAssumption
      <3> QED
        BY <1>2, <3>1, <3>4
    <2>2. CASE v # w
      <3>1. worker'[w] = worker[w]
        BY <1>1, <1>5, <2>2 DEF WorkerStep, TryLock, Draw, Mine, Unlock
      <3> QED
        BY <1>3, <3>1
    <2> QED
      BY <2>1, <2>2
  <1>6. CASE Reorg
    <2>1. CASE worker[w].at \in {"idle", "exit"}
      BY <1>3, <1>6, <2>1 DEF Reorg
    <2>2. CASE worker[w].at \notin {"idle", "exit"}
      <3> DEFINE s == worker[w]
                 r == Rebased(s)
      <3>1. worker'[w] = r
        BY <1>6, <2>2 DEF Reorg
      <3>2. AncestorSound
        BY DEF OInv, ChainInv
      <3>3. s \in Busy({"start"}, {NoLock}) \/ s \in Busy({"draw", "mine"}, Deadlines)
        BY <1>1, <2>2, WorkerPlaces
      <3>4. r.at = s.at /\ r.left = s.left
        BY <3>2, <3>3, RebasedBusy
      <3> HIDE DEF r
      <3>5. StepsLeft(r) = StepsLeft(s)
        BY <3>4 DEF StepsLeft
      <3> QED
        BY <1>2, <3>1, <3>5
    <2> QED
      BY <2>1, <2>2
  <1>7. ASSUME NEW ws \in SUBSET Workers, NewBlock(ws)
        PROVE  worker'[w] = worker[w]
    BY <1>7 DEF NewBlock
  <1>8. ASSUME NEW n \in Nodes, Crash(n)
        PROVE  worker'[w] \in {Idle, worker[w]}
    BY <1>8 DEF Crash
  <1>9. \/ worker' = worker
        \/ \E ws \in SUBSET Workers : NewBlock(ws)
        \/ \E v \in Workers : WorkerStep(v)
        \/ \E n \in Nodes : Crash(n)
        \/ Reorg
    BY DEF ONext, Tick, PeerSubmits, Author, PoolDrops, Fork, allVars, workerVars
  <1> QED
    BY <1>3, <1>4, <1>5, <1>6, <1>7, <1>8, <1>9

\* What a step does to the steps that the workers have left.
Wears ==
  \A w \in Workers :
    /\ StepsLeft(worker[w]) \in 0 .. MaxIterations + 3
    /\ worker[w] # Idle => StepsLeft(worker[w]) > 0 /\ StepsLeft(worker'[w]) <= StepsLeft(worker[w])
    /\ WorkerStep(w) => StepsLeft(worker'[w]) < StepsLeft(worker[w])

\* Both loops of run_offchain_worker are bounded by MAX_ITERATIONS together: a worker
\* takes at most MAX_ITERATIONS + 3 steps from its start to its return, and neither
\* other workers nor blocks, crashes and reorganisations give it more.  With a fair
\* executor this is why it returns.
THEOREM WorkersWearOut == OSpec => [][Wears]_allVars
  <1>1. OInv /\ [ONext]_allVars => Wears
    <2> SUFFICES ASSUME OInv, [ONext]_allVars, NEW w \in Workers
                 PROVE  /\ StepsLeft(worker[w]) \in 0 .. MaxIterations + 3
                        /\ worker[w] # Idle => /\ StepsLeft(worker[w]) > 0
                                               /\ StepsLeft(worker'[w]) <= StepsLeft(worker[w])
                        /\ WorkerStep(w) => StepsLeft(worker'[w]) < StepsLeft(worker[w])
      BY DEF Wears
    <2>1. worker[w] \in WorkerStates
      BY DEF OInv, NodeInv
    <2> QED
      BY <2>1, StepsLeftAt, WorkerStepWears, NothingRenews
  <1> QED
    BY <1>1, OSafety, PTL DEF OSpec

-----------------------------------------------------------------------------
(* Locks come off *)

\* No lock lasts longer than one that is taken now.
LockBound ==
  \A n \in Nodes : lock[n] # NoLock =>
    lock[n].time <= clock + LockTimeout /\ lock[n].block <= block + 1

\* Blocks and time only pass, and a worker that takes a lock has a block of the past.
LEMMA LockBoundKept ==
  ASSUME OInv, [ONext]_allVars, LockBound
  PROVE  LockBound'
  <1> SUFFICES ASSUME NEW n \in Nodes, lock'[n] # NoLock
               PROVE  lock'[n].time <= clock' + LockTimeout /\ lock'[n].block <= block' + 1
    BY DEF LockBound
  <1>0. /\ block \in Nat /\ clock \in Nat /\ LockTimeout \in Nat
        /\ lock \in [Nodes -> Deadlines \cup {NoLock}]
    BY WorkerAssumption DEF OInv, NodeInv
  <1>1. block' >= block /\ block' \in Nat /\ clock' >= clock /\ clock' \in Nat
    <2>1. CASE \E ws \in SUBSET Workers : NewBlock(ws)
      BY <1>0, <2>1 DEF NewBlock
    <2>2. CASE Tick
      BY <1>0, <2>2 DEF Tick
    <2>3. ASSUME NEW w \in Workers, WorkerStep(w)
          PROVE  block' = block /\ clock' = clock
      BY <2>3 DEF WorkerStep, TryLock, Draw, Mine, Unlock
    <2>4. CASE block' = block /\ clock' = clock
      BY <1>0, <2>4
    <2> QED
      BY <2>1, <2>2, <2>3, <2>4 DEF ONext, Crash, PeerSubmits, Author, PoolDrops, Fork, Reorg,
                                    allVars, workerVars
  <1>2. CASE lock'[n] = lock[n]
    <2>1. lock[n].time \in Nat /\ lock[n].block \in Nat
      BY <1>0, <1>2 DEF Deadlines
    <2>2. lock[n].time <= clock + LockTimeout /\ lock[n].block <= block + 1
      BY <1>2 DEF LockBound
    <2> QED
      BY <1>0, <1>1, <1>2, <2>1, <2>2
  <1>3. ASSUME NEW w \in Workers, WorkerStep(w), lock'[n] # lock[n]
        PROVE  lock'[n].time <= clock' + LockTimeout /\ lock'[n].block <= block' + 1
    <2>1. CASE TryLock(w)
      <3>1. lock'[n] = Deadline(worker[w].block) /\ worker[w].at = "start"
        BY <1>0, <1>3, <2>1 DEF TryLock, LockAfterRefusal
      <3>2. worker[w] \in Busy({"start"}, {NoLock})
        BY <3>1, WorkerPlaces DEF OInv, NodeInv
      <3>3. worker[w].block \in Nat /\ worker[w].block <= block
        BY <3>1, <3>2 DEF Busy, OInv, BlockInv
      <3>4. lock'[n].time = clock + LockTimeout /\ lock'[n].block = worker[w].block + 1
        BY <3>1 DEF Deadline
      <3> QED
        BY <1>0, <1>1, <3>3, <3>4
    <2>2. CASE Unlock(w)
      BY <1>0, <1>3, <2>2 DEF Unlock
    <2>3. CASE Draw(w) \/ Mine(w)
      BY <1>3, <2>3 DEF Draw, Mine
    <2> QED
      BY <1>3, <2>1, <2>2, <2>3 DEF WorkerStep
  <1>4. lock' = lock \/ \E w \in Workers : WorkerStep(w)
    BY DEF ONext, NewBlock, Tick, Crash, PeerSubmits, Author, PoolDrops, Fork, Reorg,
           allVars, workerVars
  <1> QED
    BY <1>2, <1>3, <1>4

\* An owner stays inside with its deadline through every step but a crash of its
\* node, or the lock goes with it.
LEMMA OwnerStays ==
  ASSUME OInv, [ONext]_allVars, NEW n \in Nodes, LockOwned(n), ~Crash(n), lock'[n] = lock[n],
         lock[n] # NoLock
  PROVE  LockOwned(n)'
  <1>1. PICK w \in Workers : NodeOf[w] = n /\ Inside(w) /\ worker[w].deadline = lock[n]
    BY DEF LockOwned
  <1>2. /\ worker[w] \in WorkerStates /\ worker \in [Workers -> WorkerStates]
        /\ lock \in [Nodes -> Deadlines \cup {NoLock}]
    BY DEF OInv, NodeInv
  <1> SUFFICES Inside(w)' /\ worker'[w].deadline = worker[w].deadline
    BY <1>1 DEF LockOwned
  <1>3. CASE worker'[w] = worker[w]
    BY <1>1, <1>3 DEF Inside
  <1>4. ASSUME NEW v \in Workers, WorkerStep(v)
        PROVE  Inside(w)' /\ worker'[w].deadline = worker[w].deadline
    <2>1. CASE v # w
      <3>1. worker'[w] = worker[w]
        BY <1>2, <1>4, <2>1 DEF WorkerStep, TryLock, Draw, Mine, Unlock
      <3> QED
        BY <1>3, <3>1
    <2>2. CASE v = w /\ TryLock(w)
      BY <1>1, <2>2 DEF TryLock, Inside
    <2>3. CASE v = w /\ Unlock(w)
      BY <1>1, <1>2, <2>3 DEF Unlock
    <2>4. CASE v = w /\ Mine(w)
      BY <1>2, <2>4 DEF Mine, Exit, Inside
    <2>5. CASE v = w /\ Draw(w)
      <3> DEFINE s == worker[w]
                 r == worker'[w]
      <3>1. s \in Busy({"draw", "mine"}, Deadlines) /\ s.at = "draw"
        BY <1>2, <2>5, WorkerPlaces DEF Draw
      <3>2. \/ r = Exit(s)
            \/ r = NextRound(s)
            \/ \E k1, k2 \in 0 .. s.count - 1 : r = [s EXCEPT !.at = "mine", !.k1 = k1, !.k2 = k2]
        BY <1>2, <2>5 DEF Draw
      <3>3. r.at \in {"draw", "mine", "exit"} /\ r.deadline = s.deadline
        <4>1. CASE r = Exit(s)
          BY <4>1 DEF Exit
        <4>2. CASE r = NextRound(s)
          BY <3>1, <4>2 DEF NextRound, Exit, Busy
        <4>3. ASSUME NEW k1 \in 0 .. s.count - 1, NEW k2 \in 0 .. s.count - 1,
                     r = [s EXCEPT !.at = "mine", !.k1 = k1, !.k2 = k2]
              PROVE  r.at = "mine" /\ r.deadline = s.deadline
          BY <3>1, <4>3 DEF Busy
        <4> QED
          BY <3>2, <4>1, <4>2, <4>3
      <3> QED
        BY <3>3 DEF Inside
    <2> QED
      BY <1>4, <2>1, <2>2, <2>3, <2>4, <2>5 DEF WorkerStep
  <1>5. CASE Reorg
    <2>1. CASE worker[w].at = "exit"
      BY <1>3, <1>5, <2>1 DEF Reorg
    <2>2. CASE worker[w].at # "exit"
      <3> DEFINE s == worker[w]
                 r == Rebased(s)
      <3>1. s \in Busy({"draw", "mine"}, Deadlines) /\ s.at \in {"draw", "mine"}
        BY <1>1, <1>2, <2>2, WorkerPlaces DEF Inside
      <3>2. worker'[w] = r
        BY <1>5, <3>1 DEF Reorg
      <3>3. AncestorSound
        BY DEF OInv, ChainInv
      <3>4. r.at = s.at /\ r.deadline = s.deadline
        BY <3>1, <3>3, RebasedBusy
      <3> HIDE DEF r
      <3> QED
        BY <3>1, <3>2, <3>4 DEF Inside
    <2> QED
      BY <2>1, <2>2
  <1>6. ASSUME NEW ws \in SUBSET Workers, NewBlock(ws)
        PROVE  worker'[w] = worker[w]
    BY <1>1, <1>6 DEF NewBlock, Inside, Idle
  <1>7. ASSUME NEW m \in Nodes, Crash(m)
        PROVE  worker'[w] = worker[w]
    BY <1>1, <1>7 DEF Crash
  <1>8. \/ worker' = worker
        \/ \E ws \in SUBSET Workers : NewBlock(ws)
        \/ \E v \in Workers : WorkerStep(v)
        \/ \E m \in Nodes : Crash(m)
        \/ Reorg
    BY DEF ONext, Tick, PeerSubmits, Author, PoolDrops, Fork, allVars, workerVars
  <1> QED
    BY <1>3, <1>4, <1>5, <1>6, <1>7, <1>8

\* A lock that changes and is set belongs to the worker that set it.
LEMMA TakerOwns ==
  ASSUME OInv, [ONext]_allVars, NEW n \in Nodes, lock'[n] # lock[n], lock'[n] # NoLock
  PROVE  LockOwned(n)'
  <1>0. lock \in [Nodes -> Deadlines \cup {NoLock}] /\ worker \in [Workers -> WorkerStates]
    BY DEF OInv, NodeInv
  <1>1. PICK w \in Workers : WorkerStep(w)
    BY DEF ONext, NewBlock, Tick, Crash, PeerSubmits, Author, PoolDrops, Fork, Reorg,
           allVars, workerVars
  <1>2. TryLock(w)
    BY <1>0, <1>1 DEF WorkerStep, Draw, Mine, Unlock
  <1>3. /\ NodeOf[w] = n /\ worker[w].at = "start"
        /\ lock'[n] = Deadline(worker[w].block)
        /\ worker' = [worker EXCEPT ![w].at = "draw", ![w].deadline = Deadline(worker[w].block)]
    BY <1>0, <1>2 DEF TryLock, LockAfterRefusal
  <1>4. worker[w] \in Busy({"start"}, {NoLock})
    BY <1>0, <1>3, WorkerPlaces
  <1>5. worker'[w].at = "draw" /\ worker'[w].deadline = Deadline(worker[w].block)
    BY <1>0, <1>3, <1>4 DEF Busy
  <1> QED
    BY <1>3, <1>5 DEF LockOwned, Inside

\* No worker of any node leaves its lock set, however many overran theirs and whatever
\* the length of the timeout; a crash leaves a lock that runs out.
THEOREM LocksComeOff == OSpec => NoStuckLock
  <1> DEFINE Kept ==
        \A n \in Nodes : lock'[n] # NoLock =>
          /\ lock'[n].time <= clock' + LockTimeout
          /\ lock'[n].block <= block' + 1
          /\ \/ LockOwned(n)'
             \/ lock'[n] = lock[n] /\ (~LockOwned(n) \/ Crash(n))
  <1>1. OInit => LockBound
    BY DEF OInit, LockBound
  <1>2. OInv /\ LockBound /\ [ONext]_allVars => LockBound'
    BY LockBoundKept
  <1>3. OInv /\ LockBound /\ [ONext]_allVars => Kept
    <2> SUFFICES ASSUME OInv, LockBound, [ONext]_allVars, NEW n \in Nodes, lock'[n] # NoLock
                 PROVE  /\ lock'[n].time <= clock' + LockTimeout
                        /\ lock'[n].block <= block' + 1
                        /\ \/ LockOwned(n)'
                           \/ lock'[n] = lock[n] /\ (~LockOwned(n) \/ Crash(n))
      OBVIOUS
    <2>1. lock'[n].time <= clock' + LockTimeout /\ lock'[n].block <= block' + 1
      BY LockBoundKept DEF LockBound
    <2>2. CASE lock'[n] # lock[n]
      BY <2>1, <2>2, TakerOwns
    <2>3. CASE lock'[n] = lock[n]
      BY <2>1, <2>3, OwnerStays
    <2> QED
      BY <2>2, <2>3
  <1> QED
    BY <1>1, <1>2, <1>3, OSafety, PTL DEF OSpec, NoStuckLock

=============================================================================
