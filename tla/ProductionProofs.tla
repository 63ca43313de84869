-------------------------- MODULE ProductionProofs --------------------------
(***************************************************************************)
(* Block production, for every number of authorities, every slot duration  *)
(* and every behaviour of the clocks since the epoch: authorities that are *)
(* not restarted do not equivocate, honest blocks are not refused over     *)
(* their timestamp, and a changed slot duration ends block production.     *)
(***************************************************************************)
EXTENDS Production, TLAPS

-----------------------------------------------------------------------------
(* Arithmetic of slots *)

\* A slot of duration d with number q.
LEMMA DivBounds ==
  ASSUME NEW a \in Nat, NEW d \in Nat \ {0}
  PROVE  /\ a \div d \in Nat
         /\ d * (a \div d) <= a
         /\ a < d * (a \div d) + d
  OBVIOUS

LEMMA DivUnique ==
  ASSUME NEW a \in Nat, NEW d \in Nat \ {0}, NEW q \in Nat,
         d * q <= a, a < d * q + d
  PROVE  a \div d = q
  OBVIOUS

\* Later times are not in earlier slots.
LEMMA DivMonotone ==
  ASSUME NEW a \in Nat, NEW b \in Nat, NEW d \in Nat \ {0}, a <= b
  PROVE  a \div d <= b \div d
  OBVIOUS

-----------------------------------------------------------------------------
(* The inductive invariant *)

Periods == {MinimumPeriod(d) : d \in Upgrades \cup {SlotDuration}}

Headers == [slot : Nat, time : Nat, period : Periods]

\* A chain in which every block is in the slot of its timestamp, by the duration
\* of genesis, and no block was built after one that changed the duration.
GoodChain(c) ==
  /\ c \in Seq(Headers)
  /\ Len(c) >= 1
  /\ \A i \in 1 .. Len(c) : c[i].time \div PalletSlotDuration(Genesis.period) = c[i].slot
  /\ \A i \in 1 .. Len(c) - 1 : c[i].period = Genesis.period

ClockInv == clock \in [Nodes -> Nat] /\ \A n \in Nodes : clock[n] >= StartTime

ChainsInv == DOMAIN chain = Nodes /\ \A n \in Nodes : GoodChain(chain[n])

\* The Slots stream remembers the slots its node has signed for.
SealInv ==
  /\ lastSlot \in [Nodes -> Nat]
  /\ \A x \in sealed : /\ x.author \in Nodes
                       /\ x.author \notin restarted => x.slot <= lastSlot[x.author]
                       /\ x.slot \in Nat
  /\ NoEquivocation

PInv == ClockInv /\ ChainsInv /\ SealInv

\* Periods are at least 1, so no slot has duration 0.
LEMMA PeriodsPositive ==
  /\ Periods \subseteq Nat \ {0}
  /\ Genesis.period \in Periods
  /\ Genesis.period = SlotDuration \div 2
  <1>1. ASSUME NEW d \in Nat \ {0, 1} PROVE d \div 2 \in Nat \ {0}
    OBVIOUS
  <1>2. Periods \subseteq Nat \ {0}
    BY <1>1, ProductionAssumption DEF Periods, MinimumPeriod
  <1>3. Genesis.period = MinimumPeriod(SlotDuration)
    BY DEF Genesis
  <1> QED
    BY <1>2, <1>3 DEF Periods, MinimumPeriod

\* The number of the slot a node is in, by its clock.
LEMMA SlotNowBounds ==
  ASSUME ClockInv, NEW n \in Nodes
  PROVE  LET D == 2 * Genesis.period
         IN  /\ SlotNow(n) \in Nat
             /\ D * SlotNow(n) <= clock[n]
             /\ clock[n] < D * SlotNow(n) + D
             /\ SlotNow(n) = clock[n] \div D
             /\ SlotNow(n) >= StartTime \div D
  <1> DEFINE D == 2 * Genesis.period
  <1>1. D \in Nat \ {0}
    <2>1. Genesis.period \in Nat \ {0}
      BY PeriodsPositive
    <2> QED
      BY <2>1
  <1>2. clock[n] \in Nat /\ StartTime \in Nat /\ StartTime <= clock[n]
    BY ProductionAssumption DEF ClockInv
  <1>3. SlotNow(n) = clock[n] \div D
    BY DEF SlotNow, NodeSlotDuration, PalletSlotDuration
  <1> HIDE DEF D
  <1>4. /\ SlotNow(n) \in Nat /\ D * SlotNow(n) <= clock[n] /\ clock[n] < D * SlotNow(n) + D
        /\ SlotNow(n) >= StartTime \div D
    BY <1>1, <1>2, <1>3, DivBounds, DivMonotone
  <1> QED
    BY <1>3, <1>4 DEF D

\* The last header of a good chain.
LEMMA LastHeader ==
  ASSUME NEW c, GoodChain(c)
  PROVE  /\ Last(c).slot \in Nat /\ Last(c).time \in Nat /\ Last(c).period \in Periods
         /\ Last(c).time \div PalletSlotDuration(Genesis.period) = Last(c).slot
  <1>1. Len(c) \in 1 .. Len(c) /\ c[Len(c)] \in Headers
    BY DEF GoodChain
  <1> QED
    BY <1>1 DEF Last, GoodChain, Headers

-----------------------------------------------------------------------------
(* Blocks *)

\* A block that the runtime accepts was built under the duration of genesis: from
\* the epoch on, a runtime that counts slots of 2 * q and a node that counts slots
\* of 2 * p agree on no block, neither when the timestamp is that of the clock nor
\* when it is one minimum period after that of the parent.
LEMMA DurationFixed ==
  ASSUME PInv, NEW n \in Nodes,
         RuntimeAccepts(Last(chain[n]), SlotNow(n), InherentTime(n))
  PROVE  Last(chain[n]).period = Genesis.period
  <1> DEFINE parent == Last(chain[n])
             p == Genesis.period
             q == parent.period
             slot == SlotNow(n)
             time == InherentTime(n)
             first == StartTime \div (2 * p)
  <1>1. p \in Nat \ {0} /\ p = SlotDuration \div 2
    BY PeriodsPositive
  <1>2. parent.slot \in Nat /\ parent.time \in Nat /\ q \in Periods /\ parent.time \div (2 * p) = parent.slot
    BY LastHeader DEF PInv, ChainsInv, PalletSlotDuration
  <1>3. q \in Nat \ {0}
    BY <1>2, PeriodsPositive
  <1>4. /\ slot \in Nat /\ (2 * p) * slot <= clock[n] /\ clock[n] < (2 * p) * slot + 2 * p
        /\ slot >= first
    BY SlotNowBounds DEF PInv
  <1>5. clock[n] \in Nat
    BY DEF PInv, ClockInv
  <1>6. slot > parent.slot /\ time \div (2 * q) = slot
    BY DEF RuntimeAccepts, PalletSlotDuration
  <1>7. time \in {clock[n], parent.time + q} /\ time >= clock[n] /\ time \in Nat
    BY <1>2, <1>3, <1>5 DEF InherentTime
  <1> SUFFICES ASSUME q # p PROVE FALSE
    OBVIOUS
  <1>8. PICK d \in Upgrades : q = d \div 2
    BY <1>1, <1>2 DEF Periods, MinimumPeriod
  <1>9. /\ first \in Nat /\ first >= 1
        /\ p > q => (p - q) * first >= q
        /\ p < q => (q - p) * first >= p
    <2>1. StartTime \in Nat
      BY ProductionAssumption
    <2>2. first \in Nat
      BY <1>1, <2>1, DivBounds
    <2> QED
      BY <1>1, <1>8, <2>2, EpochAssumption
  <1> HIDE DEF p, q, slot, time, first, parent
  <1>10. parent.time < (2 * p) * slot
    <2> DEFINE D == 2 * p
    <2>0. D \in Nat \ {0} /\ parent.time \div D = parent.slot
      BY <1>1, <1>2
    <2> HIDE DEF D
    <2>1. parent.time < D * parent.slot + D
      BY <1>2, <2>0, DivBounds
    <2>2. D * parent.slot + D <= D * slot
      BY <1>2, <1>4, <1>6, <2>0
    <2>3. D * parent.slot \in Nat /\ D * slot \in Nat
      BY <1>2, <1>4, <2>0
    <2>4. parent.time < D * slot
      BY <1>2, <2>0, <2>1, <2>2, <2>3
    <2> QED
      BY <2>4 DEF D
  <1>11. (2 * q) * slot <= time /\ time < (2 * q) * slot + 2 * q
    <2> DEFINE D == 2 * q
    <2>0. D \in Nat \ {0} /\ time \div D = slot
      BY <1>3, <1>6
    <2> HIDE DEF D
    <2>1. D * slot <= time /\ time < D * slot + D
      BY <1>7, <2>0, DivBounds
    <2> QED
      BY <2>1 DEF D
  <1>12. CASE p > q
    <2>1. p - q \in Nat /\ (p - q) * first >= q
      BY <1>1, <1>3, <1>9, <1>12
    <2>2. (p - q) * slot >= (p - q) * first
      BY <1>4, <1>9, <2>1
    <2>3. (p - q) * slot = p * slot - q * slot
      BY <1>1, <1>3, <1>4
    <2>4. p * slot >= q * slot + q
      BY <1>1, <1>3, <1>4, <1>9, <2>1, <2>2, <2>3
    <2> QED
      BY <1>1, <1>3, <1>4, <1>5, <1>7, <1>11, <2>4
  <1>13. CASE p < q
    <2>1. q - p \in Nat /\ (q - p) * first >= p
      BY <1>1, <1>3, <1>9, <1>13
    <2>2. (q - p) * slot >= (q - p) * first /\ (q - p) * slot >= q - p
      BY <1>4, <1>9, <2>1
    <2>3. (q - p) * slot = q * slot - p * slot
      BY <1>1, <1>3, <1>4
    <2>4. q * slot >= p * slot + p /\ q * slot >= p * slot + q - p
      BY <1>1, <1>3, <1>4, <1>9, <2>1, <2>2, <2>3
    <2>5. CASE time = clock[n]
      BY <1>1, <1>3, <1>4, <1>5, <1>11, <2>4, <2>5
    <2>6. CASE time = parent.time + q
      BY <1>1, <1>2, <1>3, <1>4, <1>10, <1>11, <2>4, <2>6
    <2> QED
      BY <1>7, <2>5, <2>6
  <1> QED
    BY <1>1, <1>3, <1>12, <1>13

\* The timestamp of an honest block falls into the slot the block is for.
LEMMA TimestampFits ==
  ASSUME PInv, NEW n \in Nodes, Last(chain[n]).period = Genesis.period,
         SlotNow(n) > Last(chain[n]).slot
  PROVE  RuntimeAccepts(Last(chain[n]), SlotNow(n), InherentTime(n))
  <1> DEFINE parent == Last(chain[n])
             p == Genesis.period
             D == 2 * p
             slot == SlotNow(n)
             time == InherentTime(n)
  <1>1. p \in Nat \ {0}
    BY PeriodsPositive
  <1>2. D \in Nat \ {0}
    BY <1>1
  <1>3. parent.slot \in Nat /\ parent.time \in Nat /\ parent.time \div D = parent.slot /\ parent.period = p
    BY LastHeader DEF PInv, ChainsInv, PalletSlotDuration
  <1>4. slot \in Nat /\ D * slot <= clock[n] /\ clock[n] < D * slot + D
    BY SlotNowBounds DEF PInv
  <1>5. clock[n] \in Nat
    BY DEF PInv, ClockInv
  <1>6. time = IF clock[n] >= parent.time + p THEN clock[n] ELSE parent.time + p
    BY <1>3 DEF InherentTime
  <1>7. slot > parent.slot
    OBVIOUS
  <1> HIDE DEF slot, time, parent, p
  <1>8. parent.time < D * parent.slot + D
    <2> HIDE DEF D
    <2> QED
      BY <1>2, <1>3, DivBounds
  <1>9. D * parent.slot + D <= D * slot
    BY <1>1, <1>3, <1>4, <1>7
  <1>10. time \in Nat /\ time >= parent.time + p
    BY <1>1, <1>3, <1>5, <1>6
  <1>11. D * slot <= time /\ time < D * slot + D
    <2>1. D * slot \in Nat /\ D * parent.slot \in Nat
      BY <1>1, <1>3, <1>4
    <2>2. D = p + p
      BY <1>1
    <2> HIDE DEF D
    <2> QED
      BY <1>1, <1>2, <1>3, <1>4, <1>5, <1>6, <1>8, <1>9, <2>1, <2>2
  <1>12. time \div D = slot
    <2> HIDE DEF D
    <2> QED
      BY <1>2, <1>4, <1>10, <1>11, DivUnique
  <1> QED
    BY <1>3, <1>7, <1>10, <1>12 DEF RuntimeAccepts, PalletSlotDuration, slot, time, parent, p

\* A block on a good chain makes a good chain.
LEMMA GoodChainGrows ==
  ASSUME NEW c, GoodChain(c), Last(c).period = Genesis.period,
         NEW h \in Headers, h.time \div PalletSlotDuration(Genesis.period) = h.slot
  PROVE  GoodChain(Append(c, h))
  <1>1. c \in Seq(Headers) /\ Len(c) \in Nat /\ Len(c) >= 1
    BY DEF GoodChain
  <1>2. /\ Append(c, h) \in Seq(Headers) /\ Len(Append(c, h)) = Len(c) + 1
        /\ Append(c, h)[Len(c) + 1] = h
        /\ \A i \in 1 .. Len(c) : Append(c, h)[i] = c[i]
    BY <1>1
  <1>3. \A i \in 1 .. Len(c) : c[i].time \div PalletSlotDuration(Genesis.period) = c[i].slot
                               /\ c[i].period = Genesis.period
    BY <1>1 DEF GoodChain, Last
  <1> QED
    BY <1>1, <1>2, <1>3 DEF GoodChain

\* Part of a good chain is a good chain.
LEMMA GoodChainCut ==
  ASSUME NEW c, GoodChain(c), NEW k \in 1 .. Len(c)
  PROVE  GoodChain(SubSeq(c, 1, k))
  <1>1. c \in Seq(Headers) /\ Len(c) \in Nat
    BY DEF GoodChain
  <1>2. /\ SubSeq(c, 1, k) \in Seq(Headers) /\ Len(SubSeq(c, 1, k)) = k
        /\ \A i \in 1 .. k : SubSeq(c, 1, k)[i] = c[i]
    BY <1>1
  <1> QED
    BY <1>1, <1>2 DEF GoodChain

-----------------------------------------------------------------------------
(* Steps *)

\* A node that authors extends a good chain and signs for a new slot.
LEMMA AuthorsKeeps ==
  ASSUME PInv, NEW n \in Nodes, NEW d \in Upgrades \cup {SlotDuration},
         Authors(n, MinimumPeriod(d))
  PROVE  PInv'
  <1> DEFINE h == [slot |-> SlotNow(n), time |-> InherentTime(n), period |-> MinimumPeriod(d)]
             b == [author |-> n, slot |-> SlotNow(n), chain |-> Append(chain[n], h)]
  <1>1. /\ RuntimeAccepts(Last(chain[n]), SlotNow(n), InherentTime(n))
        /\ chain' = [chain EXCEPT ![n] = Append(chain[n], h)]
        /\ sealed' = sealed \cup {b}
        /\ lastSlot' = [lastSlot EXCEPT ![n] = SlotNow(n)]
        /\ SlotNow(n) > lastSlot[n]
        /\ UNCHANGED <<clock, restarted>>
    BY DEF Authors, Claims, SlotIsNew
  <1>2. Last(chain[n]).period = Genesis.period
    BY <1>1, DurationFixed
  <1>3. SlotNow(n) \in Nat
    BY SlotNowBounds DEF PInv
  <1>4. InherentTime(n) \in Nat
    <2>1. clock[n] \in Nat
      BY DEF PInv, ClockInv
    <2>2. Last(chain[n]).time \in Nat /\ Last(chain[n]).period \in Nat
      BY LastHeader, PeriodsPositive DEF PInv, ChainsInv
    <2> QED
      BY <2>1, <2>2 DEF InherentTime
  <1>5. MinimumPeriod(d) \in Periods
    BY DEF Periods
  <1>6. h \in Headers /\ h.time = InherentTime(n) /\ h.slot = SlotNow(n)
    BY <1>3, <1>4, <1>5 DEF Headers
  <1>7. h.time \div PalletSlotDuration(Genesis.period) = h.slot
    BY <1>1, <1>2, <1>6 DEF RuntimeAccepts
  <1>8. b.author = n /\ b.slot = SlotNow(n)
    OBVIOUS
  <1> HIDE DEF h, b
  <1>9. ClockInv'
    BY <1>1 DEF PInv, ClockInv
  <1>10. ChainsInv'
    <2>1. GoodChain(Append(chain[n], h))
      BY <1>2, <1>6, <1>7, GoodChainGrows DEF PInv, ChainsInv
    <2> DEFINE c == Append(chain[n], h)
    <2>2. GoodChain(c) /\ chain' = [chain EXCEPT ![n] = c]
      BY <1>1, <2>1
    <2> HIDE DEF c
    <2> QED
      BY <2>2 DEF PInv, ChainsInv
  <1>11. SealInv'
    <2>1. /\ lastSlot \in [Nodes -> Nat]
          /\ lastSlot' \in [Nodes -> Nat] /\ lastSlot'[n] = SlotNow(n)
          /\ \A m \in Nodes : lastSlot'[m] >= lastSlot[m]
      BY <1>1, <1>3 DEF PInv, SealInv
    <2>2. \A x \in sealed : /\ x.author \in Nodes /\ x.slot \in Nat
                            /\ x.author \notin restarted => x.slot <= lastSlot[x.author]
      BY DEF PInv, SealInv
    <2>3. \A x \in sealed' : /\ x.author \in Nodes /\ x.slot \in Nat
                             /\ x.author \notin restarted' => x.slot <= lastSlot'[x.author]
      <3>1. ASSUME NEW x \in sealed, x.author \notin restarted
            PROVE  x.slot <= lastSlot'[x.author]
        BY <2>1, <2>2, <3>1
      <3> QED
        BY <1>1, <1>3, <1>8, <2>1, <2>2, <3>1
    <2>4. NoEquivocation'
      <3>1. \A x \in sealed : x.author = n /\ n \notin restarted => x.slot # SlotNow(n)
        BY <1>1, <1>3, <2>1, <2>2
      <3>2. NoEquivocation
        BY DEF PInv, SealInv
      <3> QED
        BY <1>1, <1>8, <3>1, <3>2 DEF NoEquivocation
    <2> QED
      BY <2>1, <2>3, <2>4 DEF SealInv
  <1> QED
    BY <1>9, <1>10, <1>11 DEF PInv

\* A slot that passes is remembered.
LEMMA MissesSlotKeeps ==
  ASSUME PInv, NEW n \in Nodes, MissesSlot(n)
  PROVE  PInv'
  <1>1. /\ lastSlot' = [lastSlot EXCEPT ![n] = SlotNow(n)] /\ SlotNow(n) > lastSlot[n]
        /\ UNCHANGED <<clock, chain, sealed, restarted>>
    BY DEF MissesSlot, Claims, SlotIsNew
  <1>2. SlotNow(n) \in Nat
    BY SlotNowBounds DEF PInv
  <1>3. ClockInv' /\ ChainsInv'
    BY <1>1 DEF PInv, ClockInv, ChainsInv
  <1>4. SealInv'
    <2>1. /\ lastSlot \in [Nodes -> Nat] /\ lastSlot' \in [Nodes -> Nat]
          /\ \A m \in Nodes : lastSlot'[m] >= lastSlot[m]
      BY <1>1, <1>2 DEF PInv, SealInv
    <2>2. \A x \in sealed : /\ x.author \in Nodes /\ x.slot \in Nat
                            /\ x.author \notin restarted => x.slot <= lastSlot[x.author]
      BY DEF PInv, SealInv
    <2>3. \A x \in sealed : x.author \notin restarted => x.slot <= lastSlot'[x.author]
      BY <2>1, <2>2
    <2> QED
      BY <1>1, <2>1, <2>2, <2>3 DEF PInv, SealInv, NoEquivocation
  <1> QED
    BY <1>3, <1>4 DEF PInv

\* A node takes over part of a good chain, and still knows what it has signed.
LEMMA ImportsKeeps ==
  ASSUME PInv, NEW n \in Nodes, NEW m \in Nodes, NEW k \in 2 .. MaxLength, Imports(n, m, k)
  PROVE  PInv'
  <1> DEFINE c == SubSeq(chain[m], 1, k)
  <1>1. k \in Len(chain[n]) + 1 .. Len(chain[m]) /\ chain' = [chain EXCEPT ![n] = c]
        /\ UNCHANGED <<clock, lastSlot, sealed, restarted>>
    BY DEF Imports
  <1>2. GoodChain(chain[n]) /\ GoodChain(chain[m])
    BY DEF PInv, ChainsInv
  <1>3. k \in 1 .. Len(chain[m])
    BY <1>1, <1>2 DEF GoodChain
  <1>4. GoodChain(c)
    BY <1>2, <1>3, GoodChainCut
  <1> HIDE DEF c
  <1>5. ChainsInv'
    BY <1>1, <1>4 DEF PInv, ChainsInv
  <1> QED
    BY <1>1, <1>5 DEF PInv, ClockInv, SealInv, NoEquivocation

\* Clocks never fall behind the time the chain was started.
LEMMA ClockMovesKeeps ==
  ASSUME PInv, NEW n \in Nodes, ClockMoves(n)
  PROVE  PInv'
  <1>1. StartTime \in Nat
    BY ProductionAssumption
  <1>2. ClockInv'
    BY <1>1 DEF PInv, ClockInv, ClockMoves
  <1>3. UNCHANGED <<chain, lastSlot, sealed, restarted>>
    BY DEF ClockMoves
  <1> QED
    BY <1>2, <1>3 DEF PInv, ChainsInv, SealInv, NoEquivocation

\* A restart forgets the slots, and nothing is promised of the node any more.
LEMMA RestartsKeeps ==
  ASSUME PInv, NEW n \in Nodes, Restarts(n)
  PROVE  PInv'
  <1>1. /\ lastSlot' = [lastSlot EXCEPT ![n] = 0] /\ restarted' = restarted \cup {n}
        /\ UNCHANGED <<clock, chain, sealed>>
    BY DEF Restarts
  <1>2. lastSlot' \in [Nodes -> Nat] /\ \A m \in Nodes : m \notin restarted' => lastSlot'[m] = lastSlot[m]
    BY <1>1 DEF PInv, SealInv
  <1> QED
    BY <1>1, <1>2 DEF PInv, ClockInv, ChainsInv, SealInv, NoEquivocation

-----------------------------------------------------------------------------
(* Theorems *)

\* The invariant holds when the chain starts.
LEMMA PInitSafe == PInit => PInv
  <1> SUFFICES ASSUME PInit PROVE PInv
    OBVIOUS
  <1>1. Genesis.period \in Periods /\ Genesis.period \in Nat \ {0}
    BY PeriodsPositive
  <1>2. Genesis.slot = 0 /\ Genesis.time = 0 /\ Genesis \in Headers
    BY <1>1 DEF Genesis, Headers
  <1>3. 0 \div PalletSlotDuration(Genesis.period) = 0
    BY <1>1 DEF PalletSlotDuration
  <1> DEFINE c == <<Genesis>>
  <1>4. c \in Seq(Headers) /\ Len(c) = 1 /\ c[1] = Genesis
    BY <1>2
  <1> HIDE DEF c
  <1>5. GoodChain(c)
    BY <1>2, <1>3, <1>4 DEF GoodChain
  <1>6. ChainsInv
    BY <1>5 DEF PInit, ChainsInv, c
  <1>7. ClockInv /\ SealInv
    BY ProductionAssumption DEF PInit, ClockInv, SealInv, NoEquivocation
  <1> QED
    BY <1>6, <1>7 DEF PInv

\* Every step of nodes and clocks keeps the invariant.
LEMMA PNextSafe == PInv /\ [PNext]_pvars => PInv'
  <1> SUFFICES ASSUME PInv, [PNext]_pvars PROVE PInv'
    OBVIOUS
  <1>1. CASE UNCHANGED pvars
    BY <1>1 DEF pvars, PInv, ClockInv, ChainsInv, SealInv, NoEquivocation
  <1>2. ASSUME NEW n \in Nodes, NEW d \in Upgrades \cup {SlotDuration}, Authors(n, MinimumPeriod(d))
        PROVE  PInv'
    BY <1>2, AuthorsKeeps
  <1>3. ASSUME NEW n \in Nodes, MissesSlot(n)
        PROVE  PInv'
    BY <1>3, MissesSlotKeeps
  <1>4. ASSUME NEW n \in Nodes, NEW m \in Nodes, NEW k \in 2 .. MaxLength, Imports(n, m, k)
        PROVE  PInv'
    BY <1>4, ImportsKeeps
  <1>5. ASSUME NEW n \in Nodes, ClockMoves(n)
        PROVE  PInv'
    BY <1>5, ClockMovesKeeps
  <1>6. ASSUME NEW n \in Nodes, Restarts(n)
        PROVE  PInv'
    BY <1>6, RestartsKeeps
  <1> QED
    BY <1>1, <1>2, <1>3, <1>4, <1>5, <1>6 DEF PNext

\* Block production keeps the strengthened invariant.
LEMMA PSafety == PSpec => []PInv
  BY PInitSafe, PNextSafe, PTL DEF PSpec

\* An authority that is not restarted signs one block to a slot, for any number of
\* authorities, any forks and any corrections of its clock.
THEOREM OneBlockPerSlot == PSpec => []NoEquivocation
  <1>1. PInv => NoEquivocation
    BY DEF PInv, SealInv
  <1> QED
    BY <1>1, PSafety, PTL

\* The runtime never refuses an honest block over its timestamp, for every slot
\* duration, odd ones included.
THEOREM TimestampsFit == PSpec => []ProposalsFit
  <1>1. PInv => ProposalsFit
    BY TimestampFits DEF ProposalsFit
  <1> QED
    BY <1>1, PSafety, PTL

\* What the next block is built under.
BuildsUnderGenesisDuration ==
  \A n \in Nodes, p \in {MinimumPeriod(d) : d \in Upgrades \cup {SlotDuration}} :
    Authors(n, p) => Last(chain[n]).period = Genesis.period

\* An upgrade that changes SLOT_DURATION ends block production, whatever the old
\* and the new duration are, once the chain is past the epoch.
THEOREM UpgradeEndsProduction == PSpec => SlotDurationIsFixed
  <1>1. PInv => BuildsUnderGenesisDuration
    <2> SUFFICES ASSUME PInv, NEW n \in Nodes, NEW p, Authors(n, p)
                 PROVE  Last(chain[n]).period = Genesis.period
      BY DEF BuildsUnderGenesisDuration
    <2>1. RuntimeAccepts(Last(chain[n]), SlotNow(n), InherentTime(n))
      BY DEF Authors
    <2> QED
      BY <2>1, DurationFixed
  <1> QED
    BY <1>1, PSafety, PTL DEF PSpec, SlotDurationIsFixed, BuildsUnderGenesisDuration

=============================================================================
