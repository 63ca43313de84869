----------------------------- MODULE Production -----------------------------
(***************************************************************************)
(* Block production: the Aura worker and import queue that                 *)
(* node/src/service.rs starts, with the timestamp and slot inherents it    *)
(* gives them, against pallet_timestamp and pallet_aura as                 *)
(* runtime/src/lib.rs configures them.                                     *)
(*                                                                         *)
(* Slots are counted twice: by the node, from its clock and a slot         *)
(* duration it read when it first started, and by the runtime, from the    *)
(* timestamp in the block.  Where they differ the runtime panics and there *)
(* is no block.  Aura, the timestamp pallet and the choice of the longest  *)
(* chain are external.                                                     *)
(***************************************************************************)
EXTENDS Naturals, Sequences, SequencesExt

CONSTANTS
  Authorities,   \* AuraConfig.authorities, a sequence
  SlotDuration,  \* SLOT_DURATION at genesis
  Upgrades,      \* SLOT_DURATIONs of runtimes that sudo may install
  MaxDrift,      \* how far ahead of one's clock a timestamp may be
  StartTime,     \* clocks are never behind this
  MaxTime,       \* bound on the clocks
  MaxLength      \* bound on the length of a chain

ASSUME ProductionAssumption ==
  /\ Authorities # << >>
  /\ SlotDuration \in Nat \ {0, 1}
  /\ Upgrades \subseteq Nat \ {0, 1}
  /\ {MaxDrift, StartTime, MaxTime, MaxLength} \subseteq Nat

\* Clocks count the milliseconds since 1970, so the slots have numbers so high that
\* two slot durations never agree on one: in the s-th slot they are at least s
\* times their difference apart.
ASSUME EpochAssumption ==
  \A d \in Upgrades :
    LET p == SlotDuration \div 2
        q == d \div 2
        s == StartTime \div (2 * p)
    IN  /\ s >= 1
        /\ p > q => (p - q) * s >= q
        /\ p < q => (q - p) * s >= p

Nodes == Range(Authorities)

VARIABLES
  clock,      \* system time of every node
  chain,      \* best chain of every node: headers from genesis
  lastSlot,   \* last_slot of the Slots stream, lost when the node restarts
  sealed,     \* auxiliary: every block sealed, [author, slot, chain]
  restarted   \* auxiliary: nodes that were restarted

pvars == <<clock, chain, lastSlot, sealed, restarted>>

-----------------------------------------------------------------------------
(* The runtime *)

\* MinimumPeriod, for a SLOT_DURATION.
MinimumPeriod(duration) == duration \div 2

\* Aura::slot_duration, which is behind the runtime API of the same name.
PalletSlotDuration(period) == 2 * period

Genesis == [slot |-> 0, time |-> 0, period |-> MinimumPeriod(SlotDuration)]

\* pallet_aura and pallet_timestamp assert this of a block, under the runtime
\* its parent left: the slot increases, time goes on, and the slot of the
\* timestamp is the slot of the header.
RuntimeAccepts(parent, slot, time) ==
  /\ slot > parent.slot
  /\ parent.time # 0 => time >= parent.time + parent.period
  /\ time \div PalletSlotDuration(parent.period) = slot

\* The timestamp inherent of a block that n builds.
InherentTime(n) ==
  LET parent == Last(chain[n])
  IN  IF clock[n] >= parent.time + parent.period THEN clock[n] ELSE parent.time + parent.period

-----------------------------------------------------------------------------
(* The node *)

\* Fault: the constant of the runtime crate, which is not 2 * MinimumPeriod
\* when it is odd.
NodeSlotDurationConstant(n) == SlotDuration

\* Fault: the duration is read from the best block each time.
NodeSlotDurationFresh(n) == PalletSlotDuration(Last(chain[n]).period)

\* sc_consensus_aura::slot_duration asks the genesis runtime once and keeps the
\* answer in the database.
NodeSlotDuration(n) == PalletSlotDuration(Genesis.period)

\* The slot n believes it is in: from_timestamp_and_duration.
SlotNow(n) == clock[n] \div NodeSlotDuration(n)

\* Fault: a slot is claimed again when the clock is set back or the chain changes.
SlotIsNewAlways(n) == TRUE

\* The Slots stream yields slots in increasing order.
SlotIsNew(n) == SlotNow(n) > lastSlot[n]

\* n is to author a block now.
Claims(n) ==
  /\ SlotIsNew(n)
  /\ Authorities[1 + (SlotNow(n) % Len(Authorities))] = n

\* n builds a block on its best chain, possibly one that installs a runtime with
\* another MinimumPeriod.
Authors(n, period) ==
  LET parent == Last(chain[n])
      next   == Append(chain[n], [slot |-> SlotNow(n), time |-> InherentTime(n), period |-> period])
  IN  /\ Claims(n)
      /\ Len(chain[n]) < MaxLength
      /\ RuntimeAccepts(parent, SlotNow(n), InherentTime(n))
      /\ period \in {parent.period} \cup {MinimumPeriod(d) : d \in Upgrades}
      /\ chain' = [chain EXCEPT ![n] = next]
      /\ sealed' = sealed \cup {[author |-> n, slot |-> SlotNow(n), chain |-> next]}
      /\ lastSlot' = [lastSlot EXCEPT ![n] = SlotNow(n)]
      /\ UNCHANGED <<clock, restarted>>

\* The slot passes without a block: the runtime panics, or the proposer is late.  (The
\* stream of slots notes those of other authorities too, which only rules out more; the
\* model notes the node's own.)
MissesSlot(n) ==
  /\ Claims(n)
  /\ lastSlot' = [lastSlot EXCEPT ![n] = SlotNow(n)]
  /\ UNCHANGED <<clock, chain, sealed, restarted>>

\* n learns of the first k headers of m's chain, which are more than its own.
\* Blocks from the future are refused.
Imports(n, m, k) ==
  /\ k \in Len(chain[n]) + 1 .. Len(chain[m])
  /\ \A i \in 2 .. k : /\ chain[m][i].slot <= SlotNow(n) + 1
                       /\ chain[m][i].time <= clock[n] + MaxDrift
  /\ chain' = [chain EXCEPT ![n] = SubSeq(chain[m], 1, k)]
  /\ UNCHANGED <<clock, lastSlot, sealed, restarted>>

\* Clocks run on, at their own pace, and are corrected now and then.
ClockMoves(n) ==
  /\ \/ clock[n] < MaxTime /\ clock' = [clock EXCEPT ![n] = @ + 1]
     \/ clock[n] > StartTime /\ clock' = [clock EXCEPT ![n] = @ - 1]
  /\ UNCHANGED <<chain, lastSlot, sealed, restarted>>

\* The database is kept, the Slots stream is not.
Restarts(n) ==
  /\ lastSlot' = [lastSlot EXCEPT ![n] = 0]
  /\ restarted' = restarted \cup {n}
  /\ UNCHANGED <<clock, chain, sealed>>

PInit ==
  /\ clock = [n \in Nodes |-> StartTime]
  /\ chain = [n \in Nodes |-> <<Genesis>>]
  /\ lastSlot = [n \in Nodes |-> 0]
  /\ sealed = {}
  /\ restarted = {}

PNext ==
  \E n \in Nodes :
    \/ \E d \in Upgrades \cup {SlotDuration} : Authors(n, MinimumPeriod(d))
    \/ MissesSlot(n)
    \/ \E m \in Nodes, k \in 2 .. MaxLength : Imports(n, m, k)
    \/ ClockMoves(n)
    \/ Restarts(n)

PSpec == PInit /\ [][PNext]_pvars

-----------------------------------------------------------------------------
(* Properties *)

\* Whenever it is the turn of a node whose clock is not behind its chain, the
\* timestamp it puts into the block falls into the slot the block is for, even
\* when MinimumPeriod pushes it ahead of the clock and when SLOT_DURATION is
\* odd: the runtime never panics over an honest block.
ProposalsFit ==
  \A n \in Nodes :
    Claims(n) /\ Last(chain[n]).period = Genesis.period /\ SlotNow(n) > Last(chain[n]).slot
      => RuntimeAccepts(Last(chain[n]), SlotNow(n), InherentTime(n))

\* A node signs one block to a slot, though its clock may be set back and its
\* best chain replaced.  Only the memory of the Slots stream ensures that, so
\* a restart in the middle of a slot is excluded.
NoEquivocation ==
  \A x, y \in sealed :
    x.author = y.author /\ x.slot = y.slot /\ x.author \notin restarted => x = y

\* "it is not possible to change the slot duration after the chain has started.
\* Attempting to do so will brick block production" (runtime/src/lib.rs:116-117):
\* after an upgrade with another duration nobody builds a block any more.
SlotDurationIsFixed ==
  [][\A n \in Nodes, p \in {MinimumPeriod(d) : d \in Upgrades \cup {SlotDuration}} :
       Authors(n, p) => Last(chain[n]).period = Genesis.period]_pvars

=============================================================================
