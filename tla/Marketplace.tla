---------------------------- MODULE Marketplace -----------------------------
(***************************************************************************)
(* What the kitties pallet promises to the people who trade on it, without *)
(* indexes, origins, DNA or error codes: every kitty has one owner, an ask *)
(* stands only as long as the ownership it was made under, and a kitty     *)
(* that is sold is paid for in the same step.                              *)
(***************************************************************************)
EXTENDS Frame

CONSTANTS
  KittyIds,  \* identities a kitty may have
  Asks       \* prices that may be asked

VARIABLES
  owner,  \* kitty -> the account that has it
  ask,    \* kitty -> the price its owner asks
  purse   \* account -> money

marketVars == <<owner, ask, purse>>

Init ==
  /\ DOMAIN owner = {}
  /\ DOMAIN ask = {}
  /\ purse \in [Accounts -> Nat]

\* A kitty comes into existence, not for sale.
Born(k, a) ==
  /\ k \notin DOMAIN owner
  /\ owner' = Insert(owner, k, a)
  /\ UNCHANGED <<ask, purse>>

\* A kitty is given away, and its ask is gone.
Give(k, to) ==
  /\ owner' = [owner EXCEPT ![k] = to]
  /\ ask' = Remove(ask, k)
  /\ UNCHANGED purse

\* The ask of an existing kitty is set or withdrawn.
Offer(k) ==
  /\ \/ \E p \in Asks : ask' = Insert(ask, k, p)
     \/ ask' = Remove(ask, k)
  /\ UNCHANGED <<owner, purse>>

\* Kitty, price and ask change together.
Trade(k, buyer) ==
  /\ k \in DOMAIN ask
  /\ buyer # owner[k]
  /\ purse[buyer] >= ask[k]
  /\ owner' = [owner EXCEPT ![k] = buyer]
  /\ ask' = Remove(ask, k)
  /\ purse' = [purse EXCEPT ![buyer] = @ - ask[k], ![owner[k]] = @ + ask[k]]

\* Money moves for reasons that have nothing to do with kitties.
Spend ==
  /\ purse' \in [Accounts -> Nat]
  /\ UNCHANGED <<owner, ask>>

Next ==
  \/ \E k \in KittyIds, a \in Accounts : Born(k, a)
  \/ \E k \in DOMAIN owner, a \in Accounts : Give(k, a)
  \/ \E k \in DOMAIN owner : Offer(k)
  \/ \E k \in DOMAIN owner, a \in Accounts : Trade(k, a)
  \/ Spend

Spec == Init /\ [][Next]_marketVars

=============================================================================
