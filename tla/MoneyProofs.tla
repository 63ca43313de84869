---------------------------- MODULE MoneyProofs -----------------------------
(***************************************************************************)
(* Money is conserved by the kitties pallet, for every finite set of       *)
(* accounts.  TotalBalance is a fold, which is a recursive function chosen *)
(* by its equation; that there is one, and what it adds up to, is shown by *)
(* looking at a smallest set of accounts that would be an exception.       *)
(***************************************************************************)
EXTENDS KittiesProofs, FiniteSetTheorems

-----------------------------------------------------------------------------
(* Sums over sets of accounts *)

\* The account that MapThenSumSet adds first.
Pick(s) == CHOOSE x \in s : TRUE

\* g adds the balances b up over every set of accounts inside T.
Adds(g, b, T) ==
  g = [s \in SUBSET T |-> IF s = {} THEN 0 ELSE b[Pick(s)] + g[s \ {Pick(s)}]]

\* The balances b added up over every set of accounts.
Sums(b) == CHOOSE g : Adds(g, b, Accounts)

\* TotalBalance is such a sum, over all the accounts.
LEMMA TotalIsSum ==
  ASSUME NEW b
  PROVE  TotalBalance(b) = Sums(b)[Accounts]
  BY DEF TotalBalance, MapThenSumSet, MapThenFoldSet, Sums, Adds, Pick

\* The first account of a set is one of it.
LEMMA PickIsIn ==
  ASSUME NEW s, s # {}
  PROVE  Pick(s) \in s
  BY DEF Pick

\* Among sets of accounts there is always a smallest one: what fails of some
\* set of accounts fails of one whose strict subsets it all holds of.
LEMMA SmallestSet ==
  ASSUME NEW B, B \subseteq SUBSET Accounts, B # {}
  PROVE  \E s \in B : \A t \in B : t \subseteq s => t = s
<1>1. IsWellFoundedOn(StrictSubsetOrdering(Accounts), SUBSET Accounts)
  BY FS_StrictSubsetOrderingWellFounded, FS_FiniteSubsetsOfFinite, AccountsFinite
<1>2. \E s \in B : \A t \in B : ~ (<<t, s>> \in StrictSubsetOrdering(Accounts))
  BY <1>1, WFMin
<1> QED
  BY <1>2 DEF StrictSubsetOrdering

\* Two additions agree on the sets they both cover.
LEMMA AddsAgree ==
  ASSUME NEW b, NEW T \in SUBSET Accounts, NEW U \in SUBSET T,
         NEW g, NEW h, Adds(g, b, T), Adds(h, b, U)
  PROVE  \A s \in SUBSET U : g[s] = h[s]
<1> DEFINE Bad == {s \in SUBSET U : g[s] # h[s]}
<1>1. SUFFICES ASSUME Bad # {} PROVE FALSE
  OBVIOUS
<1>2. PICK s \in Bad : \A t \in Bad : t \subseteq s => t = s
  <2>1. Bad \subseteq SUBSET Accounts
    OBVIOUS
  <2> HIDE DEF Bad
  <2> QED BY <1>1, <2>1, SmallestSet
<1>3. s # {}
  BY DEF Adds
<1>4. Pick(s) \in s
  BY <1>3, PickIsIn
<1>5. s \ {Pick(s)} \notin Bad /\ s \ {Pick(s)} \in SUBSET U
  BY <1>2, <1>4
<1>6. g[s] = b[Pick(s)] + g[s \ {Pick(s)}] /\ h[s] = b[Pick(s)] + h[s \ {Pick(s)}]
  BY <1>3 DEF Adds
<1> QED
  BY <1>2, <1>5, <1>6

\* Every set of accounts can be added up.
LEMMA AddsExists ==
  ASSUME NEW b
  PROVE  \A T \in SUBSET Accounts : \E g : Adds(g, b, T)
<1> DEFINE Bad == {T \in SUBSET Accounts : ~ \E g : Adds(g, b, T)}
<1>1. SUFFICES ASSUME Bad # {} PROVE FALSE
  OBVIOUS
<1>2. PICK T \in Bad : \A t \in Bad : t \subseteq T => t = T
  <2>1. Bad \subseteq SUBSET Accounts
    OBVIOUS
  <2> HIDE DEF Bad
  <2> QED BY <1>1, <2>1, SmallestSet
<1> DEFINE Of(s) == CHOOSE g : Adds(g, b, s)
           Less(s) == s \ {Pick(s)}
           h == [s \in SUBSET T |-> IF s = {} THEN 0 ELSE b[Pick(s)] + Of(Less(s))[Less(s)]]
<1>3. \A s \in SUBSET T : s # T => Adds(Of(s), b, s)
  BY <1>2
<1>4. ASSUME NEW s \in SUBSET T, s # {}
      PROVE  h[Less(s)] = Of(Less(s))[Less(s)]
  <2> DEFINE t == Less(s)
  <2>1. Pick(s) \in s
    BY <1>4, PickIsIn
  <2>2. t \in SUBSET T /\ t # T
    BY <2>1
  <2>3. Adds(Of(t), b, t)
    BY <1>3, <2>2
  <2>4. CASE t = {}
    BY <2>2, <2>3, <2>4 DEF Adds
  <2>5. CASE t # {}
    <3>1. Pick(t) \in t
      BY <2>5, PickIsIn
    <3>2. Less(t) \in SUBSET t /\ Less(t) # T
      BY <2>2, <3>1
    <3>3. Adds(Of(Less(t)), b, Less(t))
      BY <1>3, <2>2, <3>2
    <3>4. Of(t)[Less(t)] = Of(Less(t))[Less(t)]
      <4> HIDE DEF Of, Less, t
      <4> QED BY <2>2, <2>3, <3>2, <3>3, AddsAgree
    <3>5. Of(t)[t] = b[Pick(t)] + Of(t)[Less(t)]
      BY <2>3, <2>5 DEF Adds
    <3>6. h[t] = b[Pick(t)] + Of(Less(t))[Less(t)]
      BY <2>2, <2>5
    <3> QED
      BY <3>4, <3>5, <3>6
  <2> QED
    BY <2>4, <2>5
<1>5. Adds(h, b, T)
  <2>1. h = [s \in SUBSET T |-> IF s = {} THEN 0 ELSE b[Pick(s)] + h[Less(s)]]
    <3> DEFINE k == [s \in SUBSET T |-> IF s = {} THEN 0 ELSE b[Pick(s)] + h[Less(s)]]
    <3>1. ASSUME NEW s \in SUBSET T PROVE h[s] = k[s]
      <4>1. h[s] = IF s = {} THEN 0 ELSE b[Pick(s)] + Of(Less(s))[Less(s)]
        OBVIOUS
      <4> HIDE DEF h, Of, Less
      <4>2. k[s] = IF s = {} THEN 0 ELSE b[Pick(s)] + h[Less(s)]
        OBVIOUS
      <4> HIDE DEF k
      <4> QED BY <1>4, <4>1, <4>2
    <3> QED BY <3>1
  <2> QED BY <2>1 DEF Adds
<1> QED
  BY <1>2, <1>5

\* Sums adds up.
LEMMA SumsAdd ==
  ASSUME NEW b
  PROVE  /\ Sums(b)[{}] = 0
         /\ \A s \in SUBSET Accounts :
              s # {} => Sums(b)[s] = b[Pick(s)] + Sums(b)[s \ {Pick(s)}]
<1>1. Adds(Sums(b), b, Accounts)
  BY AddsExists DEF Sums
<1> QED
  BY <1>1 DEF Adds

\* What is added up is an integer.
LEMMA SumsType ==
  ASSUME NEW b \in [Accounts -> Int]
  PROVE  \A s \in SUBSET Accounts : Sums(b)[s] \in Int
<1> DEFINE Bad == {s \in SUBSET Accounts : Sums(b)[s] \notin Int}
<1>1. SUFFICES ASSUME Bad # {} PROVE FALSE
  OBVIOUS
<1>2. PICK s \in Bad : \A t \in Bad : t \subseteq s => t = s
  <2>1. Bad \subseteq SUBSET Accounts
    OBVIOUS
  <2> HIDE DEF Bad
  <2> QED BY <1>1, <2>1, SmallestSet
<1>3. s \in SUBSET Accounts /\ Sums(b)[s] \notin Int
  OBVIOUS
<1>4. Sums(b)[{}] = 0
  BY SumsAdd
<1>5. s # {}
  BY <1>3, <1>4
<1>6. Pick(s) \in s
  BY <1>5, PickIsIn
<1>7. Sums(b)[s \ {Pick(s)}] \in Int
  BY <1>2, <1>6
<1>8. Sums(b)[s] = b[Pick(s)] + Sums(b)[s \ {Pick(s)}]
  BY <1>3, <1>5, SumsAdd
<1>9. b[Pick(s)] \in Int
  BY <1>3, <1>6
<1> QED
  BY <1>3, <1>7, <1>8, <1>9

\* The sum does not depend on the account that is added first.
LEMMA SumsAnyFirst ==
  ASSUME NEW b \in [Accounts -> Int]
  PROVE  \A s \in SUBSET Accounts : \A x \in s : Sums(b)[s] = b[x] + Sums(b)[s \ {x}]
<1> DEFINE Bad == {s \in SUBSET Accounts : \E x \in s : Sums(b)[s] # b[x] + Sums(b)[s \ {x}]}
<1>1. SUFFICES ASSUME Bad # {} PROVE FALSE
  OBVIOUS
<1>2. PICK s \in Bad : \A t \in Bad : t \subseteq s => t = s
  <2>1. Bad \subseteq SUBSET Accounts
    OBVIOUS
  <2> HIDE DEF Bad
  <2> QED BY <1>1, <2>1, SmallestSet
<1>3. PICK x \in s : Sums(b)[s] # b[x] + Sums(b)[s \ {x}]
  OBVIOUS
<1> DEFINE p == Pick(s)
<1>4. p \in s /\ s \in SUBSET Accounts
  BY <1>3, PickIsIn
<1>5. Sums(b)[s] = b[p] + Sums(b)[s \ {p}]
  <2>1. s # {}
    BY <1>3
  <2> QED BY <1>4, <2>1, SumsAdd
<1>6. x # p
  BY <1>3, <1>5
<1>7. s \ {p} \notin Bad /\ s \ {x} \notin Bad
  BY <1>2, <1>4
<1>8. Sums(b)[s \ {p}] = b[x] + Sums(b)[(s \ {p}) \ {x}]
  BY <1>4, <1>6, <1>7
<1>9. Sums(b)[s \ {x}] = b[p] + Sums(b)[(s \ {x}) \ {p}]
  BY <1>4, <1>6, <1>7
<1>10. (s \ {x}) \ {p} = (s \ {p}) \ {x}
  OBVIOUS
<1>11. b[x] \in Int /\ b[p] \in Int /\ Sums(b)[(s \ {p}) \ {x}] \in Int
  BY <1>4, SumsType
<1> DEFINE r == Sums(b)[(s \ {p}) \ {x}]
<1>12. Sums(b)[s] = b[p] + (b[x] + r) /\ Sums(b)[s \ {x}] = b[p] + r /\ r \in Int
  BY <1>5, <1>8, <1>9, <1>10, <1>11
<1> HIDE DEF r, p, Bad
<1> QED
  BY <1>3, <1>11, <1>12

\* Balances that agree on a set add up to the same over it.
LEMMA SumsAgree ==
  ASSUME NEW b, NEW c, NEW U \in SUBSET Accounts, \A x \in U : b[x] = c[x]
  PROVE  Sums(b)[U] = Sums(c)[U]
<1> DEFINE Bad == {s \in SUBSET U : Sums(b)[s] # Sums(c)[s]}
<1>1. SUFFICES ASSUME Bad # {} PROVE FALSE
  OBVIOUS
<1>2. PICK s \in Bad : \A t \in Bad : t \subseteq s => t = s
  <2>1. Bad \subseteq SUBSET Accounts
    OBVIOUS
  <2> HIDE DEF Bad
  <2> QED BY <1>1, <2>1, SmallestSet
<1>3. s # {} /\ s \in SUBSET Accounts
  BY SumsAdd
<1>4. Pick(s) \in s
  BY <1>3, PickIsIn
<1>5. Sums(b)[s \ {Pick(s)}] = Sums(c)[s \ {Pick(s)}]
  BY <1>2, <1>4
<1>6. b[Pick(s)] = c[Pick(s)]
  BY <1>4
<1>7. Sums(b)[s] = b[Pick(s)] + Sums(b)[s \ {Pick(s)}]
  BY <1>3, SumsAdd
<1>8. Sums(c)[s] = c[Pick(s)] + Sums(c)[s \ {Pick(s)}]
  BY <1>3, SumsAdd
<1> QED
  BY <1>2, <1>5, <1>6, <1>7, <1>8

\* What the accounts hold together is an integer.
LEMMA TotalType ==
  ASSUME NEW b \in [Accounts -> Nat]
  PROVE  TotalBalance(b) \in Int
<1>1. b \in [Accounts -> Int] /\ Accounts \in SUBSET Accounts
  OBVIOUS
<1> QED
  BY <1>1, SumsType, TotalIsSum

\* Giving one account another balance moves the total by the difference.
LEMMA TotalUpdate ==
  ASSUME NEW b \in [Accounts -> Int], NEW c \in [Accounts -> Int], NEW x \in Accounts,
         \A y \in Accounts : y # x => c[y] = b[y]
  PROVE  TotalBalance(b) \in Int /\ TotalBalance(c) = TotalBalance(b) - b[x] + c[x]
<1> DEFINE rest == Accounts \ {x}
<1>1. \A y \in rest : b[y] = c[y]
  OBVIOUS
<1>2. rest \in SUBSET Accounts /\ Accounts \in SUBSET Accounts
  OBVIOUS
<1>3. Sums(b)[rest] = Sums(c)[rest]
  BY <1>1, <1>2, SumsAgree
<1>4. Sums(b)[Accounts] = b[x] + Sums(b)[rest]
  BY <1>2, SumsAnyFirst
<1>5. Sums(c)[Accounts] = c[x] + Sums(c)[rest]
  BY <1>2, SumsAnyFirst
<1>6. b[x] \in Int /\ c[x] \in Int /\ Sums(b)[rest] \in Int /\ Sums(b)[Accounts] \in Int
  BY <1>2, SumsType
<1> QED
  BY <1>3, <1>4, <1>5, <1>6, TotalIsSum

\* Money moved between two accounts.
LEMMA TotalMove ==
  ASSUME NEW b \in [Accounts -> Nat], NEW c \in [Accounts -> Nat],
         NEW from \in Accounts, NEW to \in Accounts, from # to,
         \A y \in Accounts : y # from /\ y # to => c[y] = b[y]
  PROVE  /\ TotalBalance(b) \in Int
         /\ TotalBalance(c) = TotalBalance(b) - b[from] + c[from] - b[to] + c[to]
<1> DEFINE d == [b EXCEPT ![from] = c[from]]
<1>1. b \in [Accounts -> Int] /\ c \in [Accounts -> Int] /\ d \in [Accounts -> Int]
  OBVIOUS
<1>2. d[from] = c[from] /\ d[to] = b[to]
  OBVIOUS
<1>3. /\ \A y \in Accounts : y # from => d[y] = b[y]
      /\ \A y \in Accounts : y # to => c[y] = d[y]
  OBVIOUS
<1> HIDE DEF d
<1>4. TotalBalance(b) \in Int /\ TotalBalance(d) = TotalBalance(b) - b[from] + d[from]
  BY <1>1, <1>3, TotalUpdate
<1>5. TotalBalance(d) \in Int /\ TotalBalance(c) = TotalBalance(d) - d[to] + c[to]
  BY <1>1, <1>3, TotalUpdate
<1>6. b[from] \in Int /\ d[from] \in Int /\ d[to] \in Int /\ c[to] \in Int
  BY <1>1
<1> QED
  BY <1>2, <1>4, <1>5, <1>6

\* The total of natural balances bounds each of them.
LEMMA TotalBounds ==
  ASSUME NEW b \in [Accounts -> Nat], NEW x \in Accounts
  PROVE  TotalBalance(b) \in Nat /\ b[x] <= TotalBalance(b)
<1> DEFINE Bad == {s \in SUBSET Accounts : ~ (Sums(b)[s] >= 0)}
<1>1. b \in [Accounts -> Int]
  OBVIOUS
<1>2. \A s \in SUBSET Accounts : Sums(b)[s] >= 0
  <2>1. SUFFICES ASSUME Bad # {} PROVE FALSE
    OBVIOUS
  <2>2. PICK s \in Bad : \A t \in Bad : t \subseteq s => t = s
    <3>1. Bad \subseteq SUBSET Accounts
      OBVIOUS
    <3> HIDE DEF Bad
    <3> QED BY <2>1, <3>1, SmallestSet
  <2>3. s \in SUBSET Accounts /\ ~ (Sums(b)[s] >= 0)
    OBVIOUS
  <2>4. Sums(b)[{}] = 0
    BY SumsAdd
  <2>5. s # {}
    BY <2>3, <2>4
  <2>6. Pick(s) \in s
    BY <2>5, PickIsIn
  <2>7. Sums(b)[s \ {Pick(s)}] >= 0
    BY <2>2, <2>6
  <2>8. Sums(b)[s] = b[Pick(s)] + Sums(b)[s \ {Pick(s)}]
    BY <2>3, <2>5, SumsAdd
  <2>9. b[Pick(s)] \in Nat /\ Sums(b)[s \ {Pick(s)}] \in Int
    BY <1>1, <2>3, <2>6, SumsType
  <2> QED
    BY <2>3, <2>7, <2>8, <2>9
<1>3. Sums(b)[Accounts] = b[x] + Sums(b)[Accounts \ {x}]
  BY <1>1, SumsAnyFirst
<1>4. Sums(b)[Accounts] \in Int /\ Sums(b)[Accounts \ {x}] \in Int
  BY <1>1, SumsType
<1>5. Sums(b)[Accounts] >= 0 /\ Sums(b)[Accounts \ {x}] >= 0
  BY <1>2
<1> QED
  BY <1>3, <1>4, <1>5, TotalIsSum

-----------------------------------------------------------------------------
(* Money *)

\* This step burns from the issuance exactly what it takes from the accounts.
KeepsMoney ==
  /\ currencyIssuance' \in Int
  /\ currencyIssuance' <= currencyIssuance
  /\ TotalBalance(balances)' + currencyIssuance = TotalBalance(balances) + currencyIssuance'

\* A step that leaves the balances alone.
LEMMA NoMoneyMoves ==
  ASSUME currencyIssuance \in Int, UNCHANGED balanceVars
  PROVE  KeepsMoney
  BY DEF KeepsMoney, balanceVars

\* A transfer of money burns the dust of a reaped sender and nothing else.
LEMMA TransferKeepsMoney ==
  ASSUME BalanceInv, currencyIssuance \in Int, NEW from \in Accounts, NEW to \in Accounts,
         NEW value \in Nat, NEW keepAlive \in BOOLEAN,
         CurrencyTransferResult(from, to, value, keepAlive) = Ok,
         CurrencyTransfer(from, to, value)
  PROVE  KeepsMoney
<1>1. CASE value = 0 \/ from = to
  BY <1>1, NoMoneyMoves DEF CurrencyTransfer
<1>2. CASE ~(value = 0 \/ from = to)
  <2>1. balances \in [Accounts -> Nat]
    BY DEF BalanceInv
  <2>2. balances[from] >= value
    BY <1>2, <2>1 DEF CurrencyTransferResult, Ok
  <2> DEFINE rest == balances[from] - value
  <2>3. /\ balances' = [balances EXCEPT ![from] = Reaped(rest), ![to] = @ + value]
        /\ currencyIssuance' = currencyIssuance - Dust(rest)
    BY <1>2 DEF CurrencyTransfer
  <2>4. Reaped(rest) \in Nat /\ Dust(rest) \in Nat /\ Dust(rest) = rest - Reaped(rest)
    BY <2>1, <2>2, ExistentialDepositAssumption DEF Reaped, Dust
  <2>5. balances'[from] = Reaped(rest) /\ balances'[to] = balances[to] + value
    BY <1>2, <2>1, <2>3, <2>4
  <2>6. balances' \in [Accounts -> Nat] /\ \A y \in Accounts : y # from /\ y # to => balances'[y] = balances[y]
    BY <2>1, <2>3, <2>4
  <2>7. /\ TotalBalance(balances) \in Int
        /\ TotalBalance(balances') = TotalBalance(balances) - balances[from] + balances'[from]
                                       - balances[to] + balances'[to]
    BY <1>2, <2>1, <2>6, TotalMove
  <2>8. balances[from] \in Int /\ balances[to] \in Int
    BY <2>1
  <2> QED
    BY <2>3, <2>4, <2>5, <2>7, <2>8 DEF KeepsMoney
<1> QED
  BY <1>1, <1>2

\* A sale keeps the money.
LEMMA BuyKeepsMoney ==
  ASSUME IInv, currencyIssuance \in Int, NEW o, NEW owner \in Accounts, NEW k, NEW m,
         Buy(o, owner, k, m)
  PROVE  KeepsMoney
<1>1. CASE BuyResult(o, owner, k, m) # Ok
  BY <1>1, NoMoneyMoves DEF Buy
<1>2. CASE BuyResult(o, owner, k, m) = Ok
  <2>1. /\ o \in Accounts
        /\ k \in DOMAIN kittyPrices
        /\ CurrencyTransferResult(o, owner, kittyPrices[k], TRUE) = Ok
    BY <1>2 DEF BuyResult, PaymentResult, Ok
  <2>2. kittyPrices[k] \in Nat /\ BalanceInv
    BY <2>1, KittiesAssumption DEF IInv, PriceInv
  <2>3. CurrencyTransfer(o, owner, kittyPrices[k])
    BY <1>2 DEF Buy
  <2> QED
    BY <2>1, <2>2, <2>3, TransferKeepsMoney
<1> QED
  BY <1>1, <1>2

\* A transfer of money keeps it.
LEMMA BalancesTransferKeepsMoney ==
  ASSUME IInv, currencyIssuance \in Int, NEW o, NEW to \in Accounts, NEW v \in Nat,
         NEW keepAlive \in BOOLEAN, BalancesTransfer(o, to, v, keepAlive)
  PROVE  KeepsMoney
<1>1. CASE ~(o \in Accounts /\ CurrencyTransferResult(o, to, v, keepAlive) = Ok)
  BY <1>1, NoMoneyMoves DEF BalancesTransfer, Ok
<1>2. CASE o \in Accounts /\ CurrencyTransferResult(o, to, v, keepAlive) = Ok
  <2>1. CurrencyTransfer(o, to, v)
    BY <1>2 DEF BalancesTransfer
  <2>2. BalanceInv
    BY DEF IInv
  <2> QED
    BY <1>2, <2>1, <2>2, TransferKeepsMoney
<1> QED
  BY <1>1, <1>2

\* Every extrinsic keeps the money.
LEMMA NextKeepsMoney ==
  ASSUME IInv, currencyIssuance \in Int, [Next]_vars
  PROVE  KeepsMoney
<1>1. CASE UNCHANGED vars
  BY <1>1, NoMoneyMoves DEF vars
<1>2. ASSUME NEW o \in DispatchOrigins, NEW w \in Accounts, NEW k \in TokenIds,
             NEW m \in Prices, Buy(o, w, k, m)
      PROVE  KeepsMoney
  BY <1>2, BuyKeepsMoney
<1>3. ASSUME NEW o \in DispatchOrigins, NEW to \in Accounts, NEW v \in Prices,
             NEW ka \in BOOLEAN, BalancesTransfer(o, to, v, ka)
      PROVE  KeepsMoney
  BY <1>3, BalancesTransferKeepsMoney, KittiesAssumption
<1>4. ASSUME NEW o, NEW k1, NEW k2, NEW x, NEW y, NEW z,
             \/ Create(o, x)
             \/ Breed(o, k1, k2, x)
             \/ Transfer(o, x, k1)
             \/ SetPrice(o, k1, x)
             \/ RefusedAutoBreed(o, k1, k2, x, y)
             \/ ApplyAutoBreed(k1, k2, x, y, z)
      PROVE  KeepsMoney
  <2>1. UNCHANGED balanceVars
    BY <1>4 DEF Create, Breed, Transfer, SetPrice, RefusedAutoBreed, ApplyAutoBreed, AutoBreed, DoBreed
  <2> QED
    BY <2>1, NoMoneyMoves
<1> QED
  BY <1>1, <1>2, <1>3, <1>4 DEF Next, DispatchNext

-----------------------------------------------------------------------------
(* Theorems *)

\* No balance exceeds the money there was at genesis.  pallet_balances adds what
\* a seller or a receiver gets to its balance; since the chain specification
\* endows less than a u128 holds, no such sum wraps.
BalancesFit == \A a \in Accounts : balances[a] <= TotalBalance(InitialBalances)

\* What keeps MoneyConserved: the issuance is what it was at genesis or less.
MoneyInv ==
  /\ IInv
  /\ MoneyConserved
  /\ currencyIssuance \in Int
  /\ currencyIssuance <= TotalBalance(InitialBalances)

LEMMA MoneySafety == Spec => []MoneyInv
<1>1. Init => MoneyInv
  <2> SUFFICES ASSUME Init PROVE MoneyInv
    OBVIOUS
  <2>1. IInv
    BY InitSafe
  <2>2. balances = InitialBalances /\ currencyIssuance = TotalBalance(InitialBalances)
    BY DEF Init, BalancesInit
  <2>3. TotalBalance(InitialBalances) \in Int
    BY InitialBalancesAssumption, TotalType
  <2> QED
    BY <2>1, <2>2, <2>3 DEF MoneyInv, MoneyConserved
<1>2. TotalBalance(InitialBalances) \in Int
  BY InitialBalancesAssumption, TotalType
<1>3. MoneyInv /\ [Next]_vars => MoneyInv'
  <2> SUFFICES ASSUME MoneyInv, [Next]_vars PROVE MoneyInv'
    OBVIOUS
  <2>1. IInv'
    BY NextSafe DEF MoneyInv
  <2>2. KeepsMoney
    BY NextKeepsMoney DEF MoneyInv
  <2>3. TotalBalance(balances) = currencyIssuance /\ currencyIssuance \in Int
        /\ currencyIssuance <= TotalBalance(InitialBalances)
    BY DEF MoneyInv, MoneyConserved
  <2>4. TotalBalance(balances') \in Int
    <3>1. balances' \in [Accounts -> Nat]
      BY <2>1 DEF IInv, BalanceInv
    <3> QED BY <3>1, TotalType
  <2> QED
    BY <1>2, <2>1, <2>2, <2>3, <2>4 DEF MoneyInv, MoneyConserved, KeepsMoney
<1> QED
  BY <1>1, <1>3, PTL DEF Spec

\* Sales and transfers neither make money nor lose any but the dust of reaped
\* accounts, however many accounts there are: the balances add up to the total
\* issuance in every reachable state of the pallet.
THEOREM MoneyIsConserved == Spec => []MoneyConserved
<1>1. MoneyInv => MoneyConserved
  BY DEF MoneyInv
<1> QED
  BY <1>1, MoneySafety, PTL

\* What a seller or a receiver is paid never makes its balance wrap.
THEOREM NoBalanceWraps == Spec => []BalancesFit
<1>1. MoneyInv => BalancesFit
  <2> SUFFICES ASSUME MoneyInv, NEW a \in Accounts
               PROVE  balances[a] <= TotalBalance(InitialBalances)
    BY DEF BalancesFit
  <2>1. balances \in [Accounts -> Nat]
    BY DEF MoneyInv, IInv, BalanceInv
  <2>2. TotalBalance(balances) \in Nat /\ balances[a] <= TotalBalance(balances)
    BY <2>1, TotalBounds
  <2>3. balances[a] \in Nat /\ TotalBalance(balances) <= TotalBalance(InitialBalances)
    BY <2>1 DEF MoneyInv, MoneyConserved
  <2>4. TotalBalance(InitialBalances) \in Int
    BY InitialBalancesAssumption, TotalType
  <2> QED
    BY <2>2, <2>3, <2>4
<1> QED
  BY <1>1, MoneySafety, PTL

=============================================================================
