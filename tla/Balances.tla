------------------------------ MODULE Balances ------------------------------
(***************************************************************************)
(* The part of pallet_balances behind T::Currency: transfers between       *)
(* accounts under an existential deposit.  External code, configured by    *)
(* runtime/src/lib.rs:237-254.  Nothing in the runtime locks or reserves   *)
(* funds, so an account is its free balance; 0 is an account that does not *)
(* exist.  The u128 addition to the receiver cannot overflow, because the  *)
(* balances add up to the total issuance (MoneyProofs, NoBalanceWraps),    *)
(* and is not modelled.                                                    *)
(***************************************************************************)
EXTENDS Frame, FiniteSetsExt

CONSTANTS
  ExistentialDeposit,  \* smallest balance an account may keep
  InitialBalances      \* BalancesConfig.balances of the chain specification

ASSUME ExistentialDepositAssumption == ExistentialDeposit \in Nat \ {0}

\* Genesis refuses to endow an account below the existential deposit.
ASSUME InitialBalancesAssumption ==
  /\ InitialBalances \in [Accounts -> Nat]
  /\ \A a \in Accounts : InitialBalances[a] = 0 \/ InitialBalances[a] >= ExistentialDeposit

\* An account id is 32 bytes, so there are finitely many accounts.
ASSUME AccountsFinite == IsFiniteSet(Accounts)

VARIABLES
  balances,         \* free balance of every account
  currencyIssuance  \* TotalIssuance

balanceVars == <<balances, currencyIssuance>>

TotalBalance(b) == MapThenSumSet(LAMBDA a : b[a], Accounts)

BalancesInit ==
  /\ balances = InitialBalances
  /\ currencyIssuance = TotalBalance(InitialBalances)

\* Fault: an account may be opened below the existential deposit.
OpensWithDepositAlways(to, value) == TRUE

\* A receiver has to end up with an account worth the existential deposit.
OpensWithDeposit(to, value) == balances[to] + value >= ExistentialDeposit

\* Why Currency::transfer would fail, in the order of its checks.
CurrencyTransferResult(from, to, value, keepAlive) ==
  IF value = 0 \/ from = to THEN Ok
  ELSE IF balances[from] < value THEN "InsufficientBalance"
  ELSE IF ~OpensWithDeposit(to, value) THEN "ExistentialDeposit"
  ELSE IF keepAlive /\ balances[from] - value < ExistentialDeposit THEN "KeepAlive"
  ELSE Ok

\* What is left of a balance that dropped to v: dust below the deposit is
\* burned and the account is reaped.
Reaped(v) == IF v < ExistentialDeposit THEN 0 ELSE v

\* Fault: the dust of a reaped account stays in the total issuance.
DustUncounted(v) == 0

\* What is burned of a balance that dropped to v.
Dust(v) == v - Reaped(v)

\* The effect of a successful transfer.
CurrencyTransfer(from, to, value) ==
  IF value = 0 \/ from = to
  THEN UNCHANGED balanceVars
  ELSE LET rest == balances[from] - value
       IN  /\ balances' = [balances EXCEPT ![from] = Reaped(rest), ![to] = @ + value]
           /\ currencyIssuance' = currencyIssuance - Dust(rest)

=============================================================================
