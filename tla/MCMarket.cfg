\* Trading one kitty among three accounts, at prices on both sides of the
\* existential deposit of 2.
SPECIFICATION Spec
CONSTANTS
  a = a
  b = b
  c = c
  Accounts = {a, b, c}
  NoneOrigin = NoneOrigin
  RootOrigin = RootOrigin
  NoPrice = NoPrice
  MaxTokenId = 1
  DnaBits = 1
  TokenData <- MCTokenData
  ExistentialDeposit = 2
  InitialBalances <- MCInitialBalances
  Prices = {0, 1, 3}
  MaxNonce = 0
  Solutions = {}
  HashMax = 3
  HashOf <- MCHashOf
  DefaultDifficulty = 2
INVARIANTS
  NoDustAccounts
  MoneyConserved
PROPERTIES
  NoListingSurvivesOwnerChange
  OwnershipMovesByConsentOrSale
  SpendingIsAuthorised
  ImplementsMarketplace
SYMMETRY MCSymmetry
