\* The nonce at the end of its range, where saturating_add leaves it.
SPECIFICATION HSpec
CONSTANTS
  a = a
  b = b
  Accounts = {a}
  NoneOrigin = NoneOrigin
  RootOrigin = RootOrigin
  NoPrice = NoPrice
  MaxTokenId = 3
  DnaBits = 1
  TokenData <- MCTokenData
  ExistentialDeposit = 2
  InitialBalances <- MCInitialBalances
  Prices = {}
  MaxNonce = 2
  Solutions = {0}
  HashMax = 3
  HashOf <- MCHashOf
  DefaultDifficulty = 2
INVARIANTS
  NoReplay
