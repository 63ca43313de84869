\* Two kitties and two accounts: what one call does to the records of the
\* other kitty, up to the end of the id space, and what an indexer learns of it.
SPECIFICATION HSpec
CONSTANTS
  a = a
  b = b
  Accounts = {a, b}
  NoneOrigin = NoneOrigin
  RootOrigin = RootOrigin
  NoPrice = NoPrice
  MaxTokenId = 2
  DnaBits = 1
  TokenData <- MCTokenData
  ExistentialDeposit = 2
  InitialBalances <- MCInitialBalances
  Prices = {0, 3}
  MaxNonce = 0
  Solutions = {}
  HashMax = 3
  HashOf <- MCHashOf
  DefaultDifficulty = 2
INVARIANTS
  TypeOK
  IdsAreDense
  OwnerIndexAgrees
  IndexerAgrees
  ListedByOwner
PROPERTIES
  KittiesAreForever
  OnlyOwnersList
