\* Workers on old snapshots while the chain and the pool move on.
SPECIFICATION OSpec
CONSTANTS
  a = a
  node1 = node1
  w1 = w1
  w2 = w2
  Accounts = {a}
  NoneOrigin = NoneOrigin
  RootOrigin = RootOrigin
  NoPrice = NoPrice
  NoLock = NoLock
  DnaBits = 1
  TokenData <- MCTokenData
  ExistentialDeposit = 2
  InitialBalances <- MCInitialBalances
  Prices = {}
  HashMax = 3
  HashOf <- MCHashOf
  DefaultDifficulty = 2
  Nodes = {node1}
  NodeOf <- MCNodeOf
  Workers = {w1}
  MaxTokenId = 3
  MaxNonce = 1
  MaxIterations = 1
  Prefixes = {0}
  PrefixShift = 4
  PoolLimit = 2
  LockTimeout = 0
  Reorgs = TRUE
  MaxBlock = 2
  MaxClock = 0
  Solutions = {}
INVARIANTS
  WorkerPairsCanBreed
PROPERTIES
  WorkerBreedsSucceed
VIEW MCView
