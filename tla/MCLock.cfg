\* Two threads of one node and its lock: crashes, expiry, workers that overrun, and
\* the end of every worker.  WorkersFinish does not depend on what the view hides.
SPECIFICATION FairOSpec
VIEW MCView
CONSTANTS
  a = a
  node1 = node1
  w1 = w1
  w2 = w2
  Accounts = {a}
  NoneOrigin = NoneOrigin
  RootOrigin = RootOrigin
  NoPrice = NoPrice
  NoLock = NoLock
  DnaBits = 1
  TokenData <- MCTokenData
  ExistentialDeposit = 2
  InitialBalances <- MCInitialBalances
  Prices = {}
  HashMax = 3
  HashOf <- MCHashOf
  DefaultDifficulty = 2
  Nodes = {node1}
  NodeOf <- MCNodeOf
  Workers = {w1, w2}
  MaxTokenId = 2
  MaxNonce = 0
  MaxIterations = 2
  Prefixes = {0}
  PrefixShift = 4
  PoolLimit = 1
  LockTimeout = 0
  Reorgs = FALSE
  MaxBlock = 4
  MaxClock = 1
  Solutions = {1}
INVARIANTS
  WorkerTypeOK
  HolderKeepsLock
  LockExclusive
PROPERTIES
  NoStuckLock
  WorkersFinish
