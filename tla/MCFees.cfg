\* Trading under fees, with accounts near the existential deposit.
SPECIFICATION RSpec
VIEW MCView
CONSTANTS
  Accounts = {"Alice", "Bob", "Charlie"}
  NoneOrigin = NoneOrigin
  RootOrigin = RootOrigin
  NoPrice = NoPrice
  NoXt = NoXt
  NoValue = NoValue
  MaxValue = 1
  MaxTokenId = 1
  DnaBits = 1
  TokenData <- MCTokenData
  ExistentialDeposit = 500
  Endowment = 2500
  SpecFiles <- MCSpecFiles
  InitialBalances <- MCInitialBalances
  SudoKey <- MCSudoKey
  Prices = {100, 600, 700, 900}
  MaxNonce = 0
  Solutions = {}
  HashMax = 3
  HashOf <- MCHashOf
  DefaultDifficulty = 2
  Calls <- MCTradeCalls
  Lifetimes = {0, 2}
  LengthFee = 1
  TransferWeight = 195
  MaxBlockWeight = 4000
  BlockHashCount = 2
  MaxIndex = 2
  MaxHeight = 2
INVARIANTS
  NoDustAccounts
PROPERTIES
  FailureCostsOnlyFee
  CostsOnlyTheSigner
CHECK_DEADLOCK FALSE
