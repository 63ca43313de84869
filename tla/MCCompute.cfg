\* Blocks full of automatic breeding.
SPECIFICATION RSpec
CONSTANTS
  Accounts = {"Alice"}
  NoneOrigin = NoneOrigin
  RootOrigin = RootOrigin
  NoPrice = NoPrice
  NoXt = NoXt
  NoValue = NoValue
  MaxValue = 1
  MaxTokenId = 4
  DnaBits = 1
  TokenData <- MCTokenData
  ExistentialDeposit = 500
  Endowment = 2500
  SpecFiles <- MCSpecFiles
  InitialBalances <- MCInitialBalances
  SudoKey <- MCSudoKey
  Prices = {}
  MaxNonce = 2
  Solutions = {0, 1}
  HashMax = 3
  HashOf <- MCHashOf
  DefaultDifficulty = 2
  Calls <- MCCreateCalls
  Lifetimes = {0}
  LengthFee = 1
  TransferWeight = 195
  MaxBlockWeight = 1500
  BlockHashCount = 2
  MaxIndex = 2
  MaxHeight = 3
INVARIANTS
  ComputeWithinLimit
CHECK_DEADLOCK FALSE
