\* The sudo key used, abused and handed on, accounts that are emptied and filled again, and the template pallet.
SPECIFICATION RSpec
VIEW MCNonceView
CONSTANTS
  Accounts = {"Alice", "Bob"}
  NoneOrigin = NoneOrigin
  RootOrigin = RootOrigin
  NoPrice = NoPrice
  NoXt = NoXt
  NoValue = NoValue
  MaxValue = 2
  MaxTokenId = 1
  DnaBits = 1
  TokenData <- MCTokenData
  ExistentialDeposit = 500
  Endowment = 2200
  SpecFiles <- MCSpecFiles
  InitialBalances <- MCInitialBalances
  SudoKey <- MCSudoKey
  Prices = {1500}
  MaxNonce = 0
  Solutions = {0}
  HashMax = 3
  HashOf <- MCHashOf
  DefaultDifficulty = 2
  Calls <- MCSudoCalls
  Lifetimes = {0}
  LengthFee = 1
  TransferWeight = 195
  MaxBlockWeight = 2000
  BlockHashCount = 2
  MaxIndex = 2
  MaxHeight = 2
INVARIANTS
  FeesAccounted
  NoDustAccounts
  NonceCountsApplied
PROPERTIES
  FailureCostsOnlyFee
  CostsOnlyTheSigner
  ShrinksOnlyByOverwrite
CHECK_DEADLOCK FALSE
