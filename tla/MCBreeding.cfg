\* Breeding three kitties of two bits, signed and unsigned, up to and beyond the
\* last nonce.
SPECIFICATION HSpec
VIEW MCView
CONSTANTS
  a = a
  b = b
  Accounts = {a, b}
  NoneOrigin = NoneOrigin
  RootOrigin = RootOrigin
  NoPrice = NoPrice
  MaxTokenId = 3
  DnaBits = 2
  TokenData <- MCTokenData
  ExistentialDeposit = 2
  InitialBalances <- MCInitialBalances
  Prices = {}
  MaxNonce = 2
  Solutions = {0}
  HashMax = 7
  HashOf <- MCRareHashOf
  DefaultDifficulty = 4
INVARIANTS
  OneInclusionPerNonce
  ReplaysOnlyAtSaturation
PROPERTIES
  BreedingIsLegal
