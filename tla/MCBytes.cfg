\* Kitties of two bytes of two bits.
SPECIFICATION BSpec
CONSTANTS
  DnaBits = 4
  Length = 2
  ByteBits = 2
INVARIANTS
  BytesCombineBits
  GenderFollowsSelector
CHECK_DEADLOCK FALSE
