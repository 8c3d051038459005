SPECIFICATION Spec
CONSTANTS
  Base = 4
  MaxInt = 7
  TypeDef <- MCTypeDef
  Codec <- MCCodec
  Pair <- MCPair
  Cuts = {0, 1, 3, 4, 6, 8, 9, 12, 15, 16, 20, 22, 24, 28}
  MaxMessages = 2
INVARIANTS
  TypeOK
  ArrivesAsSent
  LimitsAgree
  DecodesAsFresh
  BuildsAgree
  PanicsAreKnown
  EncodersAgree
  LengthErrorsTellWhy
CHECK_DEADLOCK FALSE
