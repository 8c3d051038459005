SPECIFICATION FairSpec
CONSTANTS
  World = "union8"
  Goroutine = {g1, g2}
  NoKey = NoKey
  Key <- MCKey
  Plain <- MCPlain
  Lookups <- MCLookups
  Outcome <- MCOutcome
  Marshaler <- MCMarshaler
  Registrable <- MCRegistrable
  Custom = {}
  Unsafe = TRUE
  MaxDepth = 1
PROPERTIES
  OperationsEnd
CHECK_DEADLOCK FALSE
