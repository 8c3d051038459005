SPECIFICATION Spec
CONSTANTS
  World = "union8"
  Goroutine = {g1, g2}
  NoKey = NoKey
  Key <- MCKey
  Plain <- MCPlain
  Lookups <- MCLookups
  Outcome <- MCOutcome
  Marshaler <- MCMarshaler
  Registrable <- MCRegistrable
  Custom = {}
  Unsafe = TRUE
  MaxDepth = 1
INVARIANTS
  UnionsAreValidated
