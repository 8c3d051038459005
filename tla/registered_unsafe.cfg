SPECIFICATION Spec
CONSTANTS
  World = "ext"
  Goroutine = {g1, g2}
  NoKey = NoKey
  Key <- MCKey
  Plain <- MCPlain
  Lookups <- MCLookups
  Outcome <- MCOutcome
  Marshaler <- MCMarshaler
  Registrable <- MCRegistrable
  Custom = {c1, c2}
  Unsafe = TRUE
  MaxDepth = 1
INVARIANTS
  RegisteredCodecsWork
