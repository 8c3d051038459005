SPECIFICATION Spec
CONSTANTS
  World = "list"
  Goroutine = {g1, g2, g3}
  NoKey = NoKey
  Key <- MCKey
  Plain <- MCPlain
  Lookups <- MCLookups
  Outcome <- MCOutcome
  Marshaler <- MCMarshaler
  Registrable <- MCRegistrable
  Custom = {}
  Unsafe = TRUE
  MaxDepth = 1
SYMMETRY Symmetry
INVARIANTS
  TypeOK OneCodecPerKey MapsAgree SoleBuilder
