SPECIFICATION Spec
CONSTANTS
  World = "ext"
  Goroutine = {g1, g2}
  NoKey = NoKey
  Key <- MCKey
  Plain <- MCPlain
  Lookups <- MCLookups
  Outcome <- MCOutcome
  Marshaler <- MCMarshaler
  Registrable <- MCRegistrable
  Custom = {c1, c2}
  Unsafe = FALSE
  MaxDepth = 2
INVARIANTS
  RegistrationExcludesBuild NoNilCodec IInv
PROPERTIES
  BindingSpec
CHECK_DEADLOCK FALSE
