SPECIFICATION FairSpec
CONSTANTS
  World = "mutual"
  Goroutine = {g1, g2}
  NoKey = NoKey
  Key <- MCKey
  Plain <- MCPlain
  Lookups <- MCLookups
  Outcome <- MCOutcome
  Marshaler <- MCMarshaler
  Registrable <- MCRegistrable
  Custom = {}
  Unsafe = TRUE
  MaxDepth = 3
INVARIANTS
  PlaceholdersAreBuilt NoCircularWait
PROPERTIES
  BindingSpec OperationsEnd
