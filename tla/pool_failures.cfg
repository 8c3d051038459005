SPECIFICATION Spec
CONSTANTS
  World = "failures"
  Goroutine = {g1, g2}
  Coder = {cr1}
  Type <- MCType
  Body <- MCBody
  Unbuildable <- MCUnbuildable
  Enc = {e1, e2}
  MarshalEnc = {m1, m2}
  BufWriter = {b1}
  Writer = {w1, w2}
  StringWriter = {w2}
  Buffered = {w2}
  CacheSize = 2
  BufSize = 1
  Nothing = Nothing
  MaxBegun = 3
SYMMETRY Symmetry
INVARIANTS
  OutputIsOwn HeldOnce IInv ProgressOK
PROPERTIES
  WritersAreLeftAlone
CHECK_DEADLOCK FALSE
