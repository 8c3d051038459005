SPECIFICATION Spec
CONSTANTS
  World = "cache"
  Goroutine = {g1, g2}
  Coder = {cr1, cr2}
  Type <- MCType
  Body <- MCBody
  Unbuildable <- MCUnbuildable
  Enc = {e1}
  MarshalEnc = {m1}
  BufWriter = {b1}
  Writer = {w1}
  StringWriter = {}
  Buffered = {}
  CacheSize = 2
  BufSize = 2
  Nothing = Nothing
  MaxBegun = 3
INVARIANTS
  TypeOK OutputIsOwn CacheIsCurrent
CHECK_DEADLOCK FALSE
