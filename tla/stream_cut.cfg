SPECIFICATION Spec
CONSTANTS
  Base = 4
  Message <- MCMessage
  Limit = 6
  Streamed = TRUE
  Truncated = TRUE
  Trusting = FALSE
INVARIANTS
  TypeOK Aligned ReadsWhatWasSent FailsForAReason IInv
CHECK_DEADLOCK FALSE
