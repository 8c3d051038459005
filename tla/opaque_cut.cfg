SPECIFICATION Spec
CONSTANTS
  Base = 4
  Message <- MCMessage
  Limit = 6
  Streamed = FALSE
  Truncated = TRUE
  Trusting = TRUE
INVARIANTS
  ReadsWhatWasSent
CHECK_DEADLOCK FALSE
