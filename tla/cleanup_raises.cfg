SPECIFICATION AccessSpec

CONSTANTS
  o1 = o1
  w1 = w1
  Orders = {o1}
  Workers = {w1}
  MaxAttempts = 3
  MaxCrashes = 2
  MaxRetries = 1
  CleanupFails = TRUE

INVARIANTS
  IssuedKeyExists

CHECK_DEADLOCK FALSE
