SPECIFICATION FairAccessSpec

CONSTANTS
  o1 = o1
  w1 = w1
  Orders = {o1}
  Workers = {w1}
  MaxAttempts = 3
  MaxCrashes = 2
  MaxRetries = 1
  CleanupFails = FALSE

INVARIANTS
  ClosedKeyIsBeingRevoked
  RevokedKeyIsGone

PROPERTIES
  KeepsPromise
  ClosedAccessEnds
  ApprovedAccessIsDecided

CHECK_DEADLOCK FALSE
