SPECIFICATION Spec
CONSTANTS
  Servers = {s1, s2}
  Home = s1
  Moves = {1}
  Quota = 2
  MaxCrashes = 1
  DeleteCutShort = TRUE
  CarefulStaff = TRUE
  TrackUsage = FALSE
  Lifecycles = {"retired"}
INVARIANT MovedKeyIsDeleted
CHECK_DEADLOCK FALSE
