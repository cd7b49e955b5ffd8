CONSTANTS
  Process = {p1, p2}
  Together = TRUE
  MaxKeys = 3
SPECIFICATION IdentitySpec
INVARIANT InUseIsKept
CHECK_DEADLOCK FALSE
