CONSTANTS
  Base = 10
  Cap = 300
  FloatBits = 1024
SPECIFICATION BackoffSpec
INVARIANTS
  AlwaysWaits
