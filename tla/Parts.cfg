CONSTANTS
  p1 = p1
  p2 = p2
  r1 = r1
  r2 = r2
  w1 = w1
  w2 = w2
  h1 = h1
  h2 = h2
  h12 = h12
  Base = 10
  Cap = 300
  FloatBits = 1024
  MaxLines = 3
  Sizes = {0, 1, 2, 4}
  Limits = {2, 100}
  Window = 3
  RateLimits = {1, 2}
  NoLimit = NoLimit
  MaxTime = 6
  MaxSends = 4
  Process = {p1, p2}
  Together = FALSE
  MaxKeys = 3
  InSize = 1
  OutSize = 2
  MaxEvents = 2
  MaxQueue = 2
  MaxAltered = 2
  LimitKey = {"body", "rooms"}
  Person = {p1, p2}
  Room = {r1, r2}
  Word <- Words
  FullHash <- Hashes
  Hex <- HexWords
  Begins <- Heads
  Short <- ShortHeads
  Listed <- ListedHeads
  Nick <- Plain
  NotIn = NotIn
  Nobody = Nobody
SPECIFICATION Spec
INVARIANTS
  BackoffTypeOK
  FramingTypeOK
  WithinLimitArrives
  LossIsCounted
  RateTypeOK
  ExactlyTheLimit
  IdentityTypeOK
  InUseIsKept
  PipesTypeOK
  WireTypeOK
  AdvisoryIsNeverFatal
  NamesAreTheirs
  ResolvedWasCalled
PROPERTIES
  WaitGrows
  KeyIsForever
  CallbackReturns
  LoopMovesOn
  HelperFollows
