CONSTANTS
  r1 = r1
  r2 = r2
  l1 = l1
  l2 = l2
  t1 = t1
  t2 = t2
  n1 = n1
  NoNick = NoNick
  Unlimited = Unlimited
  NoLink = NoLink
  NoSession = NoSession
  Room = {r1}
  Token = {}
  Nick = {}
  Advertised <- OpenHub
  Link = {l1, l2}
  Faults = {"loss", "ui"}
  HubTalk = {}
  Connects <- ConnectAny
  Commands = {"quit", "disconnect"}
  Patient = FALSE
  MaxQueue = 1
  MaxFlight = 1
  MaxTimers = 2
SYMMETRY LinkSymmetry
SPECIFICATION Spec
INVARIANTS
  TypeOK
  OneLifeline
  NoOrphan
  SessionIsCurrent
PROPERTIES
  Supervised
