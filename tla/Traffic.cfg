CONSTANTS
  r1 = r1
  r2 = r2
  l1 = l1
  l2 = l2
  t1 = t1
  t2 = t2
  n1 = n1
  NoNick = NoNick
  Unlimited = Unlimited
  NoLink = NoLink
  NoSession = NoSession
  Room = {r1}
  Token = {t1}
  Nick = {n1}
  Advertised <- TightHub
  Link = {l1, l2}
  Faults = {"reorder"}
  HubTalk = {"CHAT", "DIRECT", "PING", "ERROR", "IGNORED"}
  Connects <- ConnectNone
  Commands = {"say", "direct", "nick", "ping", "quit"}
  Patient = FALSE
  MaxQueue = 1
  MaxFlight = 1
  MaxTimers = 2
SYMMETRY LinkSymmetry
SPECIFICATION Spec
INVARIANTS
  OneLifeline
  NoOrphan
PROPERTIES
  PongIsCurrent
