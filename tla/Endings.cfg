CONSTANTS
  r1 = r1
  r2 = r2
  l1 = l1
  l2 = l2
  t1 = t1
  t2 = t2
  n1 = n1
  NoNick = NoNick
  Unlimited = Unlimited
  NoLink = NoLink
  NoSession = NoSession
  Room = {}
  Token = {}
  Nick = {}
  Advertised <- OpenHub
  Link = {l1}
  Faults = {"loss", "ui"}
  HubTalk = {}
  Connects <- ConnectNone
  Commands = {"quit"}
  Patient = FALSE
  MaxQueue = 1
  MaxFlight = 5
  MaxTimers = 2
SPECIFICATION LiveSpec
PROPERTIES
  HelperEnds
  OutageEnds
  UpIsAnswered
