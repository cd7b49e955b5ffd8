CONSTANTS
  r1 = r1
  p1 = p1
  n1 = n1
  n2 = n2
  NoNick = NoNick
  Me = Me
  Hub = Hub
  Room = {r1}
  Person = {p1}
  Nick = {n1}
  Deaths = TRUE
  MaxPipe = 1

SPECIFICATION Spec
INVARIANT
  OldKeysRetired
