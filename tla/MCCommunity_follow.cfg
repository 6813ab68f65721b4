SPECIFICATION Spec
CONSTANTS
  a1 = a1
  a2 = a2
  x = x
  y = y
  Aliases = {a1, a2}
  Rooms = {x, y}
  Requests = {r1}
  Joiners = {j1, j2}
  None = None
  Children <- SharedRoom
  Commands = {"community_join"}
  Answers = {"listed"}
  JoinAttempts = 2
INVARIANT RoomsFollow
CHECK_DEADLOCK FALSE
