SPECIFICATION FairSpec
CONSTANTS
  a1 = a1
  a2 = a2
  x = x
  y = y
  Aliases = {a1, a2}
  Rooms = {x, y}
  Requests = {r1}
  Joiners = {j1, j2}
  None = None
  Children <- SharedRoom
  Commands = {"community_status", "community_join", "community_leave"}
  Answers = {"listed", "refused"}
  JoinAttempts = 2
INVARIANTS TypeOK OneJoiner 
PROPERTY JoinersEnd
CHECK_DEADLOCK FALSE
