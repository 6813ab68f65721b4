SPECIFICATION FairSpec
CONSTANTS
  Rooms = {r1}
  Senders = {"group", "unnamed", "contact", "member", "unloaded", "stranger"}
  MaxInvites = 2
  MaxChanges = 2
  MaxCrashes = 1
INVARIANT TypeOK
PROPERTIES  InvitesJudged
CHECK_DEADLOCK FALSE
