SPECIFICATION FairSpec
CONSTANTS
  Conns = {c1}
  Notifiers = {n1, n2}
  None = None
  MaxEvents = 2
  MaxRequests = 2
  ChannelCap = 1
  LineCap = 1
  MaxInFlight = 1
INVARIANTS TypeOK EventsComplete NewestStateTold PermitsHeld
 
CHECK_DEADLOCK FALSE
