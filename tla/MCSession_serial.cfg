SPECIFICATION FairSpec
CONSTANTS
  Sessions = {s1, s2}
  Clients = {c1, c2}
  Requests = {r1}
  Bg = Bg
  None = None
  Commands = {"login", "login_oauth", "login_cancel", "logout", "retry_session", "forget_session"}
  RingAnswers = {"yes", "no", "late"}
  Polite = TRUE
  MaxCrashes = 2
  MaxGen = 1
INVARIANTS TypeOK LoopOfClient     UnsavedStoreStands
  
CHECK_DEADLOCK FALSE
