SPECIFICATION Spec
CONSTANTS
  Quotables = {m1, m2}
  Editable = {m1}
  Readers = {r1}
  Handler = Handler
  None = None
  MaxReplyCache = 1
  MaxEdits = 3
  Foreign <- ByOthers
  MaxSent = 2
INVARIANT ActivityIsLatest
CHECK_DEADLOCK FALSE
