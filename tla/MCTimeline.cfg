SPECIFICATION FairPageSpec
CONSTANTS
  Newest = 6
  Messages <- WithReaction
  Limit = 2
  Batch = 2
  MaxRounds = 3
  Quiet = TRUE
INVARIANTS PageTypeOK 
PROPERTIES  RootLeads PagesReturn
CHECK_DEADLOCK FALSE
