SPECIFICATION FairSpec
CONSTANTS
  Requests = {r1, r2}
  Attachments <- Events
  MaxDownload = 2
  MaxThumbnail = 1
  MaxChunk = 2
INVARIANTS TypeOK NeverOverCap  RecordingInHand
PROPERTY CommandsReturn
CHECK_DEADLOCK FALSE
