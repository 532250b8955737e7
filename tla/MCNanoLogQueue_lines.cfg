SPECIFICATION FairQueueSpec
CONSTANTS
  p1 = p1
  p2 = p2
  Producer = {p1, p2}
  Lines = 2
  Size = 2
  MayShutDown = TRUE
  FreedIsKept = FALSE
INVARIANTS
  QueueTypeOK
  WrittenInClaimOrder
  SlotsExclusive
  OneSetup
  QuietShutdownLosesNothing
PROPERTY LinesWritten
CHECK_DEADLOCK FALSE
