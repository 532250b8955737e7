SPECIFICATION FairPipelineSpec
CONSTANTS
  s1 = s1
  s2 = s2
  Session = {s1, s2}
  Script <- MCScript
  Idle = Idle
  Device = {"d1", "d2", "d3"}
  Registered = {"d1", "d2"}
  DefaultId = "000000000"
  MessageId = {"m1", "m2", "m4", "m5"}
  MaxLength = 14
  SplitReads = FALSE
  SocketMayFill = FALSE
  Msvc = FALSE
  DatabaseMayFail = TRUE
  Feedback = {"m2", "m4"}
  None = None
  QueueLimit = 1
  Poison = {"m4"}
  RequestsMayFail = TRUE
  RaceIsFatal = TRUE
INVARIANTS
  LogTypeOK
  OnePlaceEach
  FixesAccounted
PROPERTIES
  NoLateLoss
  CallsOnce
  Delivered
  FixesStored
CHECK_DEADLOCK FALSE
