SPECIFICATION FairSpec
CONSTANTS
  s1 = s1
  s2 = s2
  Session = {s1, s2}
  Script <- MCWhole
  Idle = Idle
  Device = {"d1", "d2", "d3"}
  Registered = {"d1", "d2"}
  DefaultId = "000000000"
  MessageId = {"m1", "m2", "m3", "m4", "m5", "m6", "m7"}
  MaxLength = 14
  SplitReads = FALSE
  SocketMayFill = FALSE
  Msvc = FALSE
  DatabaseMayFail = FALSE
INVARIANTS
  AnswersComplete
  FixesPublished
PROPERTIES
  LoginsAnswered
  WholeFrames
CHECK_DEADLOCK FALSE
