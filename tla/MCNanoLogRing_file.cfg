SPECIFICATION RingSpec
CONSTANTS
  p1 = p1
  p2 = p2
  Producer = {p1, p2}
  Content <- MCContent
  HeaderBytes = 45
  StackBytes = 224
  PrefixBytes = 60
  RollBytes = 100
  DiskMayFail = TRUE
  Size = 2
  Modulus = 4
  Restarts = 1
  MayShutDown = TRUE
INVARIANTS
  LinesFit
  TextIntact
  TakenOnceInOrder
  DroppedOnlyWhenFull
  NothingLeftWaiting
  FilesFollowReader
  RollsInTime
  RunsNotMixed
CHECK_DEADLOCK FALSE
