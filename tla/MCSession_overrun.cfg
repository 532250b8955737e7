SPECIFICATION FairSessionSpec
CONSTANTS
  s1 = s1
  Session = {s1}
  Cell <- MCCell
  Script <- MCOneStream
  Close = ")"
  Blank = " "
  Reply = {"", "reply"}
  NoReply = ""
  Stale = "stale"
  Idle = Idle
  MaxLength = 12
  SplitReads = TRUE
  SocketMayFill = TRUE
INVARIANT NoOverrun
CHECK_DEADLOCK FALSE
