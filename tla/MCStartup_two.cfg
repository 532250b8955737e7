SPECIFICATION StartSpec
CONSTANTS
  p1 = p1
  p2 = p2
  Process = {p1, p2}
  a = a
  b = b
  c = c
  File = {a, b, c}
  x = x
  y = y
  Port = {x, y}
  PortOf <- MCPortOf
  ReusePort = TRUE
INVARIANTS
  OneServes
  PluginsServed
PROPERTY StartUpEnds
CHECK_DEADLOCK FALSE
