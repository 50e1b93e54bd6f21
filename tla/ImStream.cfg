SPECIFICATION SdkSpec
CONSTANTS
  c1 = c1
  c2 = c2
  n1 = n1
  p1 = p1
  p2 = p2
  Calls = {c1, c2}
  Nested = {n1}
  Pings = {p1, p2}
  MaxStreams = 2
  NoCall = NoCall
  Setups <- MCInstances
INVARIANTS WaiterIsFound
PROPERTY CallsReturn
CHECK_DEADLOCK FALSE
