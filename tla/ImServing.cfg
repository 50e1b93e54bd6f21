SPECIFICATION Spec
CONSTANTS
  a = a
  b = b
  c = c
  s1 = s1
  s2 = s2
  k1 = k1
  k2 = k2
  Nodes = {a, b, c}
  Streams = {s1, s2}
  Conns = {k1, k2}
  None = None
  Instances <- MCInstances
INVARIANTS ServingSettles HandedOnce ShutdownHandsOver
CHECK_DEADLOCK FALSE
