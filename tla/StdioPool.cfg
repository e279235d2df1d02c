CONSTANTS
  c1 = c1  c2 = c2  c3 = c3
  s1 = s1  s2 = s2  s3 = s3  s4 = s4
  k1 = k1  k2 = k2  k3 = k3  k4 = k4
  None = None
  Callers = {c1, c2, c3}
  Slots = {s1, s2}
  Children = {k1, k2}
  MaxInFlight = 1
  MaxStrikes = 1
  Threshold = 1
SPECIFICATION Spec
SYMMETRY Perms
INVARIANTS TypeOK Shape NoStray CurrentCapped
PROPERTY StruckOutCutOff
CHECK_DEADLOCK FALSE
