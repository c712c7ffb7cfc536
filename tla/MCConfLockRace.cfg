CONSTANTS
  d1 = d1
  d2 = d2
  k1 = k1
  d3 = d3
  k2 = k2
  Daemons = {d1, d2}
  Killers = {k1}
SPECIFICATION Spec
INVARIANT SingleInstance
CHECK_DEADLOCK FALSE
