CONSTANTS
  d1 = d1
  d2 = d2
  d3 = d3
  k1 = k1
  k2 = k2
  Daemons = {d1, d2, d3}
  Killers = {k1, k2}
SPECIFICATION Spec
INVARIANT OnlyOverlappingProbesCoexist
CHECK_DEADLOCK FALSE
