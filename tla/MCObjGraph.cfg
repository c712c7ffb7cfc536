CONSTANTS
  c1 = c1
  l1 = l1
  s1 = s1
  s2 = s2
  s3 = s3
  Consoles = {c1}
  Logfiles = {l1}
  Sockets = {s1, s2, s3}
  LogOf <- MCLogOf
  ConsoleOpens = TRUE
  LogOpenFails = TRUE
  Null = Null
  Garbage = Garbage
  MaxDepth = 6
SPECIFICATION Spec
INVARIANT TypeOK
INVARIANT FeederIsWriter
CHECK_DEADLOCK FALSE
