CONSTANTS
  c1 = c1
  l1 = l1
  s1 = s1
  s2 = s2
  t1 = t1
  t2 = t2
  Consoles = {c1}
  Logfiles = {l1}
  Sockets = {s1, s2}
  LogOf <- MCLogOf
  ConsoleOpens = TRUE
  LogOpenFails = TRUE
  Null = Null
  Garbage = Garbage
  MaxDepth = 6
  Threads = {t1}
  RWSessions = {FALSE}
SPECIFICATION FairSpec
PROPERTY DeferredCloseCompletes
CHECK_DEADLOCK FALSE
