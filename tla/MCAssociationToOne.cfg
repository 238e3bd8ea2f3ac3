SPECIFICATION Spec
CONSTANTS
  a1 = a1
  a2 = a2
  a3 = a3
  t1 = t1
  t2 = t2
  t3 = t3
  None = None
  Sources <- MCSources
  Targets <- MCTargets
  InitialRows <- MCRows
  InitialLinks <- NoLinks
  Requests <- ToOneRequests
  Sessions = {s1, s2}
  Combination = FALSE
  OneTarget = TRUE
  MaxRequests = 2
INVARIANT AtMostOne
