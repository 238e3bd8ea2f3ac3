SPECIFICATION Spec
CONSTANTS
  a1 = a1
  a2 = a2
  a3 = a3
  t1 = t1
  t2 = t2
  t3 = t3
  None = None
  Sources <- MCSources
  Targets <- MCTargets
  InitialRows <- MCRows
  InitialLinks <- MCLinks
  Requests <- SerialRequests
  Sessions = {s1}
  Combination = TRUE
  OneTarget = FALSE
  MaxRequests = 3
INVARIANT TypeOK
PROPERTY ImplementsPromise
