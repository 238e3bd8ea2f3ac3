SPECIFICATION FairSpec
CONSTANTS
  Apps = {sys, crm}
  SystemApp = sys
  Getters = {g1}
  Publishers = {p1}
  Loaders = {l1, l2}
  None = None
  MaxEdits = 1
  MaxPublishes = 1
  MaxRestarts = 1
INVARIANTS PublishedIsMigrated NilMeansDeleted
PROPERTY GetEnds
