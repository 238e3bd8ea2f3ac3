SPECIFICATION Spec
CONSTANTS
  Apps = {sys, crm}
  SystemApp = sys
  Getters = {g1, g2}
  Publishers = {p1, p2}
  Loaders = {l1, l2, l3}
  None = None
  MaxEdits = 0
  MaxPublishes = 1
  MaxRestarts = 0
SYMMETRY Symmetry
INVARIANTS TypeOK CachedIsPublished GetIsNotStale
PROPERTY NeverGoesBack
