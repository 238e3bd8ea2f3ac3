SPECIFICATION Spec
CONSTANTS
  ann = ann
  bob = bob
  n1 = n1
  n2 = n2
  Anonymous = Anonymous
  None = None
  Users <- AnnAndBob
  Callers <- AnnAndBob
  Clients = {c1}
  Stoppable = {c1}
  Notices <- MCNotices
  OwnerOf <- OneOwner
  Scripted <- N2
  Tasks = {e1, e2}
SYMMETRY TaskSymmetry
INVARIANTS TypeOK LastIsCurrent
