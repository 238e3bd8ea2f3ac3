SPECIFICATION FairSpec
CONSTANTS
  ann = ann
  bob = bob
  n1 = n1
  n2 = n2
  Anonymous = Anonymous
  None = None
  Users <- AnnAndBob
  Callers <- AnnAndNobody
  Clients = {c1, c2}
  Stoppable = {}
  Notices <- N1
  OwnerOf <- OneNotice
  Scripted <- NoNotice
  Tasks = {e1}
PROPERTY EveryPostIsCounted
