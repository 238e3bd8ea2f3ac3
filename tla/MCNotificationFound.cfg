SPECIFICATION Spec
CONSTANTS
  ann = ann
  bob = bob
  n1 = n1
  n2 = n2
  Anonymous = Anonymous
  None = None
  Users <- AnnAndBob
  Callers <- AnnOnly
  Clients = {c1}
  Stoppable = {}
  Notices <- MCNotices
  OwnerOf <- OneOwner
  Scripted <- NoNotice
  Tasks = {e1, e2}
INVARIANT PostedIsFound
