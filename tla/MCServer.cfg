SPECIFICATION Spec
CONSTANTS
  sys = sys
  crm = crm
  erp = erp
  admin = admin
  r1 = r1
  r2 = r2
  r3 = r3
  None = None
  Requests = {r1, r2, r3}
  Apps = {sys, crm, erp}
  SystemApp = sys
  Users = {admin}
  Passwords = {"a", "b", "c"}
  Mixes <- MCMixes
  Seconds = 1
  MaxCalls = 4
  MaxStarts = 2
INVARIANTS TypeOK AppsAreOwnOrMixed InstalledIsWhole TxIsAtomic TxIsWhole ServedIsKnown NothingIsLeftBehind
PROPERTIES TokensAreEarned LoggedOutStaysOut
CHECK_DEADLOCK FALSE
