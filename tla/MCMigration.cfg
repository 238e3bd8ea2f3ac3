SPECIFICATION Spec
CONSTANTS
  Models <- MCModels
  TableNames <- MCTableNames
  MaxPublishes = 3
  MaxFaults = 1
INVARIANTS
  TypeOK
  PublishedIsRealised
  NeverStricter
  OtherTablesUntouched
  RollbackRestores
