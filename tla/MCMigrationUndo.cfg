SPECIFICATION Spec
CONSTANTS
  Models <- MCModels
  TableNames <- MCTableNames
  MaxPublishes = 2
  MaxFaults = 1
INVARIANT UndoFindsItsTable
