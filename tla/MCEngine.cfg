SPECIFICATION Spec
CONSTANTS
  App = 2
  Drawings <- MCDrawings
  Databases <- MCDatabases
  Questions <- MCQuestions
  Fields <- MCFields
  Selections <- MCSelections
INVARIANTS NodesAreMatches TotalCountsNodes LoaderAnswersEachOwner
PROPERTIES SchemaIsClosed ImplementsInterfaces TablesFit VersionIsWhole DeletesWhatMatched
CHECK_DEADLOCK FALSE
