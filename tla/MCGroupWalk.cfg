CONSTANTS
  Messages <- MCMessages
  Tables <- MCTables
  Root <- Parties
  known <- MCKnown
SPECIFICATION Spec
INVARIANTS InstancesTileTheGroup GroupIsMaximal NoTagTwiceInAnInstance CleanGroupsSplitAtDelimiters NestedReadsAgree RoundTrip
CHECK_DEADLOCK FALSE
