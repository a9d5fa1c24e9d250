CONSTANTS
  Specs <- MCSpecs
  I64_MAX = 9
SPECIFICATION FairSpec
INVARIANTS ResolvesToItsPaths AcceptsExactlyWellFormed ErrorsAreTrue
PROPERTY Terminates
CHECK_DEADLOCK FALSE
