CONSTANTS
  Specs <- MCSpecs
  I64_MAX = 9
SPECIFICATION CliSpec
INVARIANT ImportsCoverAccessors
CHECK_DEADLOCK FALSE
