CONSTANTS
  I64_MAX = 1500000000
  I8_MAX = 3
  DIGITS = 1
  RUST_DECIMAL_MAX = 2000000000
  RUST_DECIMAL_SCALE = 2
  Messages <- MCMessages
  Tags = {1}
  LibraryValues <- MCLibraryValues
SPECIFICATION Spec
INVARIANTS DatesCountTheDays TimestampsKeepDateAndTime DecimalsAreNumbers ConversionsKeepTheValue
CHECK_DEADLOCK FALSE
