CONSTANTS
  Specs = {}
  Documents <- MCDocuments
  I64_MAX = 9
  U8_MAX = 5
  U32_MAX = 9
SPECIFICATION ParseSpec
INVARIANTS ParserForestalls CodesKeepTheFirst LengthsAreThoseListed MembersOrWarnings
CHECK_DEADLOCK FALSE
