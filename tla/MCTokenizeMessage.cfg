CONSTANTS
  MAX_BEGIN_STRING_LEN = 8
  MAX_BODY_LENGTH_DIGITS = 3
  max_frame_size = 98
  U32_MAX = 98
  LengthTags <- MCLengthTags
  Inputs <- MCInputs
SPECIFICATION Spec
INVARIANTS Tiling SeparatorsOnlyInData AcceptsExactlyOneMessage RoundTrip
CHECK_DEADLOCK FALSE
