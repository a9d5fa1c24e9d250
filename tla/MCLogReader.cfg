CONSTANTS
  MAX_BEGIN_STRING_LEN = 6
  MAX_BODY_LENGTH_DIGITS = 2
  max_frame_size = 99
  U32_MAX = 999
  LengthTags <- MCLengthTags
  MAX_TAG_DIGITS = 2
  MAX_MESSAGE_LEN = 36
  MAX_PREFIX_LEN = 3
  Chunks = {1}
  Logs <- MCLogs
SPECIFICATION PythonSpec
INVARIANTS ChunkInvariant RecordsTileTheLog NoStartPassedOver BoundedBuffer CleanRecordsAreMessages GivenInOrder
CHECK_DEADLOCK FALSE
