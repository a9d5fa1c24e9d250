CONSTANTS
  MAX_BEGIN_STRING_LEN = 8
  MAX_BODY_LENGTH_DIGITS = 3
  max_frame_size = 45
  Streams <- LiveStreams
  Chunks = {8}
SPECIFICATION FairSpec
PROPERTY AllDelivered
