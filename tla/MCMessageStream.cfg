CONSTANTS
  MAX_BEGIN_STRING_LEN = 8
  MAX_BODY_LENGTH_DIGITS = 3
  max_frame_size = 45
  Streams <- MCStreams
  Chunks = {1, 3}
SPECIFICATION Spec
INVARIANTS TypeOK BufferIsUnread BoundedWait ChunkInvariant
PROPERTY ReaderSpec
