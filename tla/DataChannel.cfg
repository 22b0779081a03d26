\* The limit is one chunk; a buffer of 3 is cut in two; an empty one has no
\* chunk.  Two calls of close() overlap.
CONSTANTS
  CHUNK_SIZE = 2
  PC_QUEUE_LIMIT = 2
  BufferSizes = {0, 1, 3}
  StringSize = 1
  MaxSends = 3
  MaxCloses = 2
SPECIFICATION FairSpec
INVARIANTS TypeOK OnePump BufferBounds
PROPERTIES Ordered Progress
CHECK_DEADLOCK FALSE
