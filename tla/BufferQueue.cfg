SPECIFICATION Spec
CONSTANTS
  Buffers = {b1, b2}
  Bytes = {0, 1}
  Zero = 0
  kCheapPrepend = 1
  kInitialSize = 2
  Word = 10
  Garbage = {0, 3, 9}
  Chunks <- MCChunks
  Reserves = {0, 2}
  MaxSize = 4
SYMMETRY Symmetry
CHECK_DEADLOCK FALSE
INVARIANT StaysInside
PROPERTIES RoomAsAsked ActsAsByteQueue
