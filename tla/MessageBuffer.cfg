SPECIFICATION Spec
CONSTANTS
  Buffers = {b1, b2}
  Bytes = {0, 1}
  Sizes = {0, 2, 3}
  Blank = 0
CHECK_DEADLOCK FALSE
INVARIANTS InBounds
PROPERTIES QueueSpec
