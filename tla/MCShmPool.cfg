CONSTANTS
  Pools = {p1, p2}
  Buffers = {b1}
  Numbers <- Arguments
  None = None
SPECIFICATION Spec
INVARIANTS TypeOK RowsInPool WholeFrames
PROPERTY MappingGrows
CHECK_DEADLOCK FALSE
