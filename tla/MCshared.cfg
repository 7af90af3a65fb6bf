SPECIFICATION Spec
CONSTANTS
  a = a
  b = b
  Uploaders = {a, b}
  Downloaders = {d}
  Names = {x}
  Size <- Lengths
  CHUNK_SIZE = 2
  Faulty = {}
  None = None
INVARIANTS
  GrantedOnce
CHECK_DEADLOCK FALSE
