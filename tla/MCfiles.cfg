SPECIFICATION FairSpec
CONSTANTS
  a = a
  b = b
  Uploaders = {a, b}
  Downloaders = {d, e}
  Names = {x, y}
  Size <- Lengths
  CHUNK_SIZE = 2
  Faulty = {a, d}
  None = None
INVARIANTS
  TypeOK
  AnnouncedIsComplete
  DeliveredIsStored
  NoOvershoot
PROPERTIES
  SendingEnds
CHECK_DEADLOCK FALSE
