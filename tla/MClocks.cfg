SPECIFICATION FairSpec
CONSTANTS
  Conns = {c1, c2}
  Hall = Hall
  Faulty = {c1}
  Requests <- Varied
  Pieces = 2
  Window = 1
  MaxSent = 1
INVARIANTS
  TypeOK
  NoCircularWait
  MessagesAreWhole
PROPERTIES
  EveryoneGetsThrough
  NamesAreNeverStalled
CHECK_DEADLOCK FALSE
