SPECIFICATION FairSpec
CONSTANTS
  Inputs <- Typed
  Letters = {"x", "y"}
  Existing <- Files
  Capacity = 8
  MAXIMUM_TEXT_SIZE = 3
  MAXIMUM_NAME_SIZE = 1
  MAXIMUM_FILE_NAME_SIZE = 2
  MaxEnds = 2
  None = None
INVARIANTS
  TypeOK
  CacheIsBuffered
  CommandsAreOfLines
  NothingIsSkipped
PROPERTIES
  EndsAtLast
CHECK_DEADLOCK FALSE
