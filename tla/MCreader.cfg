SPECIFICATION ReaderFairSpec
CONSTANTS
  Header = 2
  Cap = 6
  Sizes <- Lengths
  Faults = {"close", "reset"}
  MaxMessages = 3
INVARIANTS
  TypeOK
  NeverRefused
  NothingOversizedIsRead
PROPERTIES
  ImplementsFifo
  EndIsNoticed
CHECK_DEADLOCK FALSE
