SPECIFICATION ScannerFairSpec
CONSTANTS
  Header = 2
  Cap = 6
  Sizes <- Lengths
  Faults = {"close", "reset"}
  MaxMessages = 3
INVARIANTS
  TypeOK
  NeverRefused
PROPERTIES
  ImplementsFifo
  ArrivedIsRead
CHECK_DEADLOCK FALSE
