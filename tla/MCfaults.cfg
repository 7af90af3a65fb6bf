SPECIFICATION Spec
CONSTANTS
  Conns = {c1, c2}
  ServerName = Server
  Names = {Server, alice}
  NoName = NoName
  NoConn = NoConn
  Requests <- Anything
  Faults = {"close", "reset"}
  MaxSent = 2
SYMMETRY Interchangeable
INVARIANTS
  TypeOK
  DeliveredInOrder
  FarewellIsLast
  StoppedLeavesNoTrace
  DisplayNamesUnique
CHECK_DEADLOCK FALSE
