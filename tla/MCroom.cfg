SPECIFICATION Spec
CONSTANTS
  Conns = {c1, c2, c3}
  ServerName = Server
  Names = {Server}
  NoName = NoName
  NoConn = NoConn
  Requests <- Talk
  Faults = {}
  MaxSent = 3
SYMMETRY Interchangeable
INVARIANTS
  NoBroadcastMissed
PROPERTIES
  ImplementsRoom
CHECK_DEADLOCK FALSE
