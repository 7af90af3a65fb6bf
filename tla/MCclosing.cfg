SPECIFICATION FairSpec
CONSTANTS
  Conns = {c1, c2}
  ServerName = Server
  Names = {Server}
  NoName = NoName
  NoConn = NoConn
  Requests <- Talk
  Faults = {"close"}
  MaxSent = 2
PROPERTIES
  BroadcastIsServed
  ClosedIsForgotten
CHECK_DEADLOCK FALSE
