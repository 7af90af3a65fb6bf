SPECIFICATION Spec
CONSTANTS
  p = p
  q = q
  none = none
  x = x
  y = y
  b = b
  blank = blank
  at = at
  elsewhere = elsewhere
  None = None
  Paths = {p}
  Places = {at}
  Names = {b, x}
  Stored = {b}
  Size <- Lengths
  Uploads <- OneUpload
  Downloads <- OneDownload
  Window = 2
  MaxCommands = 2
  Sessions <- AtWill
INVARIANTS
  TransfersAreSeparate
CHECK_DEADLOCK FALSE
