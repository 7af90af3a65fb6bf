SPECIFICATION FairSpec
CONSTANTS
  p = p
  q = q
  none = none
  x = x
  y = y
  b = b
  blank = blank
  at = at
  elsewhere = elsewhere
  None = None
  Paths = {p, q, none}
  Places = {at, elsewhere}
  Names = {x, y, b, blank}
  Stored = {b, blank}
  Size <- Lengths
  Uploads <- Contested
  Downloads <- AndUploaded
  Window = 2
  MaxCommands = 3
  Sessions <- Sparing
INVARIANTS
  TypeOK
  AnnouncedIsComplete
  SavedIsComplete
  SentIsAccountedFor
PROPERTIES
  ImplementsArchive
  UploadCompletes
  DownloadCompletes
CHECK_DEADLOCK FALSE
