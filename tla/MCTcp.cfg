SPECIFICATION LiveSpec
CONSTANTS
  Backoff = 1
  MaxAge = 3
  PortMod = 3
INVARIANTS
  TypeOK
  ConnectionIsAnnounced
PROPERTIES
  AnnouncedOnce
  Reconnects
