SPECIFICATION Spec
CONSTANTS
  RingSize = 8
  PtrMod = 16
  HeaderSize = 2
  Payloads = {0, 1, 3}
INVARIANTS
  TypeOK
  RemainingIsTrue
  ReadsHeaders
  HasPacketExact
PROPERTY IsQueue
