SPECIFICATION Spec
CONSTANTS
  RingSize = 6
  PtrMod = 12
  WriteSizes = {1, 2, 4}
  MaxPending = 6
  MaxFlights = 3
INVARIANTS
  TypeOK
  SentIsWritten
  OffsetIsPending
