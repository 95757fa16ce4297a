SPECIFICATION Spec
CONSTANTS
  s1 = s1
  s2 = s2
  Servers = {s1, s2}
  None = None
  Broadcast = Broadcast
  InitialXids = {0, 1}
  XidMod = 2
  U32 = 100
  MsPerSec = 1
  DiscoverInterval = 0
  RequestRetry = 0
  RequestTimeout = 1
  DefaultLease = 4
  RecvReasserts = {TRUE, FALSE}
  NetCap = 1
  LeaseTimes = {3}
  ForeignTraffic = TRUE
  RxCap = 2
  DownCap = 1
SYMMETRY ServerSymmetry
INVARIANTS
  TypeOK
  AddressMatchesPhase
  AddressGranted
  RequestsWhatWasOffered
  
  FateIsSealed
  
  
  PacketsAreLegal
PROPERTIES
  LeaseFromThisAttempt
  KeepsPromise
