SPECIFICATION LiveSpec
CONSTANTS
  s1 = s1
  s2 = s2
  Servers = {s1}
  None = None
  Broadcast = Broadcast
  InitialXids = {0}
  XidMod = 1
  U32 = 3
  MsPerSec = 1
  DiscoverInterval = 0
  RequestRetry = 0
  RequestTimeout = 1
  DefaultLease = 4
  RecvReasserts = {TRUE, FALSE}
  NetCap = 1
  LeaseTimes = {0, 3}
  ForeignTraffic = FALSE
  RxCap = 2
  DownCap = 1
PROPERTIES
  PhasesEnd
  DiscoveryEnds
