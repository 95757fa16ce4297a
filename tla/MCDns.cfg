SPECIFICATION LiveSpec
CONSTANTS
  Servers = {"s1", "s2"}
  Names <- MCNames
  IdOf <- MCIdOf
  Askable <- MCAskable
  Replies <- MCReplies
  Parsed <- MCParsed
  Said <- MCSaid
  AliasData <- ShortAlias
  RxCap = 2
  Ids <- MCIds
  Ips <- MCIps
  Size = 2
  MaxLife = 1
  Second = 2
  U32 = 5
  MaxLabel = 2
  NoAnswer = NoAnswer
INVARIANTS
  TypeOK
  NoLostWakeup
  IdsAreRemainders
  NeighboursKeptApart
PROPERTIES
  KeepsCachePromise
  CachesWhatWasSaid
  Resolves
