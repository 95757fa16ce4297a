SPECIFICATION Spec
CONSTANTS
  Servers = {"s1"}
  Names <- MCNames
  IdOf <- MCIdOf
  Askable <- MCAskable
  Replies <- MCReplies
  Parsed <- MCParsed
  Said <- MCSaid
  AliasData <- LongAlias
  RxCap = 2
  Ids <- MCIds
  Ips <- MCIps
  Size = 2
  MaxLife = 1
  Second = 2
  U32 = 5
  MaxLabel = 2
  NoAnswer = NoAnswer
PROPERTY CachesWhatWasSaid
