SPECIFICATION LiveSpec
CONSTANTS
  Servers = {"n1", "n2"}
  Polls = {0, 2}
  UnlockedPoll = 1
  Interval <- Doubled
  RequestInterval = 3
  MaxAge = 5
  RxCap = 2
  U32 = 64
  SeventyYears = 40
  MillisPerSecond = 5
INVARIANTS
  TypeOK
  NoLostWakeup
  AsksConfiguredServer
  
  ReportedTimeIsSound
PROPERTY AsksAgain
