SPECIFICATION FairSpec
CONSTANTS
  MaxPushes = 3
  MaxStops = 2
  Faults = {"redis", "endpoint", "crash", "url"}
  Disabled = FALSE
INVARIANTS
  TypeOK
  QueueIsBacklog
  AtMostThreeReceipts
  UntroubledExactlyOnce
PROPERTIES
  GivesUpAfterLastAttempt
  EveryMessageIsSettled
  ShutdownCompletes
  ChannelFairSpec
