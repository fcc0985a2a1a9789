\* Safety and liveness of the main loop.
CONSTANTS
  StartDelay <- MCStartDelay
  PostPeriod <- MCPostPeriod
  SendPeriod <- MCSendPeriod
SPECIFICATION FairSpec
INVARIANTS
  QueueBound
  IInv
PROPERTIES
  MessagesLeave
  BothTimersRun
