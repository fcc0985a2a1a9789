\* The process as a whole: its messages, and what it implements.
CONSTANTS
  StartDelay <- MCStartDelay
  PostPeriod <- MCPostPeriod
  SendPeriod <- MCSendPeriod
  MaxMsgs <- MCMaxMsgs
SPECIFICATION Spec
INVARIANTS
  NewestOnly
  IdsImprove
  IdsWhole
PROPERTIES
  ImplementsChannel
  ImplementsBeat
  ImplementsSession
