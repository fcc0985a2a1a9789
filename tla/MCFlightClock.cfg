\* The flight time against the clock; the bound on uptime ends every run.
CONSTANTS
  Second <- MCSecond
  StartDelay <- MCStartDelay
  PostPeriod <- MCPostPeriod
  SendPeriod <- MCSendPeriod
  MaxUptime <- MCMaxUptime
SPECIFICATION ClockSpec
INVARIANTS
  NeverAhead
  ClockIInv
PROPERTIES
  ResumesNoLower
