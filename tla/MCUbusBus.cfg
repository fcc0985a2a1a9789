\* Methods and events against a ubusd that starts and ends at any time.
CONSTANTS
  m1 = m1
  m2 = m2
  e1 = e1
  e2 = e2
  Method <- MCMethod
  Event <- MCEvent
SPECIFICATION FairSpec
INVARIANTS
  Offered
PROPERTIES
  Connects
