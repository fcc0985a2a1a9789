\* Ownership, atomicity and termination of one ubus getter.
CONSTANTS
  Value <- MCValue
  None = None
  Missing = Missing
  Wrong = Wrong
  MaxCalls <- MCMaxCalls
  MaxIds <- MCMaxIds
  MaxWire <- MCMaxWire
SPECIFICATION FairSpec
INVARIANTS
  Ownership
  IInv
PROPERTIES
  ImplementsGetter
  CallReturns
