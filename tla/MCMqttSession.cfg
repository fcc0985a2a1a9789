\* Safety and liveness of the session and of the shared device id.
CONSTANTS
  Msg <- MCMsg
  MaxOut <- MCMaxOut
SPECIFICATION FairSpec
INVARIANTS
  FlagSound
  NameWhole
  ConfiguredFirst
  SubscribedAgain
  IInv
PROPERTIES
  IdNeverLost
  FlagFalls
  SubscriptionFollows
