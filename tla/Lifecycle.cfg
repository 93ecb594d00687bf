SPECIFICATION FairSpec
CONSTANTS
  Sessions = {s1, s2}
  NoSession = NoSession
  OtherEntry = OtherEntry
INVARIANTS
  TypeOK
  CallbacksReachOwner
  OneGameInFront
PROPERTIES
  ImplementsCoreHost
  LeftSessionIsReleased
  LaunchResolves
