\* The process ends at the misuse that ClientUnloadedMastery.cfg shows: no step follows it.
CHECK_DEADLOCK FALSE
CONSTANTS
  Definitions <- MCDefinitions
  None = None
SPECIFICATION Spec
INVARIANTS
  TypeOK
  OnScreen
  ActiveAsPlayed
  DisconnectFollows
  HardcoreStartsClean
  ListsAreComplete
