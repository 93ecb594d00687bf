CHECK_DEADLOCK FALSE
CONSTANTS
  Definitions <- MCDefinitions
  None = None
SPECIFICATION Spec
INVARIANT NoGameIsNotFollowed
