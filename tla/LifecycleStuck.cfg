SPECIFICATION Spec
CONSTANTS
  Sessions = {s1}
  NoSession = NoSession
  OtherEntry = OtherEntry
PROPERTIES
  StuckSessionIsLeftAlone
