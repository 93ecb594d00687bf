SPECIFICATION Spec
CONSTANTS
  Sessions = {s1, s2}
  NoSession = NoSession
  Commands = {save}
  NoCommand = NoCommand
  MaxStarts = 1
SYMMETRY SessionSymmetry
INVARIANTS
  TypeOK
  GameNeverStuckPaused
  AudioComesBack
  PausedCoreStops
