SPECIFICATION Spec
CONSTANTS
  Capacity = 4
  MaxBatch = 2
  MaxRead = 2
  MaxFrames = 8
INVARIANTS
  TypeOK
  NoStaleAudio
  AudioInOrder
CHECK_DEADLOCK FALSE
