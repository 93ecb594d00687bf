SPECIFICATION FairSpec
CONSTANTS
  Sessions = {s1}
  NoSession = NoSession
  Commands = {save, load}
  NoCommand = NoCommand
  MaxStarts = 3
PROPERTIES
  CommandIsTaken
