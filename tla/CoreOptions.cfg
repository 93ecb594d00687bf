SPECIFICATION Spec
CONSTANTS
  MaxKeys = 2
  Tokens = 2
  Torn = Torn
  MaxBlocks = 2
INVARIANTS
  TypeOK
  CoreSeesValues
  SavedMatchesValues
  RowsCatchUp
