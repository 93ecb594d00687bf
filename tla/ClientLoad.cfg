SPECIFICATION Spec
CONSTANTS
    MaxLoads = 2
    MaxLogins = 1
    MaxChanges = 1
    Hashes = {h1, h2}
    Games = {g1}
    None = None
CHECK_DEADLOCK FALSE
INVARIANTS
    TypeOK
    OkIsFinal
    GameIsLatest
    ActiveHasSession
    UsesOnlyWhatIsThere
