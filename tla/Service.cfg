SPECIFICATION ServiceSpec
CONSTANTS
    MaxLoads = 1
    MaxLogins = 1
    MaxChanges = 0
    Hashes = {h1, h2}
      Games = {g1}
    None = None
CHECK_DEADLOCK FALSE
INVARIANTS
    StateFollowsClient
    NoneAfterDestroy
PROPERTIES
    Settles
