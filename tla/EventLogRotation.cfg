SPECIFICATION MCSpec
CONSTANTS
  Backups    = 2
  Capacity   = 1
  MaxRecords = 4
  Kinds      = {"attack", "lifecycle"}
  Readers    = {r1}
  Clearers   = {c1}
  Faults     = {"kill", "io"}
  None       = None
  Hour         = 2
  Hours        = 3
  DefaultLimit = 2
  MaxLimit     = 2
  Histories    <- MCHistories
  Limits       = {0, 1, 9}
  Filters      = {"", "all", "ssh"}
  Searches     = {"", "y"}
  Now          = 0
INVARIANTS
  TypeOK
  ClearForgets
  NoDuplicates
  SettledAreSeen
  NothingElseIsLost
  BarsAreTheDay
  NothingNewerIsLeftOut
