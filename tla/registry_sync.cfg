SPECIFICATION SyncFairSpec
CONSTANTS
    Catalog <- FiveTools
    Blank = ""
    MaxAttempts = 5
INVARIANTS SyncedIsStored StoredIsPrefix SyncStepsEnabled
PROPERTIES SyncEnds
CHECK_DEADLOCK FALSE
