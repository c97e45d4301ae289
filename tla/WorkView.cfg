SPECIFICATION FairSpec
CONSTANTS
    v1 = v1
    v2 = v2
    v3 = v3
    Vaults <- MCVaults
    Stored <- MCStored
    None = None
    Refreshes = {r1, r2}
    Loads = {l1, l2}
    Jobs = {j1}
    MaxInputs = 3
    MaxErrors = 1
INVARIANTS
    RowsOnce
    ListIsActive
PROPERTIES
    LoadingEnds
CHECK_DEADLOCK FALSE
