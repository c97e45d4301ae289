\* The flag that a refresh is under way: a refresh that fails leaves it up.
SPECIFICATION Spec
CONSTANTS
    v1 = v1
    v2 = v2
    v3 = v3
    Vaults <- MCVaults
    Stored <- MCStored
    None = None
    Refreshes = {r1, r2}
    Loads = {l1, l2}
    Jobs = {j1}
    MaxInputs = 2
    MaxErrors = 1
INVARIANTS
    FlagMeansRefresh
CHECK_DEADLOCK FALSE
