SPECIFICATION FairSpec
CONSTANTS
    None = None
    Fetches = {f1}
    Scans = {s1, s2}
    MaxCopies = 2
    MaxInputs = 3
    MaxMutations = 1
    MaxErrors = 1
INVARIANTS
    ServedIsTimed
    LockedServesNothing
    ReportFresh
PROPERTIES
    CopiesExpire
CHECK_DEADLOCK FALSE
