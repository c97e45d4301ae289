\* What surrounds the vaults: the discovery of releases, the check of a URL, the
\* import of a CSV file, the profile page, access to vaults.  Each is explored alone.
SPECIFICATION MCSpec
CONSTANTS
    Unset = Unset
    Nothing = Nothing
    Pending = Pending
    Torn = Torn
    Tags = {"old", "new", "other"}
    Stable = {"old", "new"}
    Newer = {"new"}
    Day = 2
    MaxTime = 3
    MaxChanges = 3
    MaxFaults = 2
    Addresses <- SomeAddresses
    Lookups <- SomeLookups
    Texts <- SomeTexts
    MAX_DNS_RESULTS = 3
    MAX_CONNECT_ATTEMPTS = 2
    MaxEdits = 2
    MaxChecks = 2
    Files <- SomeFiles
    Jobs = {1, 2}
    MAX_CSV_ROWS = 3
    MaxStarts = 2
    MaxRewrites = 1
    Names = {"n1", "n2"}
    Emails = {"e1", "e2"}
    Languages = {"fr", "en"}
    Saves = {1, 2}
    Empty = Empty
    MaxInputs = 3
    MaxErrors = 1
    Secrets = {"s1", "s2", "s3"}
    Calls = {1, 2}
    NoSecret = NoSecret
    MaxPresses = 5
    People = {"p1", "p2"}
    Vaults = {"v1"}
    Teams = {"t1"}
    Requests = {"c1", "c2"}
    NoRow = NoRow
    MaxGrants = 2
INVARIANTS
    ChecksTrue
    AddsUp
    AccountEarned
    PageTrue
PROPERTIES
    AutomaticEarned
    CloseWaits
    ProfileEnds
CHECK_DEADLOCK FALSE
