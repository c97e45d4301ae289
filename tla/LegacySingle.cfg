\* The only account of a database, in the legacy format: one login or
\* password change at a time, no failure, the process stops anywhere.
SPECIFICATION FairSpec
CONSTANTS
  Rekeyers = {t1}
  Writers = {}
  Vaults = {v1, v2}
  SharedVaults = {}
  Passwords = {p1, p2}
  Keys = {k1, k2, k3}
  None = None
  InitialFormat = "legacy"
  SingleAccount = TRUE
  MaxLogins = 1
  MaxTrashed = 0
  MaxFailures = 0
INVARIANT SettledAtRest
PROPERTY RekeyEnds
