\* An account in the current format: one account key for good. Two threads
\* change the password or sign in while one writes, vaults go to the trash
\* and come back, storage fails once, the process stops anywhere.
SPECIFICATION Spec
CONSTANTS
  Rekeyers = {t1, t2}
  Writers = {w1}
  Vaults = {v1, v2}
  SharedVaults = {}
  Passwords = {p1, p2, p3}
  Keys = {k1, k2}
  None = None
  InitialFormat = "account"
  SingleAccount = TRUE
  MaxLogins = 2
  MaxTrashed = 1
  MaxFailures = 1
SYMMETRY Symmetry
INVARIANTS EveryVaultOpens OneAccountKey
PROPERTY AccessKept
