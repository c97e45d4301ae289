\* A legacy account of a multi-account database, one of its vaults shared with
\* it. Two password changes or sign-ins overlap and supersede one another while
\* the share may be revoked and the process may stop anywhere.
SPECIFICATION Spec
CONSTANTS
  Rekeyers = {t1, t2}
  Writers = {}
  Vaults = {v1, v2}
  SharedVaults = {v2}
  Passwords = {p1, p2, p3}
  Keys = {k1, k2, k3}
  None = None
  InitialFormat = "legacy"
  SingleAccount = FALSE
  MaxLogins = 1
  MaxTrashed = 0
  MaxFailures = 1
SYMMETRY Symmetry
INVARIANT EveryVaultOpens
