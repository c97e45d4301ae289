\* One password change of a legacy account that has a vault in the trash.
SPECIFICATION Spec
CONSTANTS
  Rekeyers = {t1}
  Writers = {}
  Vaults = {v1, v2}
  SharedVaults = {}
  Passwords = {p1, p2}
  Keys = {k1, k2, k3}
  None = None
  InitialFormat = "legacy"
  SingleAccount = TRUE
  MaxLogins = 1
  MaxTrashed = 1
  MaxFailures = 0
INVARIANT RekeyRewrapsEverything
