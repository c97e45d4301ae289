\* Two password changes of a legacy account at once.
SPECIFICATION Spec
CONSTANTS
  Rekeyers = {t1, t2}
  Writers = {}
  Vaults = {v1, v2}
  SharedVaults = {}
  Passwords = {p1, p2, p3}
  Keys = {k1, k2, k3}
  None = None
  InitialFormat = "legacy"
  SingleAccount = FALSE
  MaxLogins = 1
  MaxTrashed = 0
  MaxFailures = 0
INVARIANT DeliveredKeyOpensVaults
