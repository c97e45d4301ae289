\* One save at a time, against the trash dialog, vault deletion, "empty trash"
\* and restarts.
SPECIFICATION Spec
CONSTANTS
  Vaults <- V12
  Owned <- V1
  Managed <- V2
  Secrets = {s1, s2}
  Texts = {a, b}
  Savers = {t1}
  Emptiers = {e1}
  None = None
SYMMETRY Symmetry
INVARIANT ReadableByVaultKey
PROPERTIES SavedIsStored SecretsKept
