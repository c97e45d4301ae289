\* Two saves of the editor at once: one moves the secret, the other opened the
\* key of the vault it was in.
SPECIFICATION Spec
CONSTANTS
  Vaults <- V12
  Owned <- V12
  Managed = {}
  Secrets = {s1}
  Texts = {a}
  Savers = {t1, t2}
  Emptiers = {}
  None = None
INVARIANT ReadableByVaultKey
