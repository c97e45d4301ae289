\* A user with two vaults and something in the trash of the second one.
SPECIFICATION Spec
CONSTANTS
  Vaults <- V12
  Owned <- V12
  Managed = {}
  Secrets = {s1, s2}
  Texts = {a}
  Savers = {}
  Emptiers = {e1}
  None = None
PROPERTY EmptiesTrash
