\* One export and one restore at a time, a stop and a storage error anywhere.
SPECIFICATION Spec
CONSTANTS
  Exporters = {e1}
  Restorers = {r1}
  Targets = {f1}
  Phrases = {p1, p2}
  Passwords = {x1, x2}
  Formats = {"legacy", "account"}
  None = None
  Empty = Empty
  Torn = Torn
  MaxWrites = 1
  MaxStops = 1
  MaxFailures = 1
SYMMETRY Symmetry
INVARIANTS ServedIsWhole BackupRestorable RestoredOpens WayBackKept
