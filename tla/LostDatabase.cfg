\* A stop between the two renames, a new first account, another restore: the promotion
\* keeps the database it finds under the name, not the last one with data.
SPECIFICATION Spec
CONSTANTS
  Exporters = {e1}
  Restorers = {r1}
  Targets = {f1}
  Phrases = {p1, p2}
  Passwords = {x1, x2}
  Formats = {"legacy", "account"}
  None = None
  Empty = Empty
  Torn = Torn
  MaxWrites = 1
  MaxStops = 1
  MaxFailures = 0
SYMMETRY Symmetry
INVARIANT LastDataKept
