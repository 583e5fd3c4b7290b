SPECIFICATION Spec
CONSTANTS
  Pushers = {p1, p2}
  Checking = {c1}
  Trusting = {c2}
  Nodes = {n1, n2, n3}
  Null = Null
  Count = 2
SYMMETRY Symmetry
INVARIANTS
  Consistent
  ReclamationSafe
PROPERTIES
  LastInFirstOut
\* The program ends, by its own means or not.
CHECK_DEADLOCK FALSE
