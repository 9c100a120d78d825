\* Two authorizations, two grants with one refresh each, three processes.
SPECIFICATION Spec
CONSTANTS
  States = {s1, s2}
  Grants = {g1, g2}
  MaxGen = 1
  Procs = {p1, p2, p3}
  None = None
SYMMETRY Symmetry
INVARIANTS ExchangedOnce
PROPERTIES OnlyReadersBeforeRestore
CHECK_DEADLOCK FALSE
