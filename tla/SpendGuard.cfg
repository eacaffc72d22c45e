SPECIFICATION Spec
CONSTANTS
  c1 = c1
  c2 = c2
  c3 = c3
  p1 = p1
  p2 = p2
  Procs = {p1, p2}
  Calls = {c1, c2, c3}
  Home <- MCHome
  Limit = 3
  Amounts = {2}
  Costs = {3}
  MaxMishaps = 1
SYMMETRY Symmetry
CHECK_DEADLOCK FALSE
INVARIANTS OutageBounded LedgerIsBill
PROPERTIES OvershootBounded
