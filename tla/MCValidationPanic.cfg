SPECIFICATION Spec
CONSTANTS
  g1 = g1
  g2 = g2
  Gateways = {g1, g2}
  Requests = {r1, r2}
  Subjects = {s1, s2}
  Home <- MCHome
  MaxTakes = 2
  Nothing = Nothing
SYMMETRY MCSymmetry
INVARIANT ClosedIsDropped
CHECK_DEADLOCK FALSE
