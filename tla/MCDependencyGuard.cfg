SPECIFICATION Spec
CONSTANTS
  Callers = {c1, c2, c3}
  Threshold = 2
  HalfOpenMax = 2
  MaxConcurrent = 2
INVARIANTS TypeOK
PROPERTIES RecoveredIsClosed
