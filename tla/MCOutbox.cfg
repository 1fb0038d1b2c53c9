SPECIFICATION OutboxFairSpec
CONSTANTS
  Events = {e1, e2}
  Routed = {e1}
  Publishers = {p1, p2}
  BatchSize = 2
  MaxAttempts = 3
  MaxCopies = 2
  Nothing = Nothing
INVARIANTS OutboxTypeOK PublishedIsLogged CopiesWithinBudget
PROPERTIES EventIsDelivered
CHECK_DEADLOCK FALSE
