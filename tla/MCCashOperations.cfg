SPECIFICATION Spec
CONSTANTS
  card = card
  Calls = {c1, c2}
  Keys = {k1}
  NoKey = NoKey
  NoRecord = NoRecord
  Cards = {card}
  Bodies <- MCBodies
  InitialBalance <- MCBalance
  EventTypes = {"stats"}
  Trashable = {c1, c2}
  Expiring = {c1, c2}
  DailyLimit = 4
SYMMETRY MCSymmetry
INVARIANTS TypeOK AllOrNothing ToldIsBooked FailedHasNoLateDebit LimitExceededOnlyByRaces
CHECK_DEADLOCK FALSE
