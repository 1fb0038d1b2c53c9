SPECIFICATION Spec
CONSTANTS
  a = a
  b = b
  Calls = {c1, c2}
  Keys = {k1}
  NoKey = NoKey
  NoRecord = NoRecord
  Cards = {a, b}
  Bodies <- MCSmall
  InitialBalance <- MCBalance
  EventTypes = {}
  MaxRows = 2
  Trashable = {}
  Expiring = {}
  Amendable = {}
INVARIANTS KeyMovesMoneyOnce
