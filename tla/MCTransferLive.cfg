SPECIFICATION FairSpec
CONSTANTS
  a = a
  b = b
  Calls = {c1, c2}
  Keys = {}
  NoKey = NoKey
  NoRecord = NoRecord
  Cards = {a, b}
  Bodies <- MCBody
  InitialBalance <- MCBalance
  EventTypes = {}
  MaxRows = 2
  Trashable = {c1}
  Expiring = {}
  Amendable = {c1}
INVARIANTS SuccessIsSettled CompensatedIsReversed AmendmentStands
PROPERTIES KeepsPromise StuckRowsAreRecovered
