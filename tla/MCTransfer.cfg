SPECIFICATION Spec
CONSTANTS
  a = a
  b = b
  Calls = {c1, c2}
  Keys = {k1}
  NoKey = NoKey
  NoRecord = NoRecord
  Cards = {a, b}
  Bodies <- MCBodies
  InitialBalance <- MCBalance
  EventTypes = {"stats"}
  MaxRows = 2
  Trashable = {}
  Expiring = {k1}
  Amendable = {}
SYMMETRY CallSymmetry
INVARIANTS TypeOK SuccessIsSettled CompensatedIsReversed PendingMovesNothing
           NoOverdraft ExclusiveKey MoneyConserved
PROPERTIES KeepsPromise
