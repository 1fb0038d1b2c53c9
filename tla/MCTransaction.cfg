SPECIFICATION MCSpec
CONSTANTS
  u = u
  m1 = m1
  m2 = m2
  Calls = {c1, c2}
  Keys = {k1}
  NoKey = NoKey
  NoRecord = NoRecord
  Cards = {u, m1, m2}
  Bodies <- MCBodies
  InitialBalance <- MCBalance
  MerchantCards = {m1, m2}
  NoCard = NoCard
  EventTypes = {"stats"}
  Trashable = {c1}
  Expiring = {c1, c2}
  Amendable = {c1}
SYMMETRY MCSymmetry
INVARIANTS TypeOK SuccessIsSettled CompensatedIsReversed OneSuccessPerKey
           AmendmentStands

