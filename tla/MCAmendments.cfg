SPECIFICATION Spec
CONSTANTS
  payer = payer
  receiver = receiver
  Payer = payer
  Receiver = receiver
  Cards = {payer, receiver}
  InitialBalance <- MCBalance
  Amends = {a1, a2}
  Services = {"withdraw", "topup", "transaction", "transfer"}
  Amounts = {1, 2, 3}
SYMMETRY MCSymmetry
INVARIANTS OnlyBookedIsUndone AmendmentsAddUp
CHECK_DEADLOCK FALSE
