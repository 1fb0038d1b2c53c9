SPECIFICATION FairSpec
CONSTANTS
  k1 = k1
  o1 = o1
  Cards = {k1}
  MaxSaldos = 2
  Calls = {c1, c2}
  Operations = {o1}
  Requests <- MCRequests
  Openings = {2}
  NoMutation = NoMutation
  NoCard = NoCard
  Batch = 2
INVARIANTS TypeOK UniqueOperation AnswersMatchLedger
PROPERTIES RequestsKeepTheBooks MismatchIsQueued
