------------------------------ MODULE Withdraw ------------------------------
(***************************************************************************)
(* service/withdraw: Create.  The card is debited before the row exists,   *)
(* under an operation id made of the card, the time and the amount of the  *)
(* request; a row that cannot be written or settled refunds the debit.     *)
(* Today's limit is a sum over the rows, read before the debit.            *)
(***************************************************************************)
EXTENDS CommandHandler, Functions

CONSTANT DailyLimit   \* WITHDRAW_DAILY_LIMIT, with every call made on one day

VARIABLE counted   \* the rows each call's limit check summed up

Withdrawals == {c \in Calls : Body(c).kind = "withdraw"}

WithdrawPlaces == {"limit", "debit", "insert", "undoInsert", "settle", "undoSettle"}

\* Calls with the same card, time and amount share their operation ids.
WithdrawOp(c, name) == <<Body(c), name>>

Total(S) == SumFunctionOnSet([c \in Calls |-> Body(c).amount], S)

\* An update that only asks for a row that is not trashed; a committed one
\* whose answer is lost looks like a failed one.
WriteStatus(c, s, done, failed) ==
  \/ /\ status[c] # "none" /\ c \notin trashed
     /\ SetStatus(c, s)
     /\ Goto(c, done) \/ Goto(c, failed)
  \/ UNCHANGED status /\ Goto(c, failed)

\* Amount, card, owner and balance.
CheckWithdraw(c) ==
  /\ pc[c] = "check" /\ c \in Withdrawals
  /\ \/ Goto(c, "release")
     \/ /\ Body(c).amount > 0 /\ balance[Body(c).card] >= Body(c).amount
        /\ Goto(c, "limit")
  /\ UNCHANGED <<Others, status, ledger, counted>>

CountsToday(c) == {d \in Withdrawals : /\ status[d] = "success" /\ d \notin trashed
                                       /\ Body(d).card = Body(c).card}

\* Mutant: the sum is compared without the amount that is asked for.
ForgetsAmount(c, today) == Total(today) <= DailyLimit

WithinLimit(c, today) == Total(today) + Body(c).amount <= DailyLimit

\* The daily limit and the AI verdict, which may refuse anything.
CheckLimit(c) ==
  /\ pc[c] = "limit"
  /\ \/ Goto(c, "release") /\ UNCHANGED counted
     \/ /\ WithinLimit(c, CountsToday(c))
        /\ counted' = [counted EXCEPT ![c] = CountsToday(c)]
        /\ Goto(c, "debit")
  /\ UNCHANGED <<Others, status, ledger>>

DebitCard(c) ==
  /\ pc[c] = "debit"
  /\ Rpc(c, Debit(WithdrawOp(c, "debit"), Body(c).card, Body(c).amount), "insert", "release")
  /\ UNCHANGED <<Others, status, counted>>

InsertWithdraw(c) ==
  /\ pc[c] = "insert"
  /\ \/ SetStatus(c, "pending") /\ (Goto(c, "settle") \/ Goto(c, "undoInsert"))
     \/ UNCHANGED status /\ Goto(c, "undoInsert")
  /\ UNCHANGED <<Others, ledger, counted>>

SettleWithdraw(c) ==
  /\ pc[c] = "settle"
  /\ WriteStatus(c, "success", "enqueue", "undoSettle")
  /\ UNCHANGED <<Others, ledger, counted>>

\* Refund(c, name): the outcome changes only what is logged.
Refund(c, name) ==
  Rpc(c, Credit(WithdrawOp(c, name), Body(c).card, Body(c).amount), "release", "release")

UndoInsert(c) ==
  /\ pc[c] = "undoInsert"
  /\ Refund(c, "rollback-create")
  /\ UNCHANGED <<Others, status, counted>>

\* Mutant: the refund is issued but the handler goes on to the answer.
RefundsAndGoesOn(c) ==
  /\ pc[c] = "undoSettle"
  /\ Rpc(c, Credit(WithdrawOp(c, "rollback-status"), Body(c).card, Body(c).amount),
         "enqueue", "enqueue")
  /\ UNCHANGED <<Others, status, counted>>

UndoSettle(c) ==
  /\ pc[c] = "undoSettle"
  /\ Refund(c, "rollback-status")
  /\ UNCHANGED <<Others, status, counted>>

WithdrawStep(c) ==
  \/ CheckWithdraw(c) \/ CheckLimit(c) \/ DebitCard(c) \/ InsertWithdraw(c)
  \/ SettleWithdraw(c) \/ UndoInsert(c) \/ UndoSettle(c)

WithdrawInit == counted = [c \in Calls |-> {}]
=============================================================================
