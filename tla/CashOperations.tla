--------------------------- MODULE CashOperations ---------------------------
(***************************************************************************)
(* Withdrawals and top-ups of the same cards, side by side: two services   *)
(* with tables and idempotency records of their own, one saldo service.    *)
(***************************************************************************)
EXTENDS Withdraw, Topup

ASSUME CashAssumption ==
  /\ Bodies \subseteq [kind : {"withdraw", "topup"}, card : Cards, amount : Int, time : Nat]
  /\ InitialBalance \in [Cards -> Nat] /\ DailyLimit \in Nat
  /\ Calls \cap Bodies = {}   \* operation ids tell a topup from a withdrawal

vars == <<command, counted, marks>>

\* Each service has its own idempotency table.
KeysAreScoped == \A c, d \in Calls :
  Key(c) = Key(d) /\ Key(c) # NoKey => Body(c).kind = Body(d).kind

Init == CommandInit /\ KeysAreScoped /\ WithdrawInit /\ TopupInit

Next == \/ CommonStep /\ UNCHANGED <<counted, marks>>
        \/ \E c \in Calls : \/ WithdrawStep(c) /\ UNCHANGED marks
                            \/ TopupStep(c) /\ UNCHANGED counted

Spec == Init /\ [][Next]_vars

(***************************************************************************)
(* Properties.                                                             *)
(***************************************************************************)

OpOwner(c) == IF c \in Withdrawals THEN Body(c) ELSE c

Entries(c, set) == {e \in set : e.op[1] = OpOwner(c)}

Moved(c) == SumFunctionOnSet([e \in booked |-> e.amount], Entries(c, booked))

Effect(c) == IF c \in Withdrawals THEN -Body(c).amount ELSE Body(c).amount

\* No other withdrawal shares the operation ids.
Alone(c) == c \in Withdrawals =>
              \A d \in Withdrawals \ {c} : Body(d) # Body(c)

\* Every variable keeps its type.
TypeOK ==
  /\ CommandTypeOK(WithdrawPlaces \cup TopupPlaces, {"pending", "success", "failed"})
  /\ counted \in [Calls -> SUBSET Calls]
  /\ marks \subseteq Calls

\* A call moves its whole amount once or nothing, whatever failed, was late or
\* was undone: a refund is only ever asked for after the leg it undoes.
AllOrNothing == \A c \in Calls : Alone(c) => Moved(c) \in {0, Effect(c)}

\* Success is announced only while the amount is booked, and no refund of it is
\* booked or on its way, although the success write may lose its answer.
ToldIsBooked ==
  \A c \in Calls : Told(c) /\ Alone(c) =>
    Moved(c) = Effect(c) /\ Entries(c, inflight) = {}

\* A row marked failed, or about to be, has no debit under way: the credit was
\* taken back for certain, or was never answered.
FailedHasNoLateDebit ==
  \A c \in Topups : c \in marks \/ status[c] = "failed" =>
    \A e \in Entries(c, inflight) : e.amount > 0

\* The daily limit is exceeded only by calls that overlapped: withdrawals of
\* which every two were checked one after the other stay within it.
LimitExceededOnlyByRaces ==
  \A S \in SUBSET {c \in Withdrawals : status[c] = "success"} :
    (\A c, d \in S : c # d => /\ Body(c).card = Body(d).card
                              /\ c \in counted[d] \/ d \in counted[c])
    => Total(S) <= DailyLimit
=============================================================================
