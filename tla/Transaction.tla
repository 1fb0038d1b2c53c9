----------------------------- MODULE Transaction -----------------------------
(***************************************************************************)
(* service/transaction: Create, its compensation, the recovery worker and  *)
(* the trash operations.  A card pays a merchant: the merchant's card is   *)
(* looked up between the two legs, and again when the legs are reversed.   *)
(* A call is one invocation of Create; it inserts at most one row, so the  *)
(* row and its saldo operation ids are named by the call.                  *)
(***************************************************************************)
EXTENDS CommandState, CommandHandler

CONSTANTS
  MerchantCards,  \* cards the merchant's user may own at some time
  NoCard,         \* no merchant card resolved yet
  Amendable       \* rows an update may write its outcome on

ASSUME BodiesAssumption == Bodies \subseteq [card : Cards, amount : Int]
ASSUME BalanceAssumption == InitialBalance \in [Cards -> Nat]
ASSUME CardsAssumption == MerchantCards \subseteq Cards /\ NoCard \notin Cards
ASSUME AmendAssumption == Amendable \subseteq Calls

VARIABLES
  merchantCard,  \* the card each call resolved for the merchant
  stuck,         \* rows the recovery worker has listed, with the status read
  amended        \* history: rows on which an update has written its own status

own  == <<merchantCard, stuck, amended>>
vars == <<command, own>>

Places == {"create", "begin", "debit", "fail", "resolve", "credit", "quarantine",
           "settle", "compensate", "refund", "recall", "compDone", "compUnknown"}

Leg(c, name, card) ==
  IF name \in {"user-debit", "merchant-compensation"}
  THEN Debit(<<c, name>>, card, Body(c).amount)
  ELSE Credit(<<c, name>>, card, Body(c).amount)

Matches(c, from, to) == /\ CanTransition(from, to)
                        /\ status[c] = from
                        /\ c \notin trashed

\* GuardStatus and TransitionStatus: no row matches, the statement fails, or it
\* commits and its answer is lost - the handler sees the same.
GuardStatus(c, from, to, done, failed) ==
  \/ Matches(c, from, to) /\ SetStatus(c, to) /\ (Goto(c, done) \/ Goto(c, failed))
  \/ UNCHANGED status /\ Goto(c, failed)

(***************************************************************************)
(* Create, one action per remote call or statement.                        *)
(***************************************************************************)

\* Amount, merchant, card, balance and AI checks; a failed lookup refuses too.
Check(c) ==
  /\ pc[c] = "check"
  /\ \/ Goto(c, "release")
     \/ /\ Body(c).amount > 0 /\ balance[Body(c).card] >= Body(c).amount
        /\ Goto(c, "create")
  /\ UNCHANGED <<Others, own, status, ledger>>

CreateRow(c) ==
  /\ pc[c] = "create"
  /\ \/ SetStatus(c, "pending") /\ (Goto(c, "begin") \/ Goto(c, "release"))
     \/ UNCHANGED status /\ Goto(c, "release")
  /\ UNCHANGED <<Others, own, ledger>>

BeginProcessing(c) ==
  /\ pc[c] = "begin"
  /\ GuardStatus(c, "pending", "processing", "debit", "release")
  /\ UNCHANGED <<Others, own, ledger>>

DebitUser(c) ==
  /\ pc[c] = "debit"
  /\ Rpc(c, Leg(c, "user-debit", Body(c).card), "resolve", "fail")
  /\ UNCHANGED <<Others, own, status>>

MarkFailed(c) ==
  /\ pc[c] = "fail"
  /\ GuardStatus(c, "processing", "failed", "release", "release")
  /\ UNCHANGED <<Others, own, ledger>>

\* FindCardByUserId: one of the cards the merchant's user has at this moment.
ResolveMerchantCard(c) ==
  /\ pc[c] = "resolve"
  /\ \/ /\ \E card \in MerchantCards : merchantCard' = [merchantCard EXCEPT ![c] = card]
        /\ Goto(c, "credit")
     \/ Goto(c, "compensate") /\ UNCHANGED merchantCard
  /\ UNCHANGED <<Others, stuck, amended, status, ledger>>

CreditMerchant(c) ==
  /\ pc[c] = "credit"
  /\ Rpc(c, Leg(c, "merchant-credit", merchantCard[c]), "settle", "quarantine")
  /\ UNCHANGED <<Others, own, status>>

Quarantine(c) ==
  /\ pc[c] = "quarantine"
  /\ GuardStatus(c, "processing", "unknown", "release", "release")
  /\ UNCHANGED <<Others, own, ledger>>

Settle(c) ==
  /\ pc[c] = "settle"
  /\ GuardStatus(c, "processing", "success", "enqueue", "compensate")
  /\ UNCHANGED <<Others, own, ledger>>

(***************************************************************************)
(* compensateTransaction, entered after the merchant's card was not found  *)
(* or after both legs were booked.                                         *)
(***************************************************************************)

MerchantCredited(c) == merchantCard[c] # NoCard

\* Mutant: a failed success write releases the key like every other error.
ReleasesAlways(c) == "release"

\* Create sets the status that releases the key on every error but this one.
Exit(c) == IF MerchantCredited(c) THEN "error" ELSE "release"

\* Mutant: compensation goes on without winning the guarded transition.
StartCompensationAnyway(c) ==
  /\ pc[c] = "compensate"
  /\ GuardStatus(c, "processing", "compensating", "refund", "refund")
  /\ UNCHANGED <<Others, own, ledger>>

StartCompensation(c) ==
  /\ pc[c] = "compensate"
  /\ GuardStatus(c, "processing", "compensating", "refund", Exit(c))
  /\ UNCHANGED <<Others, own, ledger>>

\* Mutant: one leg is reversed although both were booked.
RefundUserOnly(c) ==
  /\ pc[c] = "refund"
  /\ Rpc(c, Leg(c, "user-compensation", Body(c).card), "compDone", "compUnknown")
  /\ UNCHANGED <<Others, own, status>>

RefundUser(c) ==
  /\ pc[c] = "refund"
  /\ Rpc(c, Leg(c, "user-compensation", Body(c).card),
         IF MerchantCredited(c) THEN "recall" ELSE "compDone", "compUnknown")
  /\ UNCHANGED <<Others, own, status>>

\* FindByMerchantId, FindCardByUserId once more, and the debit of that card.
DebitMerchant(c) ==
  /\ pc[c] = "recall"
  /\ \/ Goto(c, "compUnknown") /\ UNCHANGED ledger
     \/ \E card \in MerchantCards :
          Rpc(c, Leg(c, "merchant-compensation", card), "compDone", "compUnknown")
  /\ UNCHANGED <<Others, own, status>>

MarkCompensated(c) ==
  /\ pc[c] = "compDone"
  /\ GuardStatus(c, "compensating", "compensated", Exit(c), Exit(c))
  /\ UNCHANGED <<Others, own, ledger>>

QuarantineCompensation(c) ==
  /\ pc[c] = "compUnknown"
  /\ GuardStatus(c, "compensating", "unknown", Exit(c), Exit(c))
  /\ UNCHANGED <<Others, own, ledger>>

(***************************************************************************)
(* Recovery worker and operators.                                          *)
(***************************************************************************)

\* Mutant: the scan has no filter on the status.
ListEverything ==
  /\ stuck = {}
  /\ \E S \in SUBSET (Calls \ trashed) : stuck' = {<<c, status[c]>> : c \in S}
  /\ UNCHANGED <<Others, pc, merchantCard, amended, status, ledger>>

\* ListStuck: any of the recoverable rows, so any order, age and LIMIT.
ListStuck ==
  /\ stuck = {}
  /\ \E S \in SUBSET {c \in Calls : IsRecoverable(status[c]) /\ c \notin trashed} :
       stuck' = {<<c, status[c]>> : c \in S}
  /\ UNCHANGED <<Others, pc, merchantCard, amended, status, ledger>>

\* Mutant: the worker writes unknown whatever the row has become.
RecoverUnguarded(c, from) ==
  /\ <<c, from>> \in stuck
  /\ stuck' = stuck \ {<<c, from>>}
  /\ from # "unknown" /\ SetStatus(c, "unknown")
  /\ UNCHANGED <<Others, pc, merchantCard, amended, ledger>>

\* RecoverStuckOperations on one listed row: moved if it still has the status
\* read, skipped if it was unknown, has moved on or the statement failed.
Recover(c, from) ==
  /\ <<c, from>> \in stuck
  /\ stuck' = stuck \ {<<c, from>>}
  /\ \/ from # "unknown" /\ Matches(c, from, "unknown") /\ SetStatus(c, "unknown")
     \/ UNCHANGED status
  /\ UNCHANGED <<Others, pc, merchantCard, amended, ledger>>

(***************************************************************************)
(* Update writes its outcome with a statement that asks for no status the  *)
(* row must be in: any row that is there and not in the trash.             *)
(***************************************************************************)

Amend(c, s) ==
  /\ status[c] # "none" /\ c \notin trashed
  /\ SetStatus(c, s)
  /\ amended' = amended \cup {c}
  /\ UNCHANGED <<Others, pc, merchantCard, stuck, ledger>>

UpdateSucceeds(c) == Amend(c, "success")

\* Every error of an update ends here, in a goroutine of its own.
MarkTransactionAsFailed(c) == Amend(c, "failed")

-----------------------------------------------------------------------------

Init ==
  /\ CommandInit
  /\ merchantCard = [c \in Calls |-> NoCard]
  /\ stuck = {} /\ amended = {}

Create(c) ==
  \/ Check(c) \/ CreateRow(c) \/ BeginProcessing(c) \/ DebitUser(c) \/ MarkFailed(c)
  \/ ResolveMerchantCard(c) \/ CreditMerchant(c) \/ Quarantine(c) \/ Settle(c)
  \/ StartCompensation(c) \/ RefundUser(c) \/ DebitMerchant(c)
  \/ MarkCompensated(c) \/ QuarantineCompensation(c)

Next == \/ CommonStep /\ UNCHANGED own
        \/ \E c \in Calls : Create(c)
        \/ ListStuck
        \/ \E c \in Calls, s \in Statuses : Recover(c, s)
        \/ \E c \in Amendable : UpdateSucceeds(c) \/ MarkTransactionAsFailed(c)

Spec == Init /\ [][Next]_vars

(***************************************************************************)
(* Properties.                                                             *)
(***************************************************************************)

Legs(c, entries) == {e.op[2] : e \in {f \in entries : f.op[1] = c}}

\* The row is successful because Create made it so.
Succeeded(c) == status[c] = "success" /\ c \notin amended

\* Every variable keeps its type.
TypeOK ==
  /\ CommandTypeOK(Places, Statuses)
  /\ merchantCard \in [Calls -> MerchantCards \cup {NoCard}]
  /\ stuck \subseteq Calls \X Statuses
  /\ amended \subseteq Calls

\* Create announces success, by the row, the answer, an event or a stored response,
\* only when the user was debited and the merchant's card credited, and from
\* then on no reversal is booked or on its way, although the success write may
\* lose its answer and send the handler into the compensation.
SuccessIsSettled ==
  \A c \in Calls : (Told(c) \/ Succeeded(c)) =>
    /\ Legs(c, booked) = {"user-debit", "merchant-credit"}
    /\ Legs(c, inflight) = {}

\* A compensated row has every leg that was booked reversed, whichever of the
\* two ways led into the compensation, and nothing more can arrive.
CompensatedIsReversed ==
  \A c \in Calls : status[c] = "compensated" =>
    /\ Legs(c, booked) \in {{"user-debit", "user-compensation"},
                            {"user-debit", "merchant-credit",
                             "user-compensation", "merchant-compensation"}}
    /\ Legs(c, inflight) = {}

\* What an update wrote on a row is not taken back by the handler or the
\* compensation that was still at work on it, nor by the worker that had listed
\* the row before: only another update or a deletion changes it.
AmendmentStands == \A c \in amended : status[c] \in {"success", "failed", "none"}

\* Two calls under one key never both succeed unless 24 hours went by since one
\* of them claimed it.  It holds because a success write that lost its answer
\* leaves the key claimed: releasing it there, as on every other error, lets the
\* retry pay a second time for a successful row.
OneSuccessPerKey ==
  \A c, d \in Calls : c # d /\ Key(c) = Key(d) /\ Key(c) # NoKey =>
    (Succeeded(c) /\ Succeeded(d) => c \in lapsed \/ d \in lapsed)

(***************************************************************************)
(* What outsiders may rely on, as an abstract specification.               *)
(***************************************************************************)

\* The status an update wrote is about the update.
VerdictOf(s) == CASE s = "success"     -> "settled"
                  [] s = "failed"      -> "refused"
                  [] s = "compensated" -> "reversed"
                  [] s = "unknown"     -> "doubt"
                  [] OTHER             -> "open"
Verdict  == [c \in Calls |-> IF c \in amended THEN "open" ELSE VerdictOf(status[c])]
PaidLegs == [c \in Calls |-> Legs(c, booked)]

Promise == INSTANCE PaymentPromise WITH booked <- PaidLegs, verdict <- Verdict

\* Create with its failures, late bookings, recovery, trash operations and
\* updates of its rows implements PaymentPromise.
KeepsPromise == Promise!Spec
=============================================================================
