----------------------------- MODULE Amendments -----------------------------
(***************************************************************************)
(* The update handlers of the withdraw, topup, transaction and transfer    *)
(* services.  Each reads the old amount of a row, books the difference (a  *)
(* transaction reverses the old amount and books the new one), writes the  *)
(* row and then the status success, and tries to undo what it booked when  *)
(* a later step fails.  A topup writes the row first.  No status is asked  *)
(* for, nothing is locked between the read and the writes, and there is no *)
(* idempotency key: the saldo operation ids are made of the row and the    *)
(* new amount, of a topup only of the row.                                 *)
(* The amendments of one row are modelled, by whichever service owns it.   *)
(***************************************************************************)
EXTENDS SaldoClient, Sequences, Functions

CONSTANTS
  Amends,          \* invocations of the update handler
  Services,        \* the services whose row may be amended
  Amounts,         \* amounts a row can have
  Payer, Receiver  \* the row's cards; only a transfer moves money to the second

ASSUME AmendAssumption ==
  /\ Services \subseteq {"withdraw", "topup", "transaction", "transfer"}
  /\ Amounts \subseteq Nat \ {0}
  /\ {Payer, Receiver} \subseteq Cards /\ Payer # Receiver
  /\ InitialBalance \in [Cards -> Nat]

VARIABLES
  service,   \* which service the row belongs to
  target,    \* the amount each amendment asks for
  original,  \* the amount the row was created with
  amount,    \* the row's amount
  status,    \* the row's status, "gone" once it is deleted
  trashed,   \* the row's deleted_at is set
  pc,        \* where each amendment's handler is
  old,       \* the amount each amendment read
  done,      \* how many of its legs each amendment has booked and not undone
  marks      \* mark-as-failed goroutines that have not run yet

row  == <<amount, status, trashed>>
vars == <<service, target, original, row, pc, old, done, marks, ledger>>

Places == {"idle", "legs", "row", "status", "undoLeg", "undoRow", "undoStatus",
           "restore", "mark"}
Over   == {"ok", "error", "crashed"}

Goto(a, place) == pc' = [pc EXCEPT ![a] = place]

Active == ~trashed /\ status # "gone"

\* What an operation id is made of besides the row, the card and the direction.
Name(a) == IF service = "topup" THEN 0 ELSE target[a]

Diff(a) == target[a] - old[a]

\* The bookings of an amendment, in order.
Legs(a) ==
  LET n == Diff(a)
      Leg(card, m) == Credit(<<Name(a), "book">>, card, m)
  IN CASE service = "transaction" -> <<Leg(Payer, old[a]), Leg(Payer, -target[a])>>
       [] service # "transaction" /\ n = 0 -> <<>>
       [] service = "withdraw" /\ n # 0 -> <<Leg(Payer, -n)>>
       [] service = "topup" /\ n # 0 -> <<Leg(Payer, n)>>
       [] service = "transfer" /\ n # 0 -> <<Leg(Payer, -n), Leg(Receiver, n)>>

\* The booking that reverses a leg; a withdrawal has one for each failed step.
Undo(a, e) ==
  [op     |-> <<Name(a), IF service = "withdraw" THEN pc[a] ELSE "undo">>,
   card   |-> e.card,
   amount |-> -e.amount]

RowFirst == service = "topup"

\* Where a handler goes once n of its legs are booked.
AfterLegs(a, n) == IF n < Len(Legs(a)) THEN "legs"
                   ELSE IF RowFirst THEN "status" ELSE "row"

\* Mutant: the row is read again after it was written.
ReadsNewAmount(a) == IF RowFirst THEN target[a] ELSE amount

OldAmount(a) == amount

\* The row is found and the lookups, the balance check and the daily limit let
\* the amendment pass, or it is marked failed; an invalid amount only refused.
Read(a) ==
  /\ pc[a] = "idle"
  /\ \/ /\ Active
        /\ old' = [old EXCEPT ![a] = OldAmount(a)]
        /\ Goto(a, IF RowFirst THEN "row" ELSE "legs")
     \/ UNCHANGED old /\ (Goto(a, "mark") \/ Goto(a, "error"))
  /\ UNCHANGED <<service, target, original, row, done, marks, ledger>>

BookLeg(a) ==
  /\ pc[a] = "legs" /\ done[a] < Len(Legs(a))
  /\ \/ /\ Succeeds(Legs(a)[done[a] + 1])
        /\ done' = [done EXCEPT ![a] = @ + 1]
        /\ Goto(a, AfterLegs(a, done[a] + 1))
     \/ /\ Fails(Legs(a)[done[a] + 1])
        /\ Goto(a, IF RowFirst THEN "restore"
                   ELSE IF done[a] = 0 THEN "mark" ELSE "undoLeg")
        /\ UNCHANGED done
  /\ UNCHANGED <<service, target, original, row, old, marks>>

\* An unchanged amount books nothing.
SkipLegs(a) ==
  /\ pc[a] = "legs" /\ Legs(a) = <<>>
  /\ Goto(a, AfterLegs(a, 0))
  /\ UNCHANGED <<service, target, original, row, old, done, marks, ledger>>

\* Where a failed write leads.
Unwind(a, place) == Goto(a, IF done[a] > 0 THEN place
                            ELSE IF place = "undoRow" THEN "mark" ELSE "error")

WriteRow(a) ==
  /\ pc[a] = "row"
  /\ \/ /\ Active /\ amount' = target[a]
        /\ \/ Goto(a, IF RowFirst THEN "legs" ELSE "status")
           \/ Unwind(a, "undoRow")
     \/ UNCHANGED amount /\ Unwind(a, "undoRow")
  /\ UNCHANGED <<service, target, original, status, trashed, old, done, marks, ledger>>

\* A topup's success write undoes nothing when it fails.
WriteSuccess(a) ==
  /\ pc[a] = "status"
  /\ \/ /\ Active /\ status' = "success"
        /\ \/ Goto(a, "ok")
           \/ IF RowFirst THEN Goto(a, "error") ELSE Unwind(a, "undoStatus")
     \/ /\ UNCHANGED status
        /\ IF RowFirst THEN Goto(a, "error") ELSE Unwind(a, "undoStatus")
  /\ UNCHANGED <<service, target, original, amount, trashed, old, done, marks, ledger>>

\* Mutant: the reversal of a leg that failed is issued along with the others.
UndoOneMore(a) == Legs(a)[IF pc[a] = "undoLeg" THEN done[a] + 1 ELSE done[a]]

LegToUndo(a) == Legs(a)[done[a]]

AfterUndo(a) == IF done[a] > 1 THEN pc[a]
                ELSE IF pc[a] = "undoStatus" THEN "error" ELSE "mark"

\* The last booked leg first.  Only a withdrawal that failed to write its row
\* looks at the outcome, and then does not mark it.
UndoLegs(a) ==
  /\ pc[a] \in {"undoLeg", "undoRow", "undoStatus"}
  /\ done' = [done EXCEPT ![a] = @ - 1]
  /\ \/ Succeeds(Undo(a, LegToUndo(a))) /\ Goto(a, AfterUndo(a))
     \/ /\ Fails(Undo(a, LegToUndo(a)))
        /\ Goto(a, IF service = "withdraw" THEN "error" ELSE AfterUndo(a))
  /\ UNCHANGED <<service, target, original, row, old, marks>>

\* UpdateTopupAmount with the old amount.
RestoreAmount(a) ==
  /\ pc[a] = "restore"
  /\ \/ Active /\ amount' = old[a] /\ (Goto(a, "mark") \/ Goto(a, "error"))
     \/ UNCHANGED amount /\ Goto(a, "error")
  /\ UNCHANGED <<service, target, original, status, trashed, old, done, marks, ledger>>

LaunchMarker(a) ==
  /\ pc[a] = "mark"
  /\ marks' = marks \cup {a}
  /\ Goto(a, "error")
  /\ UNCHANGED <<service, target, original, row, old, done, ledger>>

\* The goroutine writes failed over whatever the row has, or is lost.
RunMarker(a) ==
  /\ a \in marks
  /\ marks' = marks \ {a}
  /\ (Active /\ status' = "failed") \/ UNCHANGED status
  /\ UNCHANGED <<service, target, original, amount, trashed, pc, old, done, ledger>>

Crash(a) ==
  /\ pc[a] \notin Over \cup {"idle"}
  /\ Goto(a, "crashed")
  /\ UNCHANGED <<service, target, original, row, old, done, marks, ledger>>

Trash ==
  /\ Active
  /\ trashed' = TRUE
  /\ UNCHANGED <<service, target, original, amount, status, pc, old, done, marks, ledger>>

Restore ==
  /\ trashed
  /\ trashed' = FALSE
  /\ UNCHANGED <<service, target, original, amount, status, pc, old, done, marks, ledger>>

\* Permanently, from the trash; a topup also from outside it.
Delete ==
  /\ trashed \/ (service = "topup" /\ Active)
  /\ status' = "gone" /\ trashed' = FALSE
  /\ UNCHANGED <<service, target, original, amount, pc, old, done, marks, ledger>>

ArriveLate(e) ==
  /\ Arrive(e)
  /\ UNCHANGED <<service, target, original, row, pc, old, done, marks>>

-----------------------------------------------------------------------------

\* The row may be in any state: the handlers do not ask.
Init ==
  /\ service \in Services
  /\ target \in [Amends -> Amounts]
  /\ original \in Amounts /\ amount = original
  /\ status \in {"pending", "success", "failed"} /\ trashed = FALSE
  /\ pc = [a \in Amends |-> "idle"]
  /\ old = [a \in Amends |-> original]
  /\ done = [a \in Amends |-> 0]
  /\ marks = {}
  /\ LedgerInit

Next ==
  \/ \E a \in Amends :
       \/ Read(a) \/ BookLeg(a) \/ SkipLegs(a) \/ WriteRow(a) \/ WriteSuccess(a)
       \/ UndoLegs(a) \/ RestoreAmount(a) \/ LaunchMarker(a) \/ RunMarker(a) \/ Crash(a)
  \/ Trash \/ Restore \/ Delete
  \/ \E e \in inflight : ArriveLate(e)

Spec == Init /\ [][Next]_vars

(***************************************************************************)
(* Properties.                                                             *)
(***************************************************************************)

Ran == {a \in Amends : pc[a] # "idle"}

\* No other amendment of the row used the same operation ids.
Fresh(a) == \A b \in Ran \ {a} : Name(b) # Name(a)

\* What the row's amendments took from its first card; a topup gives it.
Paid == LET moved == SumFunctionOnSet([e \in booked |-> e.amount],
                                      {e \in booked : e.card = Payer})
        IN IF service = "topup" THEN moved ELSE -moved

\* Whatever failed or arrived late, an amendment only ever takes back what it
\* had booked: no reversal is booked of a leg that is not.
OnlyBookedIsUndone ==
  \A e \in booked : e.op[2] # "book" =>
    [op |-> <<e.op[1], "book">>, card |-> e.card, amount |-> -e.amount] \in booked

\* Amendments with operation ids of their own that all succeeded and of which
\* no two started from the same amount add up: the money follows the row.
AmendmentsAddUp ==
  /\ \A a \in Ran : pc[a] = "ok" /\ Fresh(a)
  /\ \A a, b \in Ran : a # b => old[a] # old[b]
  => Paid = amount - original
=============================================================================
