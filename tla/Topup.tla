------------------------------- MODULE Topup -------------------------------
(***************************************************************************)
(* service/topup: CreateTopup.  The row comes first and names the saldo    *)
(* operations; the card is credited, refreshed in the card service, and    *)
(* the credit is taken back when a later step fails.  A row is marked      *)
(* failed by a detached goroutine that may run late or not at all.         *)
(***************************************************************************)
EXTENDS CommandHandler

VARIABLE marks   \* rows whose mark-as-failed goroutine has not run yet

Topups == {c \in Calls : Body(c).kind = "topup"}

TopupPlaces == {"insertTopup", "credit", "updateCard", "settleTopup", "undoTopup", "mark"}

\* UpdateTopupStatus: asks only for a row that is not trashed.
WriteTopupStatus(c, s) == /\ status[c] # "none" /\ c \notin trashed
                          /\ SetStatus(c, s)

CheckTopup(c) ==
  /\ pc[c] = "check" /\ c \in Topups
  /\ \/ Goto(c, "release")
     \/ Body(c).amount > 0 /\ Goto(c, "insertTopup")
  /\ UNCHANGED <<Others, status, ledger, marks>>

InsertTopup(c) ==
  /\ pc[c] = "insertTopup"
  /\ \/ SetStatus(c, "pending") /\ (Goto(c, "credit") \/ Goto(c, "release"))
     \/ UNCHANGED status /\ Goto(c, "release")
  /\ UNCHANGED <<Others, ledger, marks>>

\* Mutant: a failed credit is taken back as well.
CreditAlwaysUndone(c) ==
  /\ pc[c] = "credit"
  /\ Rpc(c, Credit(<<c, "credit">>, Body(c).card, Body(c).amount), "updateCard", "undoTopup")
  /\ UNCHANGED <<Others, status, marks>>

CreditCard(c) ==
  /\ pc[c] = "credit"
  /\ Rpc(c, Credit(<<c, "credit">>, Body(c).card, Body(c).amount), "updateCard", "mark")
  /\ UNCHANGED <<Others, status, marks>>

\* The card service is asked to write the card it returned.
UpdateCard(c) ==
  /\ pc[c] = "updateCard"
  /\ Goto(c, "settleTopup") \/ Goto(c, "undoTopup")
  /\ UNCHANGED <<Others, status, ledger, marks>>

SettleTopup(c) ==
  /\ pc[c] = "settleTopup"
  /\ \/ WriteTopupStatus(c, "success") /\ (Goto(c, "enqueue") \/ Goto(c, "undoTopup"))
     \/ UNCHANGED status /\ Goto(c, "undoTopup")
  /\ UNCHANGED <<Others, ledger, marks>>

\* Mutant: the row is marked failed whether or not the debit went through.
UndoTopupAlwaysMarks(c) ==
  /\ pc[c] = "undoTopup"
  /\ Rpc(c, Debit(<<c, "rollback">>, Body(c).card, Body(c).amount), "mark", "mark")
  /\ UNCHANGED <<Others, status, marks>>

UndoTopup(c) ==
  /\ pc[c] = "undoTopup"
  /\ Rpc(c, Debit(<<c, "rollback">>, Body(c).card, Body(c).amount), "mark", "release")
  /\ UNCHANGED <<Others, status, marks>>

\* markTopupAsFailed returns at once; the write has a context of its own.
LaunchMarker(c) ==
  /\ pc[c] = "mark"
  /\ marks' = marks \cup {c}
  /\ Goto(c, "release")
  /\ UNCHANGED <<Others, status, ledger>>

RunMarker(c) ==
  /\ c \in marks
  /\ marks' = marks \ {c}
  /\ WriteTopupStatus(c, "failed") \/ UNCHANGED status
  /\ UNCHANGED <<Others, pc, ledger>>

\* DeleteTopupPermanently does not ask whether the row is trashed.
DeleteTopup(c) ==
  /\ c \in Topups \cap Trashable /\ status[c] # "none"
  /\ status' = [status EXCEPT ![c] = "none"]
  /\ trashed' = trashed \ {c}
  /\ UNCHANGED <<request, pc, idem, lapsed, ledger, outbox, marks>>

TopupStep(c) ==
  \/ CheckTopup(c) \/ InsertTopup(c) \/ CreditCard(c) \/ UpdateCard(c) \/ SettleTopup(c)
  \/ UndoTopup(c) \/ LaunchMarker(c) \/ RunMarker(c) \/ DeleteTopup(c)

TopupInit == marks = {}
=============================================================================
