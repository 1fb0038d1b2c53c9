------------------------------ MODULE Transfer ------------------------------
(***************************************************************************)
(* service/transfer: CreateTransaction, its compensation, the idempotency  *)
(* store that guards it, the recovery worker, the trash operations and the *)
(* statuses that UpdateTransaction writes on the same rows (the money it   *)
(* moves is in Amendments.tla).                                            *)
(*                                                                         *)
(* A call is one invocation of CreateTransaction.  It inserts at most one  *)
(* row, so the row and the saldo operation ids built from its id           *)
(* ("transfer:<id>:sender-debit", ...) are named by the call and the leg.  *)
(* The transfer row lives in the financial database and the balances in    *)
(* the payment database behind a gRPC call, so no transaction covers both: *)
(* each action below is one remote call or one SQL statement.              *)
(***************************************************************************)
EXTENDS Integers, FiniteSets, Functions, CommandState

CONSTANTS
  Calls,           \* invocations of CreateTransaction
  Keys,            \* client idempotency keys
  NoKey,           \* a request without a key
  NoRecord,        \* no idempotency record under a key
  Cards,           \* card numbers that own a saldo
  Bodies,          \* request payloads [from, to, amount]; the request hash
  InitialBalance,  \* opening balance of every card
  EventTypes,      \* outbox events enqueued for a successful transfer
  MaxRows,         \* LIMIT of one recovery scan (100 in apps/server.go)
  Trashable,       \* rows an operator may trash, restore and delete
  Expiring,        \* keys whose record may reach its 24 hours
  Amendable        \* rows a client may update

Legs == {"sender-debit", "receiver-credit",
         "receiver-compensation", "sender-compensation"}
Debits == {"sender-debit", "receiver-compensation"}
SenderLegs == {"sender-debit", "sender-compensation"}

Requests == [key : Keys \cup {NoKey}, body : Bodies]
Records  == [hash : Bodies, status : {"processing", "success"}, resource : Calls]

ASSUME BodiesAssumption ==
  Bodies \subseteq [from : Cards, to : Cards, amount : Int]
ASSUME BalanceAssumption == InitialBalance \in [Cards -> Nat] /\ IsFiniteSet(Cards)
ASSUME ScopeAssumption ==
  Trashable \subseteq Calls /\ Amendable \subseteq Calls /\ Expiring \subseteq Keys
ASSUME MaxRowsAssumption == MaxRows \in Nat \ {0}
ASSUME SentinelAssumption == NoKey \notin Keys /\ NoRecord \notin Records

\* resource_id is NULL until the record is completed; here it names the call
\* that claimed the key from the start.
VARIABLES
  request,   \* what each call asks for
  pc,        \* where each call's handler is
  idem,      \* idempotency_records: key -> record
  status,    \* transfers.status of the call's row, "none" without a row
  trashed,   \* rows whose deleted_at is set
  older,     \* <<d, c>>: row d was updated before row c (updated_at)
  amended,   \* history: rows on which an update has written its own status
  legs,      \* balance_ledger: the legs booked for the call's row
  inflight,  \* saldo requests that timed out and may still be executed
  balance,   \* saldos.total_balance
  outbox,    \* outbox rows <<call, event>>
  stuck      \* rows the recovery worker has listed, with the status it read

vars == <<request, pc, idem, status, trashed, older, amended, legs, inflight,
          balance, outbox, stuck>>
rows   == <<status, older, amended>>
ledger == <<legs, balance, inflight>>

Owning == {"check", "create", "begin", "debit", "fail", "credit", "quarantine",
           "settle", "enqueue", "complete", "compensate", "compDebit",
           "compCredit", "compDone", "compUnknown", "release"}
Running  == {"claim", "lookup"} \cup Owning
Answered == {"ok", "replayed", "error", "conflict", "inprogress"}
Places   == {"idle", "crashed"} \cup Running \cup Answered

Key(c)  == request[c].key
Body(c) == request[c].body
Goto(c, place) == pc' = [pc EXCEPT ![c] = place]

(***************************************************************************)
(* The transfers table.                                                    *)
(***************************************************************************)

Touch(c) == {p \in older : p[1] # c} \cup ((Calls \ {c}) \X {c})

UpdateTransferStatus(c, s) == /\ status' = [status EXCEPT ![c] = s]
                              /\ older' = Touch(c)

SetStatus(c, s) == UpdateTransferStatus(c, s) /\ UNCHANGED amended

\* The row GuardTransferStatus updates: right status and not soft-deleted.
Matches(c, from, to) == /\ CanTransition(from, to)
                        /\ status[c] = from
                        /\ c \notin trashed

\* A guarded status write.  The handler sees an error when no row matches,
\* when the statement fails, and when it commits but the answer is lost.
GuardStatus(c, from, to, done, failed) ==
  \/ Matches(c, from, to) /\ SetStatus(c, to) /\ Goto(c, done)
  \/ Matches(c, from, to) /\ SetStatus(c, to) /\ Goto(c, failed)
  \/ UNCHANGED rows /\ Goto(c, failed)

(***************************************************************************)
(* The saldo service, as its clients see it.                               *)
(***************************************************************************)

\* Mutant: the receiver's compensation is booked as a credit.
DeltaOneDebit(c, leg) == IF leg = "sender-debit" THEN -Body(c).amount ELSE Body(c).amount

\* Mutant: the balance read by the handler is trusted instead of the row's.
AdmitsOverdraft(c, leg) == TRUE

CardOf(c, leg) == IF leg \in SenderLegs THEN Body(c).from ELSE Body(c).to

Delta(c, leg) == IF leg \in Debits THEN -Body(c).amount ELSE Body(c).amount

\* A debit needs the funds; a leg that is already booked is answered again.
Admits(c, leg) == \/ leg \in legs[c] \cup (Legs \ Debits)
                  \/ balance[CardOf(c, leg)] >= Body(c).amount

Book(c, leg) ==
  /\ legs' = [legs EXCEPT ![c] = @ \cup {leg}]
  /\ balance' = IF leg \in legs[c] THEN balance
                ELSE [balance EXCEPT ![CardOf(c, leg)] = @ + Delta(c, leg)]

\* One guarded gRPC call: booked and answered; refused (no funds, no saldo,
\* circuit open); or timed out, and then the request may still be executed.
Rpc(c, leg, done, failed) ==
  \/ Admits(c, leg) /\ Book(c, leg) /\ Goto(c, done) /\ UNCHANGED inflight
  \/ Goto(c, failed) /\ UNCHANGED ledger
  \/ /\ inflight' = [inflight EXCEPT ![c] = @ \cup {leg}]
     /\ Goto(c, failed)
     /\ UNCHANGED <<legs, balance>>

\* The saldo service executes a request its caller has given up on.
DeliverLate(c, leg) ==
  /\ leg \in inflight[c]
  /\ inflight' = [inflight EXCEPT ![c] = @ \ {leg}]
  /\ IF Admits(c, leg) THEN Book(c, leg) ELSE UNCHANGED <<legs, balance>>
  /\ UNCHANGED <<request, pc, idem, rows, trashed, outbox, stuck>>

(***************************************************************************)
(* CreateTransaction, one action per step of the handler.                  *)
(***************************************************************************)

Begin(c) ==
  /\ pc[c] = "idle"
  /\ Goto(c, IF Key(c) = NoKey THEN "check" ELSE "claim")
  /\ UNCHANGED <<request, idem, rows, trashed, ledger, outbox, stuck>>

\* Mutant: the upsert takes over a record that has not expired.
ClaimSteals(c) ==
  /\ pc[c] = "claim"
  /\ idem' = [idem EXCEPT ![Key(c)] =
                [hash |-> Body(c), status |-> "processing", resource |-> c]]
  /\ Goto(c, "check")
  /\ UNCHANGED <<request, rows, trashed, ledger, outbox, stuck>>

\* ClaimIdempotency: an INSERT that loses to an existing record.  A call whose
\* claim commits but whose answer is lost goes on as if another call owned it.
Claim(c) ==
  /\ pc[c] = "claim"
  /\ \/ /\ idem[Key(c)] = NoRecord
        /\ idem' = [idem EXCEPT ![Key(c)] =
                      [hash |-> Body(c), status |-> "processing", resource |-> c]]
        /\ Goto(c, "check") \/ Goto(c, "lookup")
     \/ UNCHANGED idem /\ Goto(c, "lookup")
  /\ UNCHANGED <<request, rows, trashed, ledger, outbox, stuck>>

\* GetIdempotency after a lost claim: the answer depends on the record found.
Lookup(c) ==
  /\ pc[c] = "lookup"
  /\ LET r == idem[Key(c)] IN
       \/ Goto(c, "error")
       \/ r # NoRecord /\ r.hash # Body(c) /\ Goto(c, "conflict")
       \/ r # NoRecord /\ r.hash = Body(c)
            /\ Goto(c, IF r.status = "success" THEN "replayed" ELSE "inprogress")
  /\ UNCHANGED <<request, idem, rows, trashed, ledger, outbox, stuck>>

\* Validation, card and saldo lookups, balance check and AI check.  A lookup
\* that fails or a block by the AI service refuses any request.
Check(c) ==
  /\ pc[c] = "check"
  /\ \/ Goto(c, "release")
     \/ /\ Body(c).amount > 0
        /\ Body(c).from # Body(c).to
        /\ balance[Body(c).from] >= Body(c).amount
        /\ Goto(c, "create")
  /\ UNCHANGED <<request, idem, rows, trashed, ledger, outbox, stuck>>

CreateTransfer(c) ==
  /\ pc[c] = "create"
  /\ \/ SetStatus(c, "pending") /\ (Goto(c, "begin") \/ Goto(c, "release"))
     \/ UNCHANGED rows /\ Goto(c, "release")
  /\ UNCHANGED <<request, idem, trashed, ledger, outbox, stuck>>

\* Mutant: a lost answer of the first write does not stop the handler.
BeginBlind(c) ==
  /\ pc[c] = "begin"
  /\ GuardStatus(c, "pending", "processing", "debit", "debit")
  /\ UNCHANGED <<request, idem, trashed, ledger, outbox, stuck>>

BeginProcessing(c) ==
  /\ pc[c] = "begin"
  /\ GuardStatus(c, "pending", "processing", "debit", "release")
  /\ UNCHANGED <<request, idem, trashed, ledger, outbox, stuck>>

\* Mutant: the error of the sender's debit is ignored.
DebitSenderBlind(c) ==
  /\ pc[c] = "debit"
  /\ Rpc(c, "sender-debit", "credit", "credit")
  /\ UNCHANGED <<request, idem, rows, trashed, outbox, stuck>>

DebitSender(c) ==
  /\ pc[c] = "debit"
  /\ Rpc(c, "sender-debit", "credit", "fail")
  /\ UNCHANGED <<request, idem, rows, trashed, outbox, stuck>>

MarkFailed(c) ==
  /\ pc[c] = "fail"
  /\ GuardStatus(c, "processing", "failed", "release", "release")
  /\ UNCHANGED <<request, idem, trashed, ledger, outbox, stuck>>

\* Mutant: a credit whose outcome is ambiguous is marked failed.
CreditReceiverFails(c) ==
  /\ pc[c] = "credit"
  /\ Rpc(c, "receiver-credit", "settle", "fail")
  /\ UNCHANGED <<request, idem, rows, trashed, outbox, stuck>>

CreditReceiver(c) ==
  /\ pc[c] = "credit"
  /\ Rpc(c, "receiver-credit", "settle", "quarantine")
  /\ UNCHANGED <<request, idem, rows, trashed, outbox, stuck>>

Quarantine(c) ==
  /\ pc[c] = "quarantine"
  /\ GuardStatus(c, "processing", "unknown", "release", "release")
  /\ UNCHANGED <<request, idem, trashed, ledger, outbox, stuck>>

Settle(c) ==
  /\ pc[c] = "settle"
  /\ GuardStatus(c, "processing", "success", "enqueue", "compensate")
  /\ UNCHANGED <<request, idem, trashed, ledger, outbox, stuck>>

\* enqueueTransferEvents: separate inserts, each of which may fail alone.
Enqueue(c) ==
  /\ pc[c] = "enqueue"
  /\ \E sent \in SUBSET EventTypes : outbox' = outbox \cup ({c} \X sent)
  /\ Goto(c, "complete")
  /\ UNCHANGED <<request, idem, rows, trashed, ledger, stuck>>

\* CompleteIdempotency; a failure is only logged.  The call answers success.
Complete(c) ==
  /\ pc[c] = "complete"
  /\ Goto(c, "ok")
  /\ \/ /\ Key(c) # NoKey /\ idem[Key(c)] # NoRecord
        /\ idem[Key(c)].hash = Body(c)
        /\ idem' = [idem EXCEPT ![Key(c)] =
                      [hash |-> Body(c), status |-> "success", resource |-> c]]
     \/ UNCHANGED idem
  /\ UNCHANGED <<request, rows, trashed, ledger, outbox, stuck>>

\* The deferred ReleaseIdempotency of a call that claimed its key and failed.
Release(c) ==
  /\ pc[c] = "release"
  /\ Goto(c, "error")
  /\ \/ /\ Key(c) # NoKey /\ idem[Key(c)] # NoRecord
        /\ idem[Key(c)].hash = Body(c) /\ idem[Key(c)].status = "processing"
        /\ idem' = [idem EXCEPT ![Key(c)] = NoRecord]
     \/ UNCHANGED idem
  /\ UNCHANGED <<request, rows, trashed, ledger, outbox, stuck>>

(***************************************************************************)
(* compensateTransfer: both legs are reversed, receiver first.             *)
(***************************************************************************)

\* Mutant: compensation starts without winning the guarded transition.
StartCompensationUnguarded(c) ==
  /\ pc[c] = "compensate"
  /\ GuardStatus(c, "processing", "compensating", "compDebit", "compDebit")
  /\ UNCHANGED <<request, idem, trashed, ledger, outbox, stuck>>

StartCompensation(c) ==
  /\ pc[c] = "compensate"
  /\ GuardStatus(c, "processing", "compensating", "compDebit", "release")
  /\ UNCHANGED <<request, idem, trashed, ledger, outbox, stuck>>

DebitReceiver(c) ==
  /\ pc[c] = "compDebit"
  /\ Rpc(c, "receiver-compensation", "compCredit", "compUnknown")
  /\ UNCHANGED <<request, idem, rows, trashed, outbox, stuck>>

\* Mutant: the error of the sender's compensation is ignored.
CreditSenderBlind(c) ==
  /\ pc[c] = "compCredit"
  /\ Rpc(c, "sender-compensation", "compDone", "compDone")
  /\ UNCHANGED <<request, idem, rows, trashed, outbox, stuck>>

CreditSender(c) ==
  /\ pc[c] = "compCredit"
  /\ Rpc(c, "sender-compensation", "compDone", "compUnknown")
  /\ UNCHANGED <<request, idem, rows, trashed, outbox, stuck>>

MarkCompensated(c) ==
  /\ pc[c] = "compDone"
  /\ GuardStatus(c, "compensating", "compensated", "release", "release")
  /\ UNCHANGED <<request, idem, trashed, ledger, outbox, stuck>>

QuarantineCompensation(c) ==
  /\ pc[c] = "compUnknown"
  /\ GuardStatus(c, "compensating", "unknown", "release", "release")
  /\ UNCHANGED <<request, idem, trashed, ledger, outbox, stuck>>

\* The process dies; deferred calls do not run.
Crash(c) ==
  /\ pc[c] \in Running
  /\ Goto(c, "crashed")
  /\ UNCHANGED <<request, idem, rows, trashed, ledger, outbox, stuck>>

(***************************************************************************)
(* The recovery worker.  A row may look stuck while its handler is only    *)
(* slow: database calls carry no deadline of their own.                    *)
(***************************************************************************)

\* Mutants: the scan has no status filter, or knows only the first state.
CandidatesAnyStatus == Calls \ trashed
CandidatesProcessing == {c \in Calls : status[c] = "processing" /\ c \notin trashed}

Candidates == {c \in Calls : IsRecoverable(status[c]) /\ c \notin trashed}

\* ORDER BY updated_at LIMIT MaxRows
OldestFirst(S) == /\ S \subseteq Candidates
                  /\ \A c \in S, d \in Candidates \ S : <<d, c>> \notin older
                  /\ Cardinality(S) <= MaxRows
                  /\ S # Candidates => Cardinality(S) = MaxRows

ListStuck ==
  /\ stuck = {}
  /\ \E S \in SUBSET Candidates :
       OldestFirst(S) /\ stuck' = {<<c, status[c]>> : c \in S}
  /\ UNCHANGED <<request, pc, idem, rows, trashed, ledger, outbox>>

\* Mutant: the worker writes unknown whatever the row has become.
RecoverUnguarded(c, from) ==
  /\ <<c, from>> \in stuck
  /\ from # "unknown"
  /\ SetStatus(c, "unknown")
  /\ stuck' = stuck \ {<<c, from>>}
  /\ UNCHANGED <<request, pc, idem, trashed, ledger, outbox>>

\* TransitionStatus(row.Status -> unknown) on a listed row.
Recover(c, from) ==
  /\ <<c, from>> \in stuck
  /\ from # "unknown"
  /\ Matches(c, from, "unknown")
  /\ SetStatus(c, "unknown")
  /\ stuck' = stuck \ {<<c, from>>}
  /\ UNCHANGED <<request, pc, idem, trashed, ledger, outbox>>

\* A listed row that is already unknown, has moved on, or whose update failed.
Skip(c, from) ==
  /\ <<c, from>> \in stuck
  /\ stuck' = stuck \ {<<c, from>>}
  /\ UNCHANGED <<request, pc, idem, rows, trashed, ledger, outbox>>

(***************************************************************************)
(* UpdateTransaction writes its outcome with a statement that asks for no  *)
(* status the row must be in: any row that is there and not in the trash.  *)
(***************************************************************************)

Amend(c, s) ==
  /\ status[c] # "none" /\ c \notin trashed
  /\ UpdateTransferStatus(c, s)
  /\ amended' = amended \cup {c}
  /\ UNCHANGED <<request, pc, idem, trashed, ledger, outbox, stuck>>

UpdateSucceeds(c) == Amend(c, "success")

\* Every error of an update ends here, in a goroutine of its own.
MarkTransferAsFailed(c) == Amend(c, "failed")

(***************************************************************************)
(* Trash operations and the 24-hour expiry of idempotency records.         *)
(***************************************************************************)

TrashedTransfer(c) ==
  /\ status[c] # "none" /\ c \notin trashed
  /\ trashed' = trashed \cup {c}
  /\ UNCHANGED <<request, pc, idem, rows, ledger, outbox, stuck>>

\* RestoreTransfer and RestoreAllTransfer.
RestoreTransfers(S) ==
  /\ S # {} /\ S \subseteq trashed
  /\ trashed' = trashed \ S
  /\ UNCHANGED <<request, pc, idem, rows, ledger, outbox, stuck>>

\* DeleteTransferPermanent and DeleteAllTransferPermanent.
DeleteTransfers(S) ==
  /\ S # {} /\ S \subseteq trashed
  /\ trashed' = trashed \ S
  /\ status' = [c \in Calls |-> IF c \in S THEN "none" ELSE status[c]]
  /\ UNCHANGED <<request, pc, idem, older, amended, ledger, outbox, stuck>>

\* An expired record is invisible to Get and overwritten by the next Claim.
\* No handler runs for 24 hours, so none owns the key when its record expires.
Expire(k) ==
  /\ idem[k] # NoRecord
  /\ \A c \in Calls : Key(c) = k => pc[c] \notin Owning
  /\ idem' = [idem EXCEPT ![k] = NoRecord]
  /\ UNCHANGED <<request, pc, rows, trashed, ledger, outbox, stuck>>

-----------------------------------------------------------------------------

Init ==
  /\ request \in [Calls -> Requests]
  /\ pc = [c \in Calls |-> "idle"]
  /\ idem = [k \in Keys |-> NoRecord]
  /\ status = [c \in Calls |-> "none"]
  /\ trashed = {} /\ older = {} /\ amended = {} /\ outbox = {} /\ stuck = {}
  /\ legs = [c \in Calls |-> {}]
  /\ inflight = [c \in Calls |-> {}]
  /\ balance = InitialBalance

Handle(c) ==
  \/ Begin(c) \/ Claim(c) \/ Lookup(c) \/ Check(c)
  \/ CreateTransfer(c) \/ BeginProcessing(c)
  \/ DebitSender(c) \/ MarkFailed(c)
  \/ CreditReceiver(c) \/ Quarantine(c)
  \/ Settle(c) \/ Enqueue(c) \/ Complete(c) \/ Release(c)
  \/ StartCompensation(c) \/ DebitReceiver(c) \/ CreditSender(c)
  \/ MarkCompensated(c) \/ QuarantineCompensation(c)

Worker == \/ ListStuck
          \/ \E c \in Calls, s \in Statuses : Recover(c, s) \/ Skip(c, s)

Admin == \/ \E c \in Trashable : TrashedTransfer(c)
         \/ \E S \in SUBSET trashed : RestoreTransfers(S) \/ DeleteTransfers(S)

Next == \/ \E c \in Calls : Handle(c) \/ Crash(c)
        \/ \E c \in Calls, leg \in Legs : DeliverLate(c, leg)
        \/ Worker
        \/ Admin
        \/ \E c \in Amendable : UpdateSucceeds(c) \/ MarkTransferAsFailed(c)
        \/ \E k \in Expiring : Expire(k)

Spec == Init /\ [][Next]_vars

(***************************************************************************)
(* Properties.                                                             *)
(***************************************************************************)

\* Every variable keeps its type.
TypeOK ==
  /\ request \in [Calls -> Requests]
  /\ pc \in [Calls -> Places]
  /\ idem \in [Keys -> Records \cup {NoRecord}]
  /\ status \in [Calls -> Statuses \cup {"none"}]
  /\ trashed \subseteq Calls
  /\ older \subseteq Calls \X Calls
  /\ amended \subseteq Calls
  /\ legs \in [Calls -> SUBSET Legs]
  /\ inflight \in [Calls -> SUBSET Legs]
  /\ balance \in [Cards -> Int]
  /\ outbox \subseteq Calls \X EventTypes
  /\ stuck \subseteq Calls \X Statuses

Settled  == {"sender-debit", "receiver-credit"}

\* Somebody has been told that the transfer succeeded: the row (unless it is an
\* update that speaks there), a stored idempotent response, an outbox event or
\* the caller.
Announced(c) == \/ status[c] = "success" /\ c \notin amended
                \/ pc[c] = "ok"
                \/ \E k \in Keys : idem[k] # NoRecord /\ idem[k].status = "success"
                                   /\ idem[k].resource = c
                \/ \E e \in EventTypes : <<c, e>> \in outbox

\* Success is announced only for a transfer whose sender was debited and whose
\* receiver was credited, and from then on neither leg is reversed or still
\* in flight, whatever timeouts, lost answers, recovery steps and updates that
\* write over the row there were.
SuccessIsSettled ==
  \A c \in Calls : Announced(c) => legs[c] = Settled /\ inflight[c] = {}

\* A row says compensated only when both legs and both reversals are booked.
CompensatedIsReversed ==
  \A c \in Calls : status[c] = "compensated" => legs[c] = Legs /\ inflight[c] = {}

\* A row that is still pending has moved no money and has none in flight,
\* although the worker never lists pending rows and nothing ends them: who
\* finds one, left by a crash or a lost answer, may create the transfer anew.
PendingMovesNothing ==
  \A c \in Calls : status[c] = "pending" => legs[c] = {} /\ inflight[c] = {}

\* What an update wrote on a row is not taken back by the handler or the
\* compensation that was still at work on it, nor by the worker that had listed
\* the row before: only another update or a deletion changes it.
AmendmentStands == \A c \in amended : status[c] \in {"success", "failed", "none"}

\* No interleaving of transfers that checked the same balance overdraws a card.
NoOverdraft == \A card \in Cards : balance[card] >= 0

Total(bal) == SumFunctionOnSet(bal, Cards)

\* Taken from one card and not yet on the other.
InTransit(c) ==
  \/ "sender-debit" \in legs[c] /\ "receiver-credit" \notin legs[c]
  \/ "receiver-compensation" \in legs[c] /\ "sender-compensation" \notin legs[c]

\* The money on all cards, with what is in transit, never changes.
MoneyConserved ==
  Total(balance) + SumFunctionOnSet([c \in Calls |-> Body(c).amount],
                                    {c \in Calls : InTransit(c)})
    = Total(InitialBalance)

\* While a call that claimed a key can still act on it, no other call does, and
\* the record under the key is that call's own.
ExclusiveKey ==
  \A c \in Calls : Key(c) # NoKey /\ pc[c] \in Owning =>
    /\ idem[Key(c)] # NoRecord /\ idem[Key(c)].resource = c
    /\ idem[Key(c)].hash = Body(c) /\ idem[Key(c)].status = "processing"
    /\ \A d \in Calls : Key(d) = Key(c) /\ pc[d] \in Owning => d = c

\* The verdict a reader of the row takes from its status; the status an update
\* wrote is about the update.
VerdictOf(s) == CASE s = "success"     -> "settled"
                  [] s = "failed"      -> "refused"
                  [] s = "compensated" -> "reversed"
                  [] s = "unknown"     -> "doubt"
                  [] OTHER             -> "open"
Verdict == [c \in Calls |-> IF c \in amended THEN "open" ELSE VerdictOf(status[c])]

Promise == INSTANCE TransferPromise WITH booked <- legs, verdict <- Verdict

\* CreateTransaction with its failures, its recovery and updates of its rows
\* implements TransferPromise.
KeepsPromise == Promise!Spec

\* What the code's comments promise and its steps do not keep: the retry of a
\* request under the same key never moves money a second time.
KeyMovesMoneyOnce ==
  \A c, d \in Calls : c # d /\ Key(c) # NoKey /\ Key(c) = Key(d) =>
    \E x \in {c, d} : "sender-debit" \notin legs[x] \/ "sender-compensation" \in legs[x]

(***************************************************************************)
(* Liveness: a live row does not stay in flight, because the recovery      *)
(* worker runs every 30 seconds for as long as the process lives and a     *)
(* database that answers infinitely often lets an update through.          *)
(***************************************************************************)

Fairness == /\ WF_vars(ListStuck)
            /\ \A c \in Calls : /\ SF_vars(\E s \in Statuses : Recover(c, s))
                                /\ WF_vars(\E s \in Statuses : Skip(c, s))

FairSpec == Spec /\ Fairness

InFlightRow(c) == status[c] \in {"processing", "compensating"} /\ c \notin trashed

\* Every row left in flight by a crash, a failed write or a slow handler is
\* eventually resolved or quarantined (unless it is trashed meanwhile).
StuckRowsAreRecovered == \A c \in Calls : InFlightRow(c) ~> ~InFlightRow(c)
=============================================================================
