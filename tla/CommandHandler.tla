--------------------------- MODULE CommandHandler ---------------------------
(***************************************************************************)
(* What the create handlers of the transaction, withdraw and topup         *)
(* services have in common: the idempotency guard around the handler, the  *)
(* outbox inserts before the answer, the soft deletion of its row, a crash *)
(* anywhere, and late saldo requests.  A call is one invocation and has at *)
(* most one row, which is named by the call.                               *)
(***************************************************************************)
EXTENDS IdempotencyStore, SaldoClient

CONSTANTS
  Bodies,      \* request payloads; the request hash
  EventTypes,  \* outbox events of a successful command
  Trashable,   \* rows an operator may trash, restore and delete
  Expiring     \* calls of which a claim may get 24 hours old

ASSUME TrashAssumption == Trashable \subseteq Calls /\ Expiring \subseteq Calls
ASSUME RecordAssumption ==
  NoRecord \notin [owner : Calls, hash : Bodies, status : {"processing", "success"}]

VARIABLES
  request,   \* what each call asks for: [key, body]
  pc,        \* where each call's handler is
  status,    \* the status of the call's row, "none" without a row
  trashed,   \* rows whose deleted_at is set
  outbox     \* outbox rows <<call, event>>

command == <<request, pc, idem, lapsed, status, trashed, ledger, outbox>>
Others  == <<request, idem, lapsed, trashed, outbox>>

Requests == [key : Keys \cup {NoKey}, body : Bodies]
Resting  == {"idle", "crashed", "ok", "replayed", "error", "conflict", "inprogress"}

Key(c)  == request[c].key
Body(c) == request[c].body
Goto(c, place) == pc' = [pc EXCEPT ![c] = place]
SetStatus(c, s) == status' = [status EXCEPT ![c] = s]

\* One saldo call of a handler.
Rpc(c, e, done, failed) == \/ Succeeds(e) /\ Goto(c, done)
                           \/ Fails(e) /\ Goto(c, failed)

Begin(c) ==
  /\ pc[c] = "idle"
  /\ Goto(c, IF Key(c) = NoKey THEN "check" ELSE "claim")
  /\ UNCHANGED <<Others, status, ledger>>

\* A claim that commits and loses its answer is taken for somebody else's.
Claim(c) ==
  /\ pc[c] = "claim"
  /\ \/ ClaimKey(c, Key(c), Body(c)) /\ (Goto(c, "check") \/ Goto(c, "lookup"))
     \/ UNCHANGED idem /\ Goto(c, "lookup")
  /\ UNCHANGED <<request, lapsed, status, trashed, ledger, outbox>>

Lookup(c) ==
  /\ pc[c] = "lookup"
  /\ \E answer \in LostClaimAnswers(Key(c), Body(c)) : Goto(c, answer)
  /\ UNCHANGED <<Others, status, ledger>>

\* Separate inserts, each of which may fail alone and is only logged.
Enqueue(c) ==
  /\ pc[c] = "enqueue"
  /\ \E sent \in SUBSET EventTypes : outbox' = outbox \cup ({c} \X sent)
  /\ Goto(c, "complete")
  /\ UNCHANGED <<request, idem, lapsed, status, trashed, ledger>>

\* A failed Complete is only logged: the call answers success.
Complete(c) ==
  /\ pc[c] = "complete"
  /\ CompleteKey(Key(c), Body(c)) \/ UNCHANGED idem
  /\ Goto(c, "ok")
  /\ UNCHANGED <<request, lapsed, status, trashed, ledger, outbox>>

\* The deferred release of a handler whose status is "error".
Release(c) ==
  /\ pc[c] = "release"
  /\ ReleaseKey(Key(c), Body(c)) \/ UNCHANGED idem
  /\ Goto(c, "error")
  /\ UNCHANGED <<request, lapsed, status, trashed, ledger, outbox>>

\* The process dies; deferred calls do not run.
Crash(c) ==
  /\ pc[c] \notin Resting
  /\ Goto(c, "crashed")
  /\ UNCHANGED <<Others, status, ledger>>

ArriveLate(e) ==
  /\ Arrive(e)
  /\ UNCHANGED <<Others, pc, status>>

TrashRow(c) ==
  /\ status[c] # "none" /\ c \notin trashed
  /\ trashed' = trashed \cup {c}
  /\ UNCHANGED <<request, pc, idem, lapsed, status, ledger, outbox>>

RestoreRows(S) ==
  /\ S # {} /\ S \subseteq trashed
  /\ trashed' = trashed \ S
  /\ UNCHANGED <<request, pc, idem, lapsed, status, ledger, outbox>>

DeleteRows(S) ==
  /\ S # {} /\ S \subseteq trashed
  /\ trashed' = trashed \ S
  /\ status' = [c \in Calls |-> IF c \in S THEN "none" ELSE status[c]]
  /\ UNCHANGED <<request, pc, idem, lapsed, ledger, outbox>>

\* 24 hours pass since a call claimed its key.  No handler runs that long.
Expire(c) ==
  /\ pc[c] \in Resting \ {"idle"}
  /\ \E k \in Keys : idem[k] # NoRecord /\ idem[k].owner = c
  /\ lapsed' = lapsed \cup {c}
  /\ UNCHANGED <<request, pc, idem, status, trashed, ledger, outbox>>

CommandInit ==
  /\ request \in [Calls -> Requests]
  /\ pc = [c \in Calls |-> "idle"]
  /\ idem = [k \in Keys |-> NoRecord]
  /\ status = [c \in Calls |-> "none"]
  /\ lapsed = {} /\ trashed = {} /\ outbox = {}
  /\ LedgerInit

Guarded(c) == \/ Begin(c) \/ Claim(c) \/ Lookup(c)
              \/ Enqueue(c) \/ Complete(c) \/ Release(c) \/ Crash(c)

Admin == \/ \E c \in Trashable : TrashRow(c)
         \/ \E S \in SUBSET trashed : RestoreRows(S) \/ DeleteRows(S)

\* Every step that is not one of the handler's own.
CommonStep == \/ \E c \in Calls : Guarded(c)
              \/ \E e \in inflight : ArriveLate(e)
              \/ \E c \in Expiring : Expire(c)
              \/ Admin

CommandTypeOK(places, statuses) ==
  /\ request \in [Calls -> Requests]
  /\ pc \in [Calls -> Resting \cup places \cup
                        {"claim", "lookup", "check", "enqueue", "complete", "release"}]
  /\ idem \in [Keys -> [owner : Calls, hash : Bodies,
                        status : {"processing", "success"}] \cup {NoRecord}]
  /\ status \in [Calls -> statuses \cup {"none"}]
  /\ lapsed \subseteq Calls /\ trashed \subseteq Calls
  /\ outbox \subseteq Calls \X EventTypes
  /\ balance \in [Cards -> Nat]
  /\ \A e \in booked \cup inflight : e.card \in Cards /\ e.amount \in Int

\* Somebody has been told that the command succeeded: the caller, a stored
\* response or an outbox event.
Told(c) == \/ pc[c] = "ok"
           \/ \E k \in Keys : idem[k] # NoRecord /\ idem[k].status = "success"
                              /\ idem[k].owner = c
           \/ \E e \in EventTypes : <<c, e>> \in outbox
=============================================================================
