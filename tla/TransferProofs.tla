--------------------------- MODULE TransferProofs ---------------------------
(***************************************************************************)
(* Theorems about Transfer.tla, for any set of calls, keys, cards and      *)
(* request bodies.  The safety of the money rests on one inductive         *)
(* invariant, Inv: for every place the handler of a call can be in, it     *)
(* says which legs of the transfer can be booked or still be in flight.    *)
(***************************************************************************)
EXTENDS Transfer, SumTheorems, TLAPS

\* Legs the saldo service has executed or may still execute.
Sent(c) == legs[c] \cup inflight[c]

\* Places where the handler has asked the saldo service for nothing, and those
\* where it has not even inserted the row.
Rowless   == {"idle", "claim", "lookup", "check", "create",
              "replayed", "conflict", "inprogress"}
Unsent    == Rowless \cup {"begin", "debit"}
Gone      == {"release", "error", "crashed"}

\* Where the legs of a call are, by the place of its handler.
Progress(c) ==
  /\ pc[c] \in Rowless => status[c] = "none"
  /\ pc[c] \in Unsent => Sent(c) = {}
  /\ pc[c] = "fail" => Sent(c) \subseteq {"sender-debit"}
  /\ pc[c] = "credit" => legs[c] = {"sender-debit"} /\ inflight[c] = {}
  /\ pc[c] = "quarantine" => "sender-debit" \in legs[c] /\ Sent(c) \subseteq Settled
  /\ pc[c] \in {"settle", "enqueue", "complete", "ok", "compensate", "compDebit"}
       => legs[c] = Settled /\ inflight[c] = {}
  /\ pc[c] = "compCredit" => legs[c] = Settled \cup {"receiver-compensation"} /\ inflight[c] = {}
  /\ pc[c] = "compDone" => legs[c] = Legs /\ inflight[c] = {}

\* A leg is only asked for once the legs before it are booked.
Chain(c) ==
  /\ "receiver-credit" \in Sent(c) => "sender-debit" \in legs[c]
  /\ "receiver-compensation" \in Sent(c) => Settled \subseteq legs[c]
  /\ "sender-compensation" \in Sent(c) => Settled \cup {"receiver-compensation"} \subseteq legs[c]

Emitted(c) == \E e \in EventTypes : <<c, e>> \in outbox
Stored(c) == \E k \in Keys : /\ idem[k] # NoRecord /\ idem[k].status = "success"
                             /\ idem[k].resource = c

\* A terminal status, a stored response and an event are final; a status an
\* update wrote says nothing of the legs, but nobody else writes after it.
Final(c) ==
  /\ status[c] = "pending" => Sent(c) = {} /\ pc[c] \in Gone \cup {"begin"}
  /\ status[c] = "success" /\ c \notin amended =>
       /\ legs[c] = Settled /\ inflight[c] = {}
       /\ pc[c] \in Gone \cup {"enqueue", "complete", "ok", "compensate"}
  /\ status[c] = "compensated" => legs[c] = Legs /\ inflight[c] = {} /\ pc[c] \in Gone
  /\ status[c] = "failed" /\ c \notin amended =>
       Sent(c) \subseteq {"sender-debit"} /\ pc[c] \in Gone
  /\ c \in amended => status[c] \in {"success", "failed", "none"} /\ pc[c] \notin Rowless
  /\ Emitted(c) => legs[c] = Settled /\ inflight[c] = {} /\ pc[c] \in {"complete", "ok", "crashed"}
  /\ Stored(c) => pc[c] = "ok"

Placed(c) == Progress(c) /\ Chain(c) /\ Final(c)

Inv == TypeOK /\ \A c \in Calls : Placed(c)

-----------------------------------------------------------------------------

\* A request is a record of a key and a body of the given cards.
LEMMA RequestFacts ==
  ASSUME TypeOK, NEW c \in Calls
  PROVE  /\ Key(c) \in Keys \cup {NoKey}
         /\ Body(c) \in Bodies
         /\ Body(c).from \in Cards /\ Body(c).to \in Cards /\ Body(c).amount \in Int
<1>1. request[c] \in Requests  BY DEF TypeOK
<1>2. Key(c) \in Keys \cup {NoKey} /\ Body(c) \in Bodies  BY <1>1 DEF Requests, Key, Body
<1>3. Body(c) \in [from : Cards, to : Cards, amount : Int]  BY <1>2, BodiesAssumption
<1> QED  BY <1>2, <1>3

\* Rows move between statuses of the machine and keep their update order typed.
LEMMA SetStatusType ==
  ASSUME TypeOK, NEW c \in Calls, NEW s \in Statuses, SetStatus(c, s)
  PROVE  /\ status' \in [Calls -> Statuses \cup {"none"}] /\ older' \subseteq Calls \X Calls
         /\ amended' \subseteq Calls
BY DEF TypeOK, SetStatus, UpdateTransferStatus, Touch

\* A guarded status write keeps the table typed, whichever way it answers.
LEMMA GuardStatusType ==
  ASSUME TypeOK, NEW c \in Calls, NEW from, NEW to \in Statuses,
         NEW done \in Places, NEW failed \in Places,
         GuardStatus(c, from, to, done, failed)
  PROVE  /\ status' \in [Calls -> Statuses \cup {"none"}] /\ older' \subseteq Calls \X Calls
         /\ amended' \subseteq Calls /\ pc' \in [Calls -> Places]
BY SetStatusType DEF TypeOK, GuardStatus, Goto, rows

\* Booking a leg keeps the ledger and the balances typed.
LEMMA BookType ==
  ASSUME TypeOK, NEW c \in Calls, NEW leg \in Legs, Book(c, leg)
  PROVE  legs' \in [Calls -> SUBSET Legs] /\ balance' \in [Cards -> Int]
<1>1. legs' \in [Calls -> SUBSET Legs]  BY DEF TypeOK, Book
<1>2. CardOf(c, leg) \in Cards /\ Delta(c, leg) \in Int
  BY RequestFacts DEF CardOf, Delta
<1>3. balance' \in [Cards -> Int]  BY <1>2 DEF TypeOK, Book
<1> QED  BY <1>1, <1>3

\* So does a saldo call, also when it times out and stays in flight.
LEMMA RpcType ==
  ASSUME TypeOK, NEW c \in Calls, NEW leg \in Legs,
         NEW done \in Places, NEW failed \in Places, Rpc(c, leg, done, failed)
  PROVE  /\ legs' \in [Calls -> SUBSET Legs] /\ balance' \in [Cards -> Int]
         /\ inflight' \in [Calls -> SUBSET Legs] /\ pc' \in [Calls -> Places]
BY BookType DEF TypeOK, Rpc, Goto, ledger

\* The initial state is well typed.
LEMMA TypeInit == Init => TypeOK
BY BalanceAssumption DEF Init, TypeOK, Places

\* One step per action: the variables it changes stay typed.
LEMMA TypeNext == TypeOK /\ [Next]_vars => TypeOK'
<1> SUFFICES ASSUME TypeOK, [Next]_vars PROVE TypeOK'
  OBVIOUS
<1> USE DEF Places, Running, Owning, Answered
<1>1. ASSUME NEW c \in Calls, Handle(c) PROVE TypeOK'
  <2>1. CASE Begin(c)
    BY <2>1 DEF TypeOK, Begin, Goto, rows, ledger
  <2>2. CASE Claim(c)
    <3>1. [hash |-> Body(c), status |-> "processing", resource |-> c] \in Records
      BY RequestFacts DEF Records
    <3> QED  BY <2>2, <3>1 DEF TypeOK, Claim, Goto, rows, ledger
  <2>3. CASE Lookup(c)
    BY <2>3 DEF TypeOK, Lookup, Goto, rows, ledger
  <2>4. CASE Check(c)
    BY <2>4 DEF TypeOK, Check, Goto, rows, ledger
  <2>5. CASE CreateTransfer(c)
    BY <2>5, SetStatusType DEF TypeOK, CreateTransfer, Goto, rows, ledger, Statuses
  <2>6. CASE BeginProcessing(c)
    BY <2>6, GuardStatusType DEF TypeOK, BeginProcessing, ledger, Statuses
  <2>7. CASE MarkFailed(c)
    BY <2>7, GuardStatusType DEF TypeOK, MarkFailed, ledger, Statuses
  <2>8. CASE Quarantine(c)
    BY <2>8, GuardStatusType DEF TypeOK, Quarantine, ledger, Statuses
  <2>9. CASE Settle(c)
    BY <2>9, GuardStatusType DEF TypeOK, Settle, ledger, Statuses
  <2>10. CASE StartCompensation(c)
    BY <2>10, GuardStatusType DEF TypeOK, StartCompensation, ledger, Statuses
  <2>11. CASE MarkCompensated(c)
    BY <2>11, GuardStatusType DEF TypeOK, MarkCompensated, ledger, Statuses
  <2>12. CASE QuarantineCompensation(c)
    BY <2>12, GuardStatusType DEF TypeOK, QuarantineCompensation, ledger, Statuses
  <2>13. CASE DebitSender(c)
    BY <2>13, RpcType DEF TypeOK, DebitSender, rows, Legs
  <2>14. CASE CreditReceiver(c)
    BY <2>14, RpcType DEF TypeOK, CreditReceiver, rows, Legs
  <2>15. CASE DebitReceiver(c)
    BY <2>15, RpcType DEF TypeOK, DebitReceiver, rows, Legs
  <2>16. CASE CreditSender(c)
    BY <2>16, RpcType DEF TypeOK, CreditSender, rows, Legs
  <2>17. CASE Enqueue(c)
    BY <2>17 DEF TypeOK, Enqueue, Goto, rows, ledger
  <2>18. CASE Complete(c)
    <3>1. [hash |-> Body(c), status |-> "success", resource |-> c] \in Records
      BY RequestFacts DEF Records
    <3> QED  BY <2>18, <3>1 DEF TypeOK, Complete, Goto, rows, ledger
  <2>19. CASE Release(c)
    BY <2>19 DEF TypeOK, Release, Goto, rows, ledger
  <2> QED
    BY <1>1, <2>1, <2>2, <2>3, <2>4, <2>5, <2>6, <2>7, <2>8, <2>9, <2>10, <2>11, <2>12, <2>13, <2>14, <2>15, <2>16, <2>17, <2>18, <2>19 DEF Handle
<1>2. ASSUME NEW c \in Calls, Crash(c) PROVE TypeOK'
  BY <1>2 DEF TypeOK, Crash, Goto, rows, ledger
<1>3. ASSUME NEW c \in Calls, NEW leg \in Legs, DeliverLate(c, leg) PROVE TypeOK'
  BY <1>3, BookType DEF TypeOK, DeliverLate, rows
<1>4. ASSUME Worker PROVE TypeOK'
  <2>1. CASE ListStuck
    <3>1. \A c \in Candidates : c \in Calls /\ status[c] \in Statuses
      BY DEF TypeOK, Candidates, IsRecoverable, Statuses
    <3> QED  BY <2>1, <3>1 DEF TypeOK, ListStuck, OldestFirst, rows, ledger
  <2>2. ASSUME NEW c \in Calls, NEW s \in Statuses, Recover(c, s) PROVE TypeOK'
    BY <2>2, SetStatusType DEF TypeOK, Recover, ledger, Statuses
  <2>3. ASSUME NEW c \in Calls, NEW s \in Statuses, Skip(c, s) PROVE TypeOK'
    BY <2>3 DEF TypeOK, Skip, rows, ledger
  <2> QED  BY <1>4, <2>1, <2>2, <2>3 DEF Worker
<1>5. ASSUME Admin PROVE TypeOK'
  <2>1. ASSUME NEW c \in Trashable, TrashedTransfer(c) PROVE TypeOK'
    BY <2>1, ScopeAssumption DEF TypeOK, TrashedTransfer, rows, ledger
  <2>2. ASSUME NEW S \in SUBSET trashed, RestoreTransfers(S) PROVE TypeOK'
    BY <2>2 DEF TypeOK, RestoreTransfers, rows, ledger
  <2>3. ASSUME NEW S \in SUBSET trashed, DeleteTransfers(S) PROVE TypeOK'
    BY <2>3 DEF TypeOK, DeleteTransfers, ledger
  <2> QED  BY <1>5, <2>1, <2>2, <2>3 DEF Admin
<1>6. ASSUME NEW k \in Expiring, Expire(k) PROVE TypeOK'
  BY <1>6 DEF TypeOK, Expire, rows, ledger
<1>7. ASSUME NEW c \in Amendable, UpdateSucceeds(c) \/ MarkTransferAsFailed(c) PROVE TypeOK'
  BY <1>7, ScopeAssumption
     DEF TypeOK, UpdateSucceeds, MarkTransferAsFailed, Amend, UpdateTransferStatus, Touch, ledger,
         Statuses
<1>8. CASE UNCHANGED vars
  BY <1>8 DEF TypeOK, vars, rows, ledger
<1> QED  BY <1>1, <1>2, <1>3, <1>4, <1>5, <1>6, <1>7, <1>8 DEF Next

\* Every variable of Transfer keeps its type in every behaviour.
THEOREM TypeCorrect == Spec => []TypeOK
BY TypeInit, TypeNext, PTL DEF Spec

-----------------------------------------------------------------------------

\* What a guarded status write does to the call's row and place.
Wrote(c, from, to, done, failed) ==
  /\ pc' = [pc EXCEPT ![c] = pc'[c]]
  /\ status' = [status EXCEPT ![c] = status'[c]]
  /\ amended' = amended
  /\ \/ pc'[c] \in {done, failed} /\ status[c] = from /\ status'[c] = to
     \/ pc'[c] = failed /\ status'[c] = status[c]

\* A handler goes on after a status write only when its row made the transition.
LEMMA GuardStatusMoves ==
  ASSUME TypeOK, NEW c \in Calls, NEW from, NEW to, NEW done, NEW failed,
         GuardStatus(c, from, to, done, failed)
  PROVE  Wrote(c, from, to, done, failed)
BY DEF TypeOK, GuardStatus, Matches, SetStatus, UpdateTransferStatus, Goto, rows, Wrote

\* What a saldo call does to the call's legs and place.
Asked(c, leg, done, failed) ==
  /\ pc' = [pc EXCEPT ![c] = pc'[c]]
  /\ legs' = [legs EXCEPT ![c] = legs'[c]]
  /\ inflight' = [inflight EXCEPT ![c] = inflight'[c]]
  /\ \/ pc'[c] = done /\ legs'[c] = legs[c] \cup {leg} /\ inflight'[c] = inflight[c]
     \/ /\ pc'[c] = failed /\ legs'[c] = legs[c]
        /\ inflight'[c] \in {inflight[c], inflight[c] \cup {leg}}

\* A handler goes on after a saldo call only when the leg is booked.
LEMMA RpcMoves ==
  ASSUME TypeOK, NEW c \in Calls, NEW leg \in Legs, NEW done, NEW failed,
         Rpc(c, leg, done, failed)
  PROVE  Asked(c, leg, done, failed)
BY DEF TypeOK, Rpc, Book, Goto, ledger, Asked

\* A call whose handler, legs, event and response stay as they are keeps its
\* place, also when its row is deleted or quarantined.
LEMMA Frame ==
  ASSUME NEW d \in Calls, Placed(d),
         pc'[d] = pc[d], legs'[d] = legs[d], inflight'[d] = inflight[d],
         \/ status'[d] \in {status[d], "none"}
         \/ status[d] \in {"processing", "compensating"} /\ status'[d] = "unknown",
         amended' = amended,
         Emitted(d)' => Emitted(d), Stored(d)' => Stored(d)
  PROVE  Placed(d)'
<1>1. Progress(d)'  BY DEF Placed, Progress, Sent
<1>2. Chain(d)'  BY DEF Placed, Chain, Sent
<1>3. Final(d)'  BY DEF Placed, Final, Sent
<1> QED  BY <1>1, <1>2, <1>3 DEF Placed

\* Before any call starts, nothing is booked, stored or announced.
LEMMA InvInit == Init => Inv
<1> SUFFICES ASSUME Init PROVE \A c \in Calls : Placed(c)
  BY TypeInit DEF Inv
<1> TAKE c \in Calls
<1> QED
  BY DEF Init, Placed, Progress, Chain, Final, Emitted, Stored, Sent, Rowless, Unsent, Gone

\* A handler's step leaves the other calls' rows, legs, events and responses alone.
Local(c) ==
  /\ amended' = amended
  /\ \A d \in Calls \ {c} :
       /\ pc'[d] = pc[d] /\ status'[d] = status[d]
       /\ legs'[d] = legs[d] /\ inflight'[d] = inflight[d]
       /\ Emitted(d)' => Emitted(d)
       /\ Stored(d)' => Stored(d)

\* A handler's step leaves the row, the legs and the answers of other calls alone.
LEMMA HandleIsLocal ==
  ASSUME TypeOK, NEW c \in Calls, Handle(c)
  PROVE  Local(c)
<1> USE DEF Local, Emitted, Stored
<1>1. CASE Begin(c)
  BY <1>1 DEF TypeOK, Begin, Goto, rows, ledger
<1>2. CASE Claim(c)
  <2>1. UNCHANGED <<status, amended, legs, inflight, outbox>>
    BY <1>2 DEF Claim, rows, ledger
  <2>4. pc' \in {[pc EXCEPT ![c] = "check"], [pc EXCEPT ![c] = "lookup"]}
    BY <1>2 DEF Claim, Goto
  <2>5. \A d \in Calls \ {c} : pc'[d] = pc[d]
    BY <2>4 DEF TypeOK
  <2>2. \A k \in Keys : idem'[k] = idem[k] \/ idem'[k].resource = c
    BY <1>2 DEF TypeOK, Claim
  <2>3. \A d \in Calls \ {c} : Stored(d)' => Stored(d)
    BY <2>2
  <2> QED  BY <2>1, <2>3, <2>5
<1>3. CASE Lookup(c)
  BY <1>3 DEF TypeOK, Lookup, Goto, rows, ledger
<1>4. CASE Check(c)
  BY <1>4 DEF TypeOK, Check, Goto, rows, ledger
<1>5. CASE CreateTransfer(c)
  BY <1>5 DEF TypeOK, CreateTransfer, SetStatus, UpdateTransferStatus, Goto, rows, ledger
<1>6. CASE BeginProcessing(c)
  <2>1. Wrote(c, "pending", "processing", "debit", "release")
    BY <1>6, GuardStatusMoves DEF BeginProcessing
  <2> QED  BY <1>6, <2>1 DEF TypeOK, BeginProcessing, Wrote, ledger
<1>7. CASE MarkFailed(c)
  <2>1. Wrote(c, "processing", "failed", "release", "release")
    BY <1>7, GuardStatusMoves DEF MarkFailed
  <2> QED  BY <1>7, <2>1 DEF TypeOK, MarkFailed, Wrote, ledger
<1>8. CASE Quarantine(c)
  <2>1. Wrote(c, "processing", "unknown", "release", "release")
    BY <1>8, GuardStatusMoves DEF Quarantine
  <2> QED  BY <1>8, <2>1 DEF TypeOK, Quarantine, Wrote, ledger
<1>9. CASE Settle(c)
  <2>1. Wrote(c, "processing", "success", "enqueue", "compensate")
    BY <1>9, GuardStatusMoves DEF Settle
  <2> QED  BY <1>9, <2>1 DEF TypeOK, Settle, Wrote, ledger
<1>10. CASE StartCompensation(c)
  <2>1. Wrote(c, "processing", "compensating", "compDebit", "release")
    BY <1>10, GuardStatusMoves DEF StartCompensation
  <2> QED  BY <1>10, <2>1 DEF TypeOK, StartCompensation, Wrote, ledger
<1>11. CASE MarkCompensated(c)
  <2>1. Wrote(c, "compensating", "compensated", "release", "release")
    BY <1>11, GuardStatusMoves DEF MarkCompensated
  <2> QED  BY <1>11, <2>1 DEF TypeOK, MarkCompensated, Wrote, ledger
<1>12. CASE QuarantineCompensation(c)
  <2>1. Wrote(c, "compensating", "unknown", "release", "release")
    BY <1>12, GuardStatusMoves DEF QuarantineCompensation
  <2> QED  BY <1>12, <2>1 DEF TypeOK, QuarantineCompensation, Wrote, ledger
<1>13. CASE DebitSender(c)
  <2>1. Asked(c, "sender-debit", "credit", "fail")
    BY <1>13, RpcMoves DEF DebitSender, Legs
  <2> QED  BY <1>13, <2>1 DEF TypeOK, DebitSender, Asked, rows, Legs
<1>14. CASE CreditReceiver(c)
  <2>1. Asked(c, "receiver-credit", "settle", "quarantine")
    BY <1>14, RpcMoves DEF CreditReceiver, Legs
  <2> QED  BY <1>14, <2>1 DEF TypeOK, CreditReceiver, Asked, rows, Legs
<1>15. CASE DebitReceiver(c)
  <2>1. Asked(c, "receiver-compensation", "compCredit", "compUnknown")
    BY <1>15, RpcMoves DEF DebitReceiver, Legs
  <2> QED  BY <1>15, <2>1 DEF TypeOK, DebitReceiver, Asked, rows, Legs
<1>16. CASE CreditSender(c)
  <2>1. Asked(c, "sender-compensation", "compDone", "compUnknown")
    BY <1>16, RpcMoves DEF CreditSender, Legs
  <2> QED  BY <1>16, <2>1 DEF TypeOK, CreditSender, Asked, rows, Legs
<1>17. CASE Enqueue(c)
  BY <1>17 DEF TypeOK, Enqueue, Goto, rows, ledger
<1>18. CASE Complete(c)
  <2>1. \A k \in Keys : idem'[k] = idem[k] \/ idem'[k].resource = c
    BY <1>18 DEF TypeOK, Complete
  <2>2. \A d \in Calls \ {c} : Stored(d)' => Stored(d)
    BY <2>1
  <2> QED  BY <1>18, <2>2 DEF TypeOK, Complete, Goto, rows, ledger
<1>19. CASE Release(c)
  BY <1>19 DEF TypeOK, Release, Goto, rows, ledger
<1> QED
  BY <1>1, <1>2, <1>3, <1>4, <1>5, <1>6, <1>7, <1>8, <1>9, <1>10, <1>11, <1>12, <1>13, <1>14, <1>15, <1>16, <1>17, <1>18, <1>19 DEF Handle

\* A handler's step takes its own call from one place of the invariant to another.
LEMMA HandlePlaces ==
  ASSUME TypeOK, NEW c \in Calls, Placed(c), Handle(c)
  PROVE  Placed(c)'
<1> USE DEF Placed, Progress, Chain, Final, Emitted, Stored, Sent, Rowless, Unsent, Gone, Settled
<1>1. CASE Begin(c)
  BY <1>1 DEF TypeOK, Begin, Goto, rows, ledger
<1>2. CASE Claim(c)
  <2>1. UNCHANGED <<status, amended, legs, inflight, outbox>> /\ pc[c] = "claim"
    BY <1>2 DEF Claim, rows, ledger
  <2>2. pc'[c] \in {"check", "lookup"}
    BY <1>2 DEF TypeOK, Claim, Goto
  <2>3. \A k \in Keys : idem'[k] = idem[k] \/ idem'[k].status # "success"
    BY <1>2 DEF TypeOK, Claim
  <2>4. Stored(c)' => Stored(c)
    BY <2>3
  <2> QED  BY <2>1, <2>2, <2>4
<1>3. CASE Lookup(c)
  BY <1>3 DEF TypeOK, Lookup, Goto, rows, ledger
<1>4. CASE Check(c)
  BY <1>4 DEF TypeOK, Check, Goto, rows, ledger
<1>5. CASE CreateTransfer(c)
  BY <1>5 DEF TypeOK, CreateTransfer, SetStatus, UpdateTransferStatus, Goto, rows, ledger
<1>6. CASE BeginProcessing(c)
  <2>1. Wrote(c, "pending", "processing", "debit", "release")
    BY <1>6, GuardStatusMoves DEF BeginProcessing
  <2> QED  BY <1>6, <2>1 DEF TypeOK, BeginProcessing, Wrote, ledger
<1>7. CASE MarkFailed(c)
  <2>1. Wrote(c, "processing", "failed", "release", "release")
    BY <1>7, GuardStatusMoves DEF MarkFailed
  <2> QED  BY <1>7, <2>1 DEF TypeOK, MarkFailed, Wrote, ledger
<1>8. CASE Quarantine(c)
  <2>1. Wrote(c, "processing", "unknown", "release", "release")
    BY <1>8, GuardStatusMoves DEF Quarantine
  <2> QED  BY <1>8, <2>1 DEF TypeOK, Quarantine, Wrote, ledger
<1>9. CASE Settle(c)
  <2>1. Wrote(c, "processing", "success", "enqueue", "compensate")
    BY <1>9, GuardStatusMoves DEF Settle
  <2> QED  BY <1>9, <2>1 DEF TypeOK, Settle, Wrote, ledger
<1>10. CASE StartCompensation(c)
  <2>1. Wrote(c, "processing", "compensating", "compDebit", "release")
    BY <1>10, GuardStatusMoves DEF StartCompensation
  <2> QED  BY <1>10, <2>1 DEF TypeOK, StartCompensation, Wrote, ledger
<1>11. CASE MarkCompensated(c)
  <2>1. Wrote(c, "compensating", "compensated", "release", "release")
    BY <1>11, GuardStatusMoves DEF MarkCompensated
  <2> QED  BY <1>11, <2>1 DEF TypeOK, MarkCompensated, Wrote, ledger
<1>12. CASE QuarantineCompensation(c)
  <2>1. Wrote(c, "compensating", "unknown", "release", "release")
    BY <1>12, GuardStatusMoves DEF QuarantineCompensation
  <2> QED  BY <1>12, <2>1 DEF TypeOK, QuarantineCompensation, Wrote, ledger
<1>13. CASE DebitSender(c)
  <2>1. Asked(c, "sender-debit", "credit", "fail")
    BY <1>13, RpcMoves DEF DebitSender, Legs
  <2> QED  BY <1>13, <2>1 DEF TypeOK, DebitSender, Asked, rows, Legs
<1>14. CASE CreditReceiver(c)
  <2>1. Asked(c, "receiver-credit", "settle", "quarantine")
    BY <1>14, RpcMoves DEF CreditReceiver, Legs
  <2> QED  BY <1>14, <2>1 DEF TypeOK, CreditReceiver, Asked, rows, Legs
<1>15. CASE DebitReceiver(c)
  <2>1. Asked(c, "receiver-compensation", "compCredit", "compUnknown")
    BY <1>15, RpcMoves DEF DebitReceiver, Legs
  <2> QED  BY <1>15, <2>1 DEF TypeOK, DebitReceiver, Asked, rows, Legs
<1>16. CASE CreditSender(c)
  <2>1. Asked(c, "sender-compensation", "compDone", "compUnknown")
    BY <1>16, RpcMoves DEF CreditSender, Legs
  <2> QED  BY <1>16, <2>1 DEF TypeOK, CreditSender, Asked, rows, Legs
<1>17. CASE Enqueue(c)
  BY <1>17 DEF TypeOK, Enqueue, Goto, rows, ledger
<1>18. CASE Complete(c)
  BY <1>18 DEF TypeOK, Complete, Goto, rows, ledger
<1>19. CASE Release(c)
  BY <1>19 DEF TypeOK, Release, Goto, rows, ledger
<1> QED
  BY <1>1, <1>2, <1>3, <1>4, <1>5, <1>6, <1>7, <1>8, <1>9, <1>10, <1>11, <1>12, <1>13, <1>14, <1>15, <1>16, <1>17, <1>18, <1>19 DEF Handle

\* A saldo request executed after its caller gave up leaves its call in place:
\* the handler has stopped, or is about to quarantine or fail the row.
LEMMA DeliverLatePlaces ==
  ASSUME TypeOK, NEW c \in Calls, Placed(c), NEW leg \in Legs, DeliverLate(c, leg)
  PROVE  Placed(c)'
<1>1. /\ leg \in inflight[c] /\ inflight'[c] = inflight[c] \ {leg}
      /\ legs'[c] \in {legs[c], legs[c] \cup {leg}}
      /\ UNCHANGED <<pc, status, amended, outbox, idem>>
  BY DEF TypeOK, DeliverLate, Book, rows
<1>2. Sent(c)' \subseteq Sent(c) /\ legs[c] \subseteq legs'[c] /\ legs'[c] \subseteq Sent(c)
  BY <1>1 DEF Sent
<1>3. Emitted(c)' = Emitted(c) /\ Stored(c)' = Stored(c)
  BY <1>1 DEF Emitted, Stored
<1>4. Progress(c)'
  BY <1>1, <1>2 DEF Placed, Progress, Sent
<1>5. Chain(c)'
  BY <1>1, <1>2 DEF Placed, Chain, Sent
<1>6. Final(c)'
  BY <1>1, <1>2, <1>3 DEF Placed, Final, Sent
<1> QED  BY <1>4, <1>5, <1>6 DEF Placed

\* The status of an update on a row leaves the handler's legs as they are.
LEMMA AmendPlaces ==
  ASSUME TypeOK, NEW c \in Amendable, NEW s \in {"success", "failed"}, Amend(c, s),
         NEW d \in Calls, Placed(d)
  PROVE  Placed(d)'
<1>1. /\ UNCHANGED <<pc, legs, inflight, outbox, idem>> /\ c \in Calls /\ status[c] # "none"
      /\ status' = [status EXCEPT ![c] = s] /\ amended' = amended \cup {c}
  BY ScopeAssumption DEF Amend, UpdateTransferStatus, ledger
<1>2. status'[d] = IF d = c THEN s ELSE status[d]
  BY <1>1 DEF TypeOK
<1>3. pc[d] \in Rowless => d # c
  BY <1>1 DEF Placed, Progress
<1> QED
  BY <1>1, <1>2, <1>3 DEF Placed, Progress, Chain, Final, Sent, Emitted, Stored

\* Inv is inductive: a handler's step and a late delivery concern one call,
\* and the worker, the operators, updates and the expiry only reach rows and
\* records.
LEMMA InvNext == Inv /\ [Next]_vars => Inv'
<1> SUFFICES ASSUME Inv, [Next]_vars, NEW d \in Calls PROVE Placed(d)'
  BY TypeNext DEF Inv
<1> USE DEF Inv
<1>1. ASSUME NEW c \in Calls, Handle(c) PROVE Placed(d)'
  <2>1. CASE d = c
    BY <1>1, <2>1, HandlePlaces
  <2>2. CASE d # c
    BY <1>1, <2>2, HandleIsLocal, Frame DEF Local
  <2> QED  BY <2>1, <2>2
<1>2. ASSUME NEW c \in Calls, Crash(c) PROVE Placed(d)'
  <2>1. UNCHANGED <<status, amended, legs, inflight, outbox, idem>> /\ pc' = [pc EXCEPT ![c] = "crashed"]
    BY <1>2 DEF Crash, Goto, rows, ledger
  <2>2. CASE d = c
    <3>1. pc'[d] = "crashed" /\ pc[d] \in Running  BY <1>2, <2>1, <2>2 DEF TypeOK, Crash
    <3> QED
      BY <2>1, <3>1 DEF Placed, Progress, Chain, Final, Emitted, Stored, Sent, Rowless, Unsent,
                        Gone, Running, Owning
  <2>3. CASE d # c
    BY <2>1, <2>3, Frame DEF TypeOK, Emitted, Stored
  <2> QED  BY <2>2, <2>3
<1>3. ASSUME NEW c \in Calls, NEW leg \in Legs, DeliverLate(c, leg) PROVE Placed(d)'
  <2>1. CASE d = c
    BY <1>3, <2>1, DeliverLatePlaces
  <2>2. CASE d # c
    BY <1>3, <2>2, Frame DEF TypeOK, DeliverLate, Book, rows, Emitted, Stored
  <2> QED  BY <2>1, <2>2
<1>4. ASSUME Worker PROVE Placed(d)'
  <2>1. UNCHANGED <<pc, amended, legs, inflight, outbox, idem>>
    BY <1>4 DEF Worker, ListStuck, Recover, Skip, SetStatus, rows, ledger
  <2>2. \/ status'[d] = status[d]
        \/ status[d] \in {"processing", "compensating"} /\ status'[d] = "unknown"
    BY <1>4 DEF TypeOK, Worker, ListStuck, Recover, Skip, rows, SetStatus, UpdateTransferStatus,
                Matches, CanTransition, AllowedTransitions
  <2> QED  BY <2>1, <2>2, Frame DEF Emitted, Stored
<1>5. ASSUME Admin PROVE Placed(d)'
  <2>1. UNCHANGED <<pc, amended, legs, inflight, outbox, idem>>
    BY <1>5 DEF Admin, TrashedTransfer, RestoreTransfers, DeleteTransfers, rows, ledger
  <2>2. status'[d] \in {status[d], "none"}
    BY <1>5 DEF Admin, TrashedTransfer, RestoreTransfers, DeleteTransfers, rows
  <2> QED  BY <2>1, <2>2, Frame DEF Emitted, Stored
<1>6. ASSUME NEW k \in Expiring, Expire(k) PROVE Placed(d)'
  <2>1. UNCHANGED <<pc, status, amended, legs, inflight, outbox>>
        /\ \A i \in Keys : idem'[i] \in {idem[i], NoRecord}
    BY <1>6 DEF TypeOK, Expire, rows, ledger
  <2> QED  BY <2>1, Frame DEF Emitted, Stored
<1>7. ASSUME NEW c \in Amendable, UpdateSucceeds(c) \/ MarkTransferAsFailed(c) PROVE Placed(d)'
  BY <1>7, AmendPlaces DEF UpdateSucceeds, MarkTransferAsFailed
<1>8. CASE UNCHANGED vars
  BY <1>8, Frame DEF vars, rows, ledger, Emitted, Stored
<1> QED  BY <1>1, <1>2, <1>3, <1>4, <1>5, <1>6, <1>7, <1>8 DEF Next

\* Inv holds in every behaviour.
LEMMA Invariance == Spec => []Inv
BY InvInit, InvNext, PTL DEF Spec

\* What is announced as a success has moved exactly the two legs of the
\* transfer, and nothing of it is reversed or still in flight.
THEOREM SuccessSettled == Spec => []SuccessIsSettled
<1>1. Inv => SuccessIsSettled
  BY DEF Inv, Placed, Progress, Final, SuccessIsSettled, Announced, Emitted, Stored
<1> QED  BY <1>1, Invariance, PTL

\* A compensated transfer has all four bookings.
THEOREM CompensatedReversed == Spec => []CompensatedIsReversed
<1>1. Inv => CompensatedIsReversed
  BY DEF Inv, Placed, Final, CompensatedIsReversed
<1> QED  BY <1>1, Invariance, PTL

\* A row that is still pending has moved no money, so it may wait for ever.
THEOREM PendingMovedNothing == Spec => []PendingMovesNothing
<1>1. Inv => PendingMovesNothing
  BY DEF Inv, Placed, Final, PendingMovesNothing, Sent
<1> QED  BY <1>1, Invariance, PTL

\* Neither a handler at work nor a worker with an old list takes back what an
\* update wrote.
THEOREM AmendmentsStand == Spec => []AmendmentStands
<1>1. Inv => AmendmentStands
  BY DEF Inv, TypeOK, Placed, Final, AmendmentStands
<1> QED  BY <1>1, Invariance, PTL

-----------------------------------------------------------------------------

\* Only a call with a key claims it or looks it up.
Keyed == \A c \in Calls : pc[c] \in {"claim", "lookup"} => Key(c) # NoKey

KeyInv == TypeOK /\ Keyed /\ ExclusiveKey

\* A step that leaves records and requests alone and lets no call with a key
\* into an owning place keeps the ownership of keys.
LEMMA OwnersStay ==
  ASSUME ExclusiveKey, UNCHANGED <<request, idem>>,
         \A d \in Calls : pc'[d] \in Owning /\ Key(d) # NoKey => pc[d] \in Owning
  PROVE  ExclusiveKey'
BY DEF ExclusiveKey, Key, Body

\* The owner of a key may do with the record what it likes when it leaves.
LEMMA OwnerLeaves ==
  ASSUME TypeOK, ExclusiveKey, NEW c \in Calls, pc[c] \in Owning, UNCHANGED request,
         NEW place, place \notin Owning, pc' = [pc EXCEPT ![c] = place],
         \A k \in Keys : k # Key(c) => idem'[k] = idem[k]
  PROVE  ExclusiveKey'
<1> SUFFICES ASSUME NEW d \in Calls, Key(d) # NoKey, pc'[d] \in Owning
             PROVE  /\ idem'[Key(d)] = idem[Key(d)] /\ pc[d] \in Owning
                    /\ \A e \in Calls : pc'[e] \in Owning => pc[e] \in Owning
  BY DEF ExclusiveKey, Key, Body
<1>1. d # c /\ pc[d] \in Owning  BY DEF TypeOK
<1>2. Key(d) # Key(c)  BY <1>1 DEF ExclusiveKey
<1>3. Key(d) \in Keys  BY RequestFacts
<1> QED  BY <1>1, <1>2, <1>3 DEF TypeOK

\* The other steps of a handler: the record is left alone, and a call with a
\* key is not let in.
LEMMA HandlerKeeps ==
  ASSUME TypeOK, NEW c \in Calls, Handle(c), ~Claim(c), ~Complete(c), ~Release(c)
  PROVE  /\ UNCHANGED <<request, idem>> /\ pc' = [pc EXCEPT ![c] = pc'[c]]
         /\ pc'[c] \in Owning => pc[c] \in Owning \/ Key(c) = NoKey
         /\ pc'[c] \in {"claim", "lookup"} => Key(c) # NoKey
<1> USE DEF Owning
<1>1. CASE Begin(c)
  BY <1>1 DEF TypeOK, Begin, Goto
<1>2. CASE Lookup(c)
  BY <1>2 DEF TypeOK, Lookup, Goto
<1>3. CASE Check(c)
  BY <1>3 DEF TypeOK, Check, Goto
<1>4. CASE CreateTransfer(c)
  BY <1>4 DEF TypeOK, CreateTransfer, Goto
<1>5. CASE Enqueue(c)
  BY <1>5 DEF TypeOK, Enqueue, Goto
<1>6. CASE BeginProcessing(c)
  <2>1. Wrote(c, "pending", "processing", "debit", "release")
    BY <1>6, GuardStatusMoves DEF BeginProcessing
  <2> QED  BY <1>6, <2>1 DEF BeginProcessing, Wrote
<1>7. CASE MarkFailed(c)
  <2>1. Wrote(c, "processing", "failed", "release", "release")
    BY <1>7, GuardStatusMoves DEF MarkFailed
  <2> QED  BY <1>7, <2>1 DEF MarkFailed, Wrote
<1>8. CASE Quarantine(c)
  <2>1. Wrote(c, "processing", "unknown", "release", "release")
    BY <1>8, GuardStatusMoves DEF Quarantine
  <2> QED  BY <1>8, <2>1 DEF Quarantine, Wrote
<1>9. CASE Settle(c)
  <2>1. Wrote(c, "processing", "success", "enqueue", "compensate")
    BY <1>9, GuardStatusMoves DEF Settle
  <2> QED  BY <1>9, <2>1 DEF Settle, Wrote
<1>10. CASE StartCompensation(c)
  <2>1. Wrote(c, "processing", "compensating", "compDebit", "release")
    BY <1>10, GuardStatusMoves DEF StartCompensation
  <2> QED  BY <1>10, <2>1 DEF StartCompensation, Wrote
<1>11. CASE MarkCompensated(c)
  <2>1. Wrote(c, "compensating", "compensated", "release", "release")
    BY <1>11, GuardStatusMoves DEF MarkCompensated
  <2> QED  BY <1>11, <2>1 DEF MarkCompensated, Wrote
<1>12. CASE QuarantineCompensation(c)
  <2>1. Wrote(c, "compensating", "unknown", "release", "release")
    BY <1>12, GuardStatusMoves DEF QuarantineCompensation
  <2> QED  BY <1>12, <2>1 DEF QuarantineCompensation, Wrote
<1>13. CASE DebitSender(c)
  <2>1. Asked(c, "sender-debit", "credit", "fail")
    BY <1>13, RpcMoves DEF DebitSender, Legs
  <2> QED  BY <1>13, <2>1 DEF DebitSender, Asked
<1>14. CASE CreditReceiver(c)
  <2>1. Asked(c, "receiver-credit", "settle", "quarantine")
    BY <1>14, RpcMoves DEF CreditReceiver, Legs
  <2> QED  BY <1>14, <2>1 DEF CreditReceiver, Asked
<1>15. CASE DebitReceiver(c)
  <2>1. Asked(c, "receiver-compensation", "compCredit", "compUnknown")
    BY <1>15, RpcMoves DEF DebitReceiver, Legs
  <2> QED  BY <1>15, <2>1 DEF DebitReceiver, Asked
<1>16. CASE CreditSender(c)
  <2>1. Asked(c, "sender-compensation", "compDone", "compUnknown")
    BY <1>16, RpcMoves DEF CreditSender, Legs
  <2> QED  BY <1>16, <2>1 DEF CreditSender, Asked
<1> QED
  BY <1>1, <1>2, <1>3, <1>4, <1>5, <1>6, <1>7, <1>8, <1>9, <1>10, <1>11, <1>12, <1>13, <1>14, <1>15, <1>16 DEF Handle

\* No call holds a key before it starts.
LEMMA KeyInit == Init => KeyInv
BY TypeInit DEF Init, KeyInv, Keyed, ExclusiveKey, Owning

\* The ownership of keys is inductive: only Claim lets a call in, and only on a
\* key without a record; an owner's record can neither expire nor be replaced.
LEMMA KeyNext == KeyInv /\ [Next]_vars => KeyInv'
<1> SUFFICES ASSUME KeyInv, [Next]_vars PROVE Keyed' /\ ExclusiveKey'
  BY TypeNext DEF KeyInv
<1> USE DEF KeyInv
<1>1. ASSUME NEW c \in Calls, Claim(c) PROVE Keyed' /\ ExclusiveKey'
  <2>1. Key(c) \in Keys /\ Key(c) # NoKey /\ UNCHANGED request
    BY <1>1, RequestFacts DEF Claim, Keyed
  <2>2. CASE UNCHANGED idem /\ Goto(c, "lookup")
    <3>1. Keyed'  BY <2>1, <2>2 DEF TypeOK, Keyed, Goto, Key
    <3>2. ExclusiveKey'  BY <2>1, <2>2, OwnersStay DEF TypeOK, Goto, Owning
    <3> QED  BY <3>1, <3>2
  <2>3. CASE /\ idem[Key(c)] = NoRecord
             /\ idem' = [idem EXCEPT ![Key(c)] =
                           [hash |-> Body(c), status |-> "processing", resource |-> c]]
             /\ Goto(c, "check") \/ Goto(c, "lookup")
    <3> DEFINE r == [hash |-> Body(c), status |-> "processing", resource |-> c]
    <3>1. Keyed'  BY <2>1, <2>3 DEF TypeOK, Keyed, Goto, Key
    <3>2. r # NoRecord
      BY SentinelAssumption, RequestFacts DEF Records
    <3>3. /\ idem'[Key(c)] = r
          /\ \A k \in Keys : k # Key(c) => idem'[k] = idem[k]
          /\ \A d \in Calls \ {c} : pc'[d] = pc[d]
      BY <2>1, <2>3 DEF TypeOK, Goto
    <3>4. \A d \in Calls : pc[d] \in Owning /\ Key(d) # NoKey => Key(d) # Key(c)
      BY <2>3 DEF ExclusiveKey
    <3>5. \A d \in Calls : Key(d)' = Key(d) /\ Body(d)' = Body(d) /\ Key(d) \in Keys \cup {NoKey}
      BY <2>1, RequestFacts DEF Key, Body
    <3>6. ExclusiveKey'
      BY <3>2, <3>3, <3>4, <3>5 DEF ExclusiveKey
    <3> QED  BY <3>1, <3>6
  <2> QED  BY <1>1, <2>2, <2>3 DEF Claim
<1>2. ASSUME NEW c \in Calls, Complete(c) PROVE Keyed' /\ ExclusiveKey'
  <2>1. /\ pc[c] \in Owning /\ pc' = [pc EXCEPT ![c] = "ok"] /\ "ok" \notin Owning
        /\ UNCHANGED request /\ \A k \in Keys : k # Key(c) => idem'[k] = idem[k]
    BY <1>2 DEF TypeOK, Complete, Goto, Owning
  <2> QED  BY <2>1, OwnerLeaves DEF TypeOK, Keyed, Key
<1>3. ASSUME NEW c \in Calls, Release(c) PROVE Keyed' /\ ExclusiveKey'
  <2>1. /\ pc[c] \in Owning /\ pc' = [pc EXCEPT ![c] = "error"] /\ "error" \notin Owning
        /\ UNCHANGED request /\ \A k \in Keys : k # Key(c) => idem'[k] = idem[k]
    BY <1>3 DEF TypeOK, Release, Goto, Owning
  <2> QED  BY <2>1, OwnerLeaves DEF TypeOK, Keyed, Key
<1>4. ASSUME NEW c \in Calls, Handle(c), ~Claim(c), ~Complete(c), ~Release(c)
      PROVE  Keyed' /\ ExclusiveKey'
  <2>1. /\ UNCHANGED <<request, idem>> /\ pc' = [pc EXCEPT ![c] = pc'[c]]
        /\ pc'[c] \in Owning => pc[c] \in Owning \/ Key(c) = NoKey
        /\ pc'[c] \in {"claim", "lookup"} => Key(c) # NoKey
    BY <1>4, HandlerKeeps
  <2>2. \A d \in Calls \ {c} : pc'[d] = pc[d]  BY <2>1 DEF TypeOK
  <2>3. Keyed'  BY <2>1, <2>2 DEF Keyed, Key
  <2>4. ExclusiveKey'  BY <2>1, <2>2, OwnersStay
  <2> QED  BY <2>3, <2>4
<1>5. ASSUME NEW c \in Calls, Crash(c) PROVE Keyed' /\ ExclusiveKey'
  <2>1. UNCHANGED <<request, idem>> /\ pc' = [pc EXCEPT ![c] = "crashed"]
    BY <1>5 DEF Crash, Goto
  <2>2. \A d \in Calls : pc'[d] \in {pc[d], "crashed"}  BY <2>1 DEF TypeOK
  <2>3. Keyed'  BY <2>1, <2>2 DEF Keyed, Key
  <2>4. ExclusiveKey'  BY <2>1, <2>2, OwnersStay DEF Owning
  <2> QED  BY <2>3, <2>4
<1>6. ASSUME NEW k \in Expiring, Expire(k) PROVE Keyed' /\ ExclusiveKey'
  BY <1>6 DEF TypeOK, Expire, Keyed, ExclusiveKey, Key, Body
<1>7. ASSUME UNCHANGED <<request, idem, pc>> PROVE Keyed' /\ ExclusiveKey'
  BY <1>7, OwnersStay DEF Keyed, Key
<1>8. ASSUME \/ \E c \in Calls, leg \in Legs : DeliverLate(c, leg)
             \/ \E c \in Amendable : UpdateSucceeds(c) \/ MarkTransferAsFailed(c)
             \/ Worker \/ Admin \/ UNCHANGED vars
      PROVE  UNCHANGED <<request, idem, pc>>
  BY <1>8 DEF DeliverLate, UpdateSucceeds, MarkTransferAsFailed, Amend, Worker, ListStuck, Recover, Skip, Admin, TrashedTransfer,
         RestoreTransfers, DeleteTransfers, vars
<1> QED  BY <1>1, <1>2, <1>3, <1>4, <1>5, <1>6, <1>7, <1>8 DEF Next

\* Two calls never act under the same idempotency key at the same time, and the
\* record of a key in use belongs to the call that uses it.
THEOREM KeyExclusive == Spec => []ExclusiveKey
<1>1. KeyInv => ExclusiveKey
  BY DEF KeyInv
<1> QED  BY <1>1, KeyInit, KeyNext, PTL DEF Spec

-----------------------------------------------------------------------------

\* A request that moves money has passed the validation of its amount.
Vetted(c) == pc[c] \in Owning \ {"check", "release"} \/ Sent(c) # {} => Body(c).amount > 0

FundsInv == TypeOK /\ (\A c \in Calls : Vetted(c)) /\ NoOverdraft

\* Booking a positive amount overdraws no card: a debit is admitted only when
\* the funds are there.
LEMMA BookFunds ==
  ASSUME TypeOK, NoOverdraft, NEW c \in Calls, NEW leg \in Legs, Body(c).amount > 0,
         Admits(c, leg), Book(c, leg)
  PROVE  NoOverdraft'
<1>1. CardOf(c, leg) \in Cards /\ Body(c).amount \in Int
  BY RequestFacts DEF CardOf
<1>2. CASE leg \in legs[c]
  BY <1>2 DEF Book, NoOverdraft
<1>3. CASE leg \notin legs[c]
  <2>1. balance[CardOf(c, leg)] + Delta(c, leg) >= 0
    <3>1. CASE leg \in Debits
      BY <1>1, <1>3, <3>1 DEF TypeOK, Admits, Delta
    <3>2. CASE leg \notin Debits
      BY <1>1, <3>2 DEF TypeOK, NoOverdraft, Delta
    <3> QED  BY <3>1, <3>2
  <2> QED  BY <1>1, <1>3, <2>1 DEF TypeOK, Book, NoOverdraft
<1> QED  BY <1>2, <1>3

\* A saldo call, answered or not, overdraws no card.
LEMMA RpcFunds ==
  ASSUME TypeOK, NoOverdraft, NEW c \in Calls, NEW leg \in Legs, Body(c).amount > 0,
         NEW done, NEW failed, Rpc(c, leg, done, failed)
  PROVE  NoOverdraft'
BY BookFunds DEF Rpc, ledger, NoOverdraft

\* No step of a handler overdraws a card, and amounts it books are positive.
LEMMA HandleFunds ==
  ASSUME FundsInv, NEW c \in Calls, Handle(c)
  PROVE  NoOverdraft' /\ \A d \in Calls : Vetted(d)'
<1> USE DEF FundsInv, Owning
<1> DEFINE Quiet == /\ UNCHANGED <<request, ledger>> /\ pc' = [pc EXCEPT ![c] = pc'[c]]
                    /\ \/ pc'[c] \notin Owning \ {"check", "release"}
                       \/ pc[c] \in Owning \ {"check", "release"}
                       \/ Body(c).amount > 0
<1> DEFINE Calling == /\ UNCHANGED request /\ pc' = [pc EXCEPT ![c] = pc'[c]]
                      /\ pc[c] \in Owning \ {"check", "release"}
                      /\ legs' = [legs EXCEPT ![c] = legs'[c]]
                      /\ inflight' = [inflight EXCEPT ![c] = inflight'[c]]
                      /\ NoOverdraft'
<1>0. ASSUME Quiet PROVE NoOverdraft' /\ \A d \in Calls : Vetted(d)'
  <2>1. NoOverdraft'  BY <1>0 DEF NoOverdraft, ledger
  <2>2. \A d \in Calls : Vetted(d)'
    BY <1>0 DEF TypeOK, Vetted, Sent, Body, ledger
  <2> QED  BY <2>1, <2>2
<1>00. ASSUME Calling PROVE NoOverdraft' /\ \A d \in Calls : Vetted(d)'
  <2>1. \A d \in Calls : Vetted(d)'
    BY <1>00 DEF TypeOK, Vetted, Sent, Body
  <2> QED  BY <1>00, <2>1
<1>1. CASE Begin(c)
  BY <1>0, <1>1 DEF TypeOK, Begin, Goto
<1>2. CASE Claim(c)
  BY <1>0, <1>2 DEF TypeOK, Claim, Goto
<1>3. CASE Lookup(c)
  BY <1>0, <1>3 DEF TypeOK, Lookup, Goto
<1>4. CASE Check(c)
  BY <1>0, <1>4 DEF TypeOK, Check, Goto
<1>5. CASE CreateTransfer(c)
  BY <1>0, <1>5 DEF TypeOK, CreateTransfer, Goto
<1>6. CASE Enqueue(c)
  BY <1>0, <1>6 DEF TypeOK, Enqueue, Goto
<1>7. CASE Complete(c)
  BY <1>0, <1>7 DEF TypeOK, Complete, Goto
<1>8. CASE Release(c)
  BY <1>0, <1>8 DEF TypeOK, Release, Goto
<1>9. CASE BeginProcessing(c)
  <2>1. Wrote(c, "pending", "processing", "debit", "release")
    BY <1>9, GuardStatusMoves DEF BeginProcessing
  <2> QED  BY <1>0, <1>9, <2>1 DEF BeginProcessing, Wrote
<1>10. CASE MarkFailed(c)
  <2>1. Wrote(c, "processing", "failed", "release", "release")
    BY <1>10, GuardStatusMoves DEF MarkFailed
  <2> QED  BY <1>0, <1>10, <2>1 DEF MarkFailed, Wrote
<1>11. CASE Quarantine(c)
  <2>1. Wrote(c, "processing", "unknown", "release", "release")
    BY <1>11, GuardStatusMoves DEF Quarantine
  <2> QED  BY <1>0, <1>11, <2>1 DEF Quarantine, Wrote
<1>12. CASE Settle(c)
  <2>1. Wrote(c, "processing", "success", "enqueue", "compensate")
    BY <1>12, GuardStatusMoves DEF Settle
  <2> QED  BY <1>0, <1>12, <2>1 DEF Settle, Wrote
<1>13. CASE StartCompensation(c)
  <2>1. Wrote(c, "processing", "compensating", "compDebit", "release")
    BY <1>13, GuardStatusMoves DEF StartCompensation
  <2> QED  BY <1>0, <1>13, <2>1 DEF StartCompensation, Wrote
<1>14. CASE MarkCompensated(c)
  <2>1. Wrote(c, "compensating", "compensated", "release", "release")
    BY <1>14, GuardStatusMoves DEF MarkCompensated
  <2> QED  BY <1>0, <1>14, <2>1 DEF MarkCompensated, Wrote
<1>15. CASE QuarantineCompensation(c)
  <2>1. Wrote(c, "compensating", "unknown", "release", "release")
    BY <1>15, GuardStatusMoves DEF QuarantineCompensation
  <2> QED  BY <1>0, <1>15, <2>1 DEF QuarantineCompensation, Wrote
<1>16. CASE DebitSender(c)
  <2>1. Asked(c, "sender-debit", "credit", "fail")
    BY <1>16, RpcMoves DEF DebitSender, Legs
  <2>2. pc[c] \in Owning \ {"check", "release"} /\ Body(c).amount > 0
    BY <1>16 DEF DebitSender, Vetted
  <2>3. NoOverdraft'
    BY <1>16, <2>2, RpcFunds DEF DebitSender, Legs
  <2> QED  BY <1>00, <1>16, <2>1, <2>2, <2>3 DEF DebitSender, Asked
<1>17. CASE CreditReceiver(c)
  <2>1. Asked(c, "receiver-credit", "settle", "quarantine")
    BY <1>17, RpcMoves DEF CreditReceiver, Legs
  <2>2. pc[c] \in Owning \ {"check", "release"} /\ Body(c).amount > 0
    BY <1>17 DEF CreditReceiver, Vetted
  <2>3. NoOverdraft'
    BY <1>17, <2>2, RpcFunds DEF CreditReceiver, Legs
  <2> QED  BY <1>00, <1>17, <2>1, <2>2, <2>3 DEF CreditReceiver, Asked
<1>18. CASE DebitReceiver(c)
  <2>1. Asked(c, "receiver-compensation", "compCredit", "compUnknown")
    BY <1>18, RpcMoves DEF DebitReceiver, Legs
  <2>2. pc[c] \in Owning \ {"check", "release"} /\ Body(c).amount > 0
    BY <1>18 DEF DebitReceiver, Vetted
  <2>3. NoOverdraft'
    BY <1>18, <2>2, RpcFunds DEF DebitReceiver, Legs
  <2> QED  BY <1>00, <1>18, <2>1, <2>2, <2>3 DEF DebitReceiver, Asked
<1>19. CASE CreditSender(c)
  <2>1. Asked(c, "sender-compensation", "compDone", "compUnknown")
    BY <1>19, RpcMoves DEF CreditSender, Legs
  <2>2. pc[c] \in Owning \ {"check", "release"} /\ Body(c).amount > 0
    BY <1>19 DEF CreditSender, Vetted
  <2>3. NoOverdraft'
    BY <1>19, <2>2, RpcFunds DEF CreditSender, Legs
  <2> QED  BY <1>00, <1>19, <2>1, <2>2, <2>3 DEF CreditSender, Asked
<1> QED
  BY <1>1, <1>2, <1>3, <1>4, <1>5, <1>6, <1>7, <1>8, <1>9, <1>10, <1>11, <1>12, <1>13, <1>14, <1>15, <1>16, <1>17, <1>18, <1>19 DEF Handle

\* Positive balances are inductive once amounts are checked before a row is made.
LEMMA FundsNext == FundsInv /\ [Next]_vars => FundsInv'
<1> SUFFICES ASSUME FundsInv, [Next]_vars PROVE NoOverdraft' /\ \A d \in Calls : Vetted(d)'
  BY TypeNext DEF FundsInv
<1> USE DEF FundsInv
<1>1. ASSUME NEW c \in Calls, Handle(c) PROVE NoOverdraft' /\ \A d \in Calls : Vetted(d)'
  BY <1>1, HandleFunds
<1>2. ASSUME NEW c \in Calls, NEW leg \in Legs, DeliverLate(c, leg)
      PROVE  NoOverdraft' /\ \A d \in Calls : Vetted(d)'
  <2>1. leg \in Sent(c) /\ Body(c).amount > 0
    BY <1>2 DEF DeliverLate, Vetted, Sent
  <2>2. NoOverdraft'
    BY <1>2, <2>1, BookFunds DEF DeliverLate, NoOverdraft
  <2>3. \A d \in Calls : Vetted(d)'
    BY <1>2, <2>1 DEF TypeOK, DeliverLate, Book, Vetted, Sent, Body
  <2> QED  BY <2>2, <2>3
<1>3. ASSUME UNCHANGED <<request, ledger>>, \A d \in Calls : pc'[d] \in {pc[d], "crashed"}
      PROVE  NoOverdraft' /\ \A d \in Calls : Vetted(d)'
  BY <1>3 DEF NoOverdraft, Vetted, Sent, Body, ledger, Owning
<1>4. (\E c \in Calls : Crash(c)) \/ Worker \/ Admin \/ (\E k \in Expiring : Expire(k))
        \/ (\E c \in Amendable : UpdateSucceeds(c) \/ MarkTransferAsFailed(c)) \/ UNCHANGED vars
      => UNCHANGED <<request, ledger>> /\ \A d \in Calls : pc'[d] \in {pc[d], "crashed"}
  BY DEF TypeOK, Crash, Goto, Worker, ListStuck, Recover, Skip, Admin, TrashedTransfer,
         RestoreTransfers, DeleteTransfers, Expire, UpdateSucceeds, MarkTransferAsFailed, Amend,
         vars, ledger
<1> QED  BY <1>1, <1>2, <1>3, <1>4 DEF Next

\* No interleaving of calls, late executions and compensations overdraws a card.
THEOREM NeverOverdrawn == Spec => []NoOverdraft
<1>1. Init => FundsInv
  BY TypeInit, BalanceAssumption DEF Init, FundsInv, Vetted, NoOverdraft, Sent, Owning
<1>2. FundsInv => NoOverdraft
  BY DEF FundsInv
<1> QED  BY <1>1, <1>2, FundsNext, PTL DEF Spec
-----------------------------------------------------------------------------

(***************************************************************************)
(* Transfer.tla implements TransferPromise.tla under the mapping           *)
(* booked <- legs, verdict <- Verdict: every step of a handler, of the     *)
(* network, of the recovery worker or of an operator is one step of the    *)
(* promise or leaves its four variables alone.                             *)
(***************************************************************************)

Step == Promise!Next \/ UNCHANGED Promise!vars

\* A step of the promise is an abstract step.
LEMMA NextIsStep == Promise!Next => Step
BY DEF Step

\* A verdict as the status of the row is written.
LEMMA VerdictWritten ==
  ASSUME TypeOK, NEW c \in Calls, status' = [status EXCEPT ![c] = status'[c]],
         amended' = amended, c \notin amended
  PROVE  Verdict' = [Verdict EXCEPT ![c] = VerdictOf(status'[c])]
BY DEF TypeOK, Verdict, VerdictOf

\* A guarded status write either keeps the verdict or decides an open one, and
\* what it decides is warranted by the bookings.
LEMMA WriteDecides ==
  ASSUME TypeOK, NEW c \in Calls, status' = [status EXCEPT ![c] = status'[c]],
         UNCHANGED <<request, balance, legs, amended>>,
         VerdictOf(status'[c]) # VerdictOf(status[c])
           => /\ VerdictOf(status[c]) = "open"
              /\ VerdictOf(status'[c]) \in {"settled", "refused", "reversed", "doubt"}
              /\ Promise!Warrants(legs[c], VerdictOf(status'[c]))
  PROVE  Step
<1>0. CASE c \in amended
  <2>1. Verdict' = Verdict  BY <1>0 DEF TypeOK, Verdict
  <2> QED  BY <2>1 DEF Step, Promise!vars
<1> SUFFICES ASSUME c \notin amended PROVE Step
  BY <1>0
<1>1. Verdict' = [Verdict EXCEPT ![c] = VerdictOf(status'[c])]  BY VerdictWritten
<1>2. Verdict[c] = VerdictOf(status[c])  BY DEF Verdict
<1>3. CASE VerdictOf(status'[c]) = VerdictOf(status[c])
  <2>1. Verdict' = Verdict  BY <1>1, <1>2, <1>3 DEF Verdict
  <2> QED  BY <2>1 DEF Step, Promise!vars
<1>4. CASE VerdictOf(status'[c]) # VerdictOf(status[c])
  <2> DEFINE v == VerdictOf(status'[c])
  <2>1. Promise!Decide(c, v)  BY <1>1, <1>2, <1>4 DEF Promise!Decide
  <2>2. v \in Promise!Outcomes  BY <1>4 DEF Promise!Outcomes
  <2>3. Promise!Next  BY <2>1, <2>2 DEF Promise!Next
  <2> QED  BY <2>3, NextIsStep
<1> QED  BY <1>3, <1>4

\* Booking a leg is a move of the promise, or no step when it is booked already.
LEMMA BookMoves ==
  ASSUME Inv, NEW c \in Calls, NEW leg \in Legs, Book(c, leg),
         UNCHANGED <<request, status, amended>>,
         Promise!Prior(leg) \subseteq legs[c],
         c \notin amended => /\ status[c] \notin {"success", "compensated"}
                             /\ status[c] = "failed" => leg = "sender-debit"
  PROVE  Step
<1>1. Verdict' = Verdict  BY DEF Verdict
<1>2. CASE leg \in legs[c]
  <2>1. UNCHANGED <<legs, balance>>  BY <1>2 DEF Inv, TypeOK, Book
  <2> QED  BY <1>1, <2>1 DEF Step, Promise!vars
<1>3. CASE leg \notin legs[c]
  <2>1. Verdict[c] \notin {"settled", "reversed"} /\ (Verdict[c] = "refused" => leg = "sender-debit")
    BY DEF Verdict, VerdictOf
  <2>2. CardOf(c, leg) = Promise!Owner(c, leg) /\ Delta(c, leg) = Promise!Amount(c, leg)
    BY DEF CardOf, Delta, Promise!Owner, Promise!Amount, SenderLegs, Debits, Body
  <2>3. Promise!Move(c, leg)
    BY <1>1, <1>3, <2>1, <2>2 DEF Promise!Move, Book
  <2>4. Promise!Next  BY <2>3 DEF Promise!Next, Promise!Path, Legs
  <2> QED  BY <2>4, NextIsStep
<1> QED  BY <1>2, <1>3

\* A saldo call of a handler moves a leg or nothing.
LEMMA RpcMovesLeg ==
  ASSUME Inv, NEW c \in Calls, NEW leg \in Legs, NEW done, NEW failed,
         Rpc(c, leg, done, failed), UNCHANGED <<request, rows>>,
         Promise!Prior(leg) \subseteq legs[c],
         pc[c] \in {"debit", "credit", "compDebit", "compCredit"}
  PROVE  Step
<1>1. c \notin amended => status[c] \notin {"success", "compensated", "failed"}
  BY DEF Inv, Placed, Final, Gone
<1>2. CASE Book(c, leg)
  BY <1>1, <1>2, BookMoves DEF rows
<1>3. CASE UNCHANGED <<legs, balance>>
  BY <1>3 DEF Step, Promise!vars, Verdict, rows
<1> QED  BY <1>2, <1>3 DEF Rpc, ledger

\* Each step of CreateTransaction is one move, one decision or nothing.
LEMMA HandleRefines ==
  ASSUME Inv, NEW c \in Calls, Handle(c)
  PROVE  Step
<1> USE DEF Inv
<1> DEFINE Silent == UNCHANGED <<request, status, amended, legs, balance>>
<1>0. ASSUME Silent PROVE Step
  BY <1>0 DEF Step, Promise!vars, Verdict
<1>1. CASE Begin(c)
  BY <1>0, <1>1 DEF Begin, rows, ledger
<1>2. CASE Claim(c)
  BY <1>0, <1>2 DEF Claim, rows, ledger
<1>3. CASE Lookup(c)
  BY <1>0, <1>3 DEF Lookup, rows, ledger
<1>4. CASE Check(c)
  BY <1>0, <1>4 DEF Check, rows, ledger
<1>5. CASE CreateTransfer(c)
  <2>1. status' = [status EXCEPT ![c] = status'[c]] /\ status[c] = "none"
        /\ status'[c] \in {"none", "pending"} /\ UNCHANGED <<request, balance, legs, amended>>
    BY <1>5 DEF TypeOK, CreateTransfer, SetStatus, UpdateTransferStatus, rows, ledger, Placed, Progress, Rowless
  <2> QED  BY <2>1, WriteDecides DEF VerdictOf
<1>6. CASE BeginProcessing(c)
  <2>1. Wrote(c, "pending", "processing", "debit", "release") /\ UNCHANGED <<request, balance, legs>>
    BY <1>6, GuardStatusMoves DEF BeginProcessing, ledger
  <2> QED
    BY <1>6, <2>1, WriteDecides
       DEF BeginProcessing, Wrote, VerdictOf, Promise!Warrants, Promise!Path, Placed, Progress,
           Sent, Settled, Legs
<1>7. CASE MarkFailed(c)
  <2>1. Wrote(c, "processing", "failed", "release", "release") /\ UNCHANGED <<request, balance, legs>>
    BY <1>7, GuardStatusMoves DEF MarkFailed, ledger
  <2> QED
    BY <1>7, <2>1, WriteDecides
       DEF MarkFailed, Wrote, VerdictOf, Promise!Warrants, Promise!Path, Placed, Progress,
           Sent, Settled, Legs
<1>8. CASE Quarantine(c)
  <2>1. Wrote(c, "processing", "unknown", "release", "release") /\ UNCHANGED <<request, balance, legs>>
    BY <1>8, GuardStatusMoves DEF Quarantine, ledger
  <2> QED
    BY <1>8, <2>1, WriteDecides
       DEF Quarantine, Wrote, VerdictOf, Promise!Warrants, Promise!Path, Placed, Progress,
           Sent, Settled, Legs
<1>9. CASE Settle(c)
  <2>1. Wrote(c, "processing", "success", "enqueue", "compensate") /\ UNCHANGED <<request, balance, legs>>
    BY <1>9, GuardStatusMoves DEF Settle, ledger
  <2> QED
    BY <1>9, <2>1, WriteDecides
       DEF Settle, Wrote, VerdictOf, Promise!Warrants, Promise!Path, Placed, Progress,
           Sent, Settled, Legs
<1>10. CASE StartCompensation(c)
  <2>1. Wrote(c, "processing", "compensating", "compDebit", "release") /\ UNCHANGED <<request, balance, legs>>
    BY <1>10, GuardStatusMoves DEF StartCompensation, ledger
  <2> QED
    BY <1>10, <2>1, WriteDecides
       DEF StartCompensation, Wrote, VerdictOf, Promise!Warrants, Promise!Path, Placed, Progress,
           Sent, Settled, Legs
<1>11. CASE MarkCompensated(c)
  <2>1. Wrote(c, "compensating", "compensated", "release", "release") /\ UNCHANGED <<request, balance, legs>>
    BY <1>11, GuardStatusMoves DEF MarkCompensated, ledger
  <2> QED
    BY <1>11, <2>1, WriteDecides
       DEF MarkCompensated, Wrote, VerdictOf, Promise!Warrants, Promise!Path, Placed, Progress,
           Sent, Settled, Legs
<1>12. CASE QuarantineCompensation(c)
  <2>1. Wrote(c, "compensating", "unknown", "release", "release") /\ UNCHANGED <<request, balance, legs>>
    BY <1>12, GuardStatusMoves DEF QuarantineCompensation, ledger
  <2> QED
    BY <1>12, <2>1, WriteDecides
       DEF QuarantineCompensation, Wrote, VerdictOf, Promise!Warrants, Promise!Path, Placed, Progress,
           Sent, Settled, Legs
<1>13. CASE DebitSender(c)
  <2>1. Promise!Prior("sender-debit") \subseteq legs[c]
    BY <1>13 DEF DebitSender, Promise!Prior, Promise!Path, Placed, Progress, Settled
  <2> QED  BY <1>13, <2>1, RpcMovesLeg DEF DebitSender, Legs
<1>14. CASE CreditReceiver(c)
  <2>1. Promise!Prior("receiver-credit") \subseteq legs[c]
    BY <1>14 DEF CreditReceiver, Promise!Prior, Promise!Path, Placed, Progress, Settled
  <2> QED  BY <1>14, <2>1, RpcMovesLeg DEF CreditReceiver, Legs
<1>15. CASE DebitReceiver(c)
  <2>1. Promise!Prior("receiver-compensation") \subseteq legs[c]
    BY <1>15 DEF DebitReceiver, Promise!Prior, Promise!Path, Placed, Progress, Settled
  <2> QED  BY <1>15, <2>1, RpcMovesLeg DEF DebitReceiver, Legs
<1>16. CASE CreditSender(c)
  <2>1. Promise!Prior("sender-compensation") \subseteq legs[c]
    BY <1>16 DEF CreditSender, Promise!Prior, Promise!Path, Placed, Progress, Settled
  <2> QED  BY <1>16, <2>1, RpcMovesLeg DEF CreditSender, Legs
<1>17. CASE Enqueue(c)
  BY <1>0, <1>17 DEF Enqueue, rows, ledger
<1>18. CASE Complete(c)
  BY <1>0, <1>18 DEF Complete, rows, ledger
<1>19. CASE Release(c)
  BY <1>0, <1>19 DEF Release, rows, ledger
<1> QED
  BY <1>1, <1>2, <1>3, <1>4, <1>5, <1>6, <1>7, <1>8, <1>9, <1>10, <1>11, <1>12, <1>13, <1>14, <1>15, <1>16, <1>17, <1>18, <1>19 DEF Handle

\* A request executed after its caller gave up is a move or nothing.
LEMMA DeliverLateRefines ==
  ASSUME Inv, NEW c \in Calls, NEW leg \in Legs, DeliverLate(c, leg)
  PROVE  Step
<1> USE DEF Inv
<1>1. leg \in Sent(c) /\ leg \in inflight[c] /\ UNCHANGED <<request, status, amended>>
  BY DEF DeliverLate, Sent, rows
<1>2. CASE UNCHANGED <<legs, balance>>
  BY <1>1, <1>2 DEF Step, Promise!vars, Verdict
<1>3. CASE Book(c, leg)
  <2>1. Promise!Prior(leg) \subseteq legs[c]
    BY <1>1 DEF Placed, Chain, Promise!Prior, Promise!Path, Settled, Legs
  <2>2. c \notin amended => /\ status[c] \notin {"success", "compensated"}
                            /\ status[c] = "failed" => leg = "sender-debit"
    BY <1>1 DEF Placed, Final
  <2> QED  BY <1>1, <1>3, <2>1, <2>2, BookMoves
<1> QED  BY <1>2, <1>3 DEF DeliverLate

\* Every step of the transfer service is an abstract step or a stutter.
LEMMA StepRefines == Inv /\ [Next]_vars => Step
<1> SUFFICES ASSUME Inv, [Next]_vars PROVE Step
  OBVIOUS
<1>1. ASSUME NEW c \in Calls, Handle(c) PROVE Step
  BY <1>1, HandleRefines
<1>2. ASSUME NEW c \in Calls, NEW leg \in Legs, DeliverLate(c, leg) PROVE Step
  BY <1>2, DeliverLateRefines
<1>3. ASSUME NEW c \in Calls, NEW from \in Statuses, Recover(c, from) PROVE Step
  <2>1. /\ status' = [status EXCEPT ![c] = status'[c]] /\ status'[c] = "unknown"
        /\ status[c] \in {"processing", "compensating"}
        /\ UNCHANGED <<request, balance, legs, amended>>
    BY <1>3 DEF Inv, TypeOK, Recover, Matches, SetStatus, UpdateTransferStatus, CanTransition, AllowedTransitions, ledger
  <2>2. Promise!Warrants(legs[c], "doubt")  BY DEF Promise!Warrants
  <2> QED  BY <2>1, <2>2, WriteDecides DEF Inv, VerdictOf
<1>4. ASSUME NEW S \in SUBSET trashed, DeleteTransfers(S) PROVE Step
  <2>1. S \in SUBSET Calls  BY DEF Inv, TypeOK
  <2>2. Verdict' = [c \in Calls |-> IF c \in S THEN "open" ELSE Verdict[c]]
    BY <1>4 DEF DeleteTransfers, Verdict, VerdictOf
  <2>3. Promise!Forget(S)
    BY <1>4, <2>2 DEF DeleteTransfers, Promise!Forget, ledger
  <2>4. Promise!Next  BY <2>1, <2>3 DEF Promise!Next
  <2> QED  BY <2>4, NextIsStep
<1>5. ASSUME UNCHANGED <<request, status, amended, legs, balance>> PROVE Step
  BY <1>5 DEF Step, Promise!vars, Verdict
<1>6. ASSUME Worker
      PROVE  \/ \E c \in Calls, from \in Statuses : Recover(c, from)
             \/ UNCHANGED <<request, status, amended, legs, balance>>
  BY <1>6 DEF Worker, ListStuck, Skip, rows, ledger
<1>7. ASSUME Admin
      PROVE  \/ \E S \in SUBSET trashed : DeleteTransfers(S)
             \/ UNCHANGED <<request, status, amended, legs, balance>>
  BY <1>7 DEF Admin, TrashedTransfer, RestoreTransfers, rows, ledger
<1>8. ASSUME NEW c \in Amendable, NEW s \in {"success", "failed"}, Amend(c, s) PROVE Step
  <2>1. c \in Calls  BY ScopeAssumption
  <2>2. \A d \in Calls \ {c} : status'[d] = status[d]
    BY <1>8 DEF Inv, TypeOK, Amend, UpdateTransferStatus
  <2>3. Verdict' = [d \in Calls |-> IF d \in {c} THEN "open" ELSE Verdict[d]]
    BY <1>8, <2>2 DEF Amend, Verdict
  <2>4. Promise!Forget({c})
    BY <1>8, <2>3 DEF Amend, Promise!Forget, ledger
  <2>5. Promise!Next  BY <2>1, <2>4 DEF Promise!Next
  <2> QED  BY <2>5, NextIsStep
<1> QED
  BY <1>1, <1>2, <1>3, <1>4, <1>5, <1>6, <1>7, <1>8
     DEF Next, UpdateSucceeds, MarkTransferAsFailed, Crash, Expire, vars, rows, ledger

\* CreateTransaction, with its timeouts, crashes, recovery, trash and updates of
\* its rows, implements the promise: bookings come in order, a success or a reversal is final, and
\* after a refusal nothing but the sender's debit can still be booked.
THEOREM PromiseKept == Spec => KeepsPromise
<1>1. Init => Promise!Init
  BY DEF Init, Promise!Init, Verdict, VerdictOf
<1>2. Inv /\ [Next]_vars => [Promise!Next]_(Promise!vars)
  BY StepRefines DEF Step
<1> QED  BY <1>1, <1>2, Invariance, PTL DEF Spec, KeepsPromise, Promise!Spec

-----------------------------------------------------------------------------

\* Calls whose money is on neither card, and what each call moves.
Moving == {c \in Calls : InTransit(c)}
Amounts == [c \in Calls |-> Body(c).amount]

MoneyInv == Inv /\ IsFiniteSet(Moving) /\ MoneyConserved

\* A card's balance changes by an amount, and so does the money on all cards.
LEMMA TotalChanges ==
  ASSUME TypeOK, NEW card \in Cards, NEW x \in Int,
         balance' = [balance EXCEPT ![card] = @ + x]
  PROVE  Total(balance') = Total(balance) + x /\ Total(balance) \in Int
<1> DEFINE b == balance'
<1>1. IsFiniteSet(Cards)
  BY BalanceAssumption
<1>2. \A y \in Cards : balance[y] \in Int /\ b[y] \in Int
  BY DEF TypeOK
<1>3. b[card] = balance[card] + x /\ \A y \in Cards \ {card} : b[y] = balance[y]
  BY DEF TypeOK
<1> HIDE DEF b
<1>4. SumFunctionOnSet(b, Cards) = SumFunctionOnSet(balance, Cards) + b[card] - balance[card]
  BY <1>1, <1>2, <1>3, SumChange
<1>5. SumFunctionOnSet(balance, Cards) \in Int
  BY <1>1, <1>2, SumType
<1>6. SumFunctionOnSet(b, Cards) = SumFunctionOnSet(balance, Cards) + x
  BY <1>2, <1>3, <1>4, <1>5
<1> QED
  BY <1>5, <1>6 DEF b, Total

\* The money in transit grows by a transfer that enters it and shrinks by one
\* that leaves it.
LEMMA TransitChanges ==
  ASSUME TypeOK, IsFiniteSet(Moving), NEW c \in Calls, NEW M
  PROVE  /\ SumFunctionOnSet(Amounts, Moving) \in Int
         /\ M = Moving \cup {c} /\ c \notin Moving =>
              /\ IsFiniteSet(M)
              /\ SumFunctionOnSet(Amounts, M) = SumFunctionOnSet(Amounts, Moving) + Body(c).amount
         /\ M = Moving \ {c} /\ c \in Moving =>
              /\ IsFiniteSet(M)
              /\ SumFunctionOnSet(Amounts, M) = SumFunctionOnSet(Amounts, Moving) - Body(c).amount
<1> DEFINE f == Amounts
           S == Moving
<1>1. \A d \in Calls : f[d] \in Int /\ f[d] = Body(d).amount
  BY RequestFacts DEF Amounts
<1>2. S \subseteq Calls /\ IsFiniteSet(S)
  BY DEF Moving
<1> HIDE DEF f, S
<1>3. SumFunctionOnSet(f, S) \in Int
  BY <1>1, <1>2, SumType
<1>4. ASSUME M = S \cup {c}, c \notin S
      PROVE  IsFiniteSet(M) /\ SumFunctionOnSet(f, M) = SumFunctionOnSet(f, S) + f[c]
  <2>1. SumFunctionOnSet(f, S \cup {c}) = f[c] + SumFunctionOnSet(f, S)
    BY <1>1, <1>2, <1>4, SumAdd
  <2>2. IsFiniteSet(S \cup {c})
    BY <1>2, FS_AddElement
  <2> QED
    BY <1>1, <1>3, <1>4, <2>1, <2>2
<1>5. ASSUME M = S \ {c}, c \in S
      PROVE  IsFiniteSet(M) /\ SumFunctionOnSet(f, M) = SumFunctionOnSet(f, S) - f[c]
  <2>1. SumFunctionOnSet(f, S) = f[c] + SumFunctionOnSet(f, S \ {c})
    BY <1>1, <1>2, <1>5, SumRemove
  <2>2. IsFiniteSet(S \ {c})
    BY <1>2, FS_RemoveElement
  <2>3. SumFunctionOnSet(f, S \ {c}) \in Int
    BY <1>1, <1>2, <2>2, SumType
  <2> QED
    BY <1>1, <1>3, <1>5, <2>1, <2>2, <2>3
<1> QED
  BY <1>1, <1>3, <1>4, <1>5 DEF f, S

\* A booking in its order takes a transfer into transit or out of it, and the
\* money on the cards changes by as much the other way.
LEMMA MoveConserves ==
  ASSUME MoneyInv, NEW c \in Calls, NEW leg \in Legs, Promise!Move(c, leg),
         Chain(c), Chain(c)'
  PROVE  IsFiniteSet(Moving') /\ MoneyConserved'
<1> DEFINE amount == Body(c).amount
<1>1. TypeOK /\ amount \in Int
  BY RequestFacts DEF MoneyInv, Inv
<1>2. /\ Promise!Owner(c, leg) \in Cards
      /\ Promise!Amount(c, leg) = Delta(c, leg) /\ Delta(c, leg) \in Int
      /\ Delta(c, leg) = IF leg \in Debits THEN -amount ELSE amount
  BY <1>1, RequestFacts DEF Promise!Owner, Promise!Amount, Delta, Debits, Body
<1>3. /\ leg \notin legs[c] /\ legs' = [legs EXCEPT ![c] = @ \cup {leg}]
      /\ balance' = [balance EXCEPT ![Promise!Owner(c, leg)] = @ + Delta(c, leg)]
      /\ UNCHANGED request
  BY <1>2 DEF Promise!Move
<1>4. Total(balance') = Total(balance) + Delta(c, leg) /\ Total(balance) \in Int
  BY <1>1, <1>2, <1>3, TotalChanges
<1>5. Amounts' = Amounts
  BY <1>3 DEF Amounts, Body
<1>6. legs'[c] = legs[c] \cup {leg} /\ \A d \in Calls \ {c} : legs'[d] = legs[d]
  BY <1>1, <1>3 DEF TypeOK
<1>7. \A d \in Calls \ {c} : InTransit(d)' <=> InTransit(d)
  BY <1>6 DEF InTransit
<1>8. leg \in Debits => InTransit(c)' /\ ~InTransit(c)
  BY <1>3, <1>6 DEF Chain, Sent, InTransit, Debits, Legs, Settled
<1>9. leg \notin Debits => InTransit(c) /\ ~InTransit(c)'
  BY <1>3, <1>6 DEF Chain, Sent, InTransit, Debits, Legs, Settled
<1>10. /\ leg \in Debits => Moving' = Moving \cup {c} /\ c \notin Moving
       /\ leg \notin Debits => Moving' = Moving \ {c} /\ c \in Moving
  BY <1>7, <1>8, <1>9 DEF Moving
<1>11. /\ IsFiniteSet(Moving') /\ SumFunctionOnSet(Amounts, Moving) \in Int
       /\ SumFunctionOnSet(Amounts, Moving') = SumFunctionOnSet(Amounts, Moving) - Delta(c, leg)
  <2>1. IsFiniteSet(Moving)
    BY DEF MoneyInv
  <2>2. CASE leg \in Debits
    BY <1>1, <1>2, <1>10, <2>1, <2>2, TransitChanges
  <2>3. CASE leg \notin Debits
    BY <1>1, <1>2, <1>10, <2>1, <2>3, TransitChanges
  <2> QED  BY <2>2, <2>3
<1>12. Total(balance) + SumFunctionOnSet(Amounts, Moving) = Total(InitialBalance)
  BY DEF MoneyInv, MoneyConserved, Amounts, Moving
<1>13. Total(balance') + SumFunctionOnSet(Amounts, Moving') = Total(InitialBalance)
  BY <1>2, <1>4, <1>11, <1>12
<1>14. Total(balance') + SumFunctionOnSet(Amounts', Moving') = Total(InitialBalance)
  BY <1>5, <1>13
<1> QED
  BY <1>11, <1>14 DEF MoneyConserved, Amounts, Moving

\* The money is conserved by every step: of the promise's steps only a move
\* touches a balance.
LEMMA MoneyNext == MoneyInv /\ [Next]_vars => MoneyInv'
<1> SUFFICES ASSUME MoneyInv, [Next]_vars PROVE IsFiniteSet(Moving') /\ MoneyConserved'
  BY InvNext DEF MoneyInv
<1>1. Inv /\ Inv' /\ Step
  BY InvNext, StepRefines DEF MoneyInv
<1>2. ASSUME NEW c \in Calls, NEW leg \in Legs, Promise!Move(c, leg)
      PROVE  IsFiniteSet(Moving') /\ MoneyConserved'
  BY <1>1, <1>2, MoveConserves DEF Inv, Placed
<1>3. ASSUME UNCHANGED <<request, balance, legs>>
      PROVE  IsFiniteSet(Moving') /\ MoneyConserved'
  <2>1. Moving' = Moving /\ Amounts' = Amounts
    BY <1>3 DEF Moving, InTransit, Amounts, Body
  <2>2. Total(balance) + SumFunctionOnSet(Amounts, Moving) = Total(InitialBalance)
    BY DEF MoneyInv, MoneyConserved, Amounts, Moving
  <2>3. Total(balance') + SumFunctionOnSet(Amounts', Moving') = Total(InitialBalance)
    BY <1>3, <2>1, <2>2
  <2> QED
    BY <2>1, <2>3 DEF MoneyInv, MoneyConserved, Amounts, Moving
<1>4. \/ \E c \in Calls, leg \in Legs : Promise!Move(c, leg)
      \/ UNCHANGED <<request, balance, legs>>
  BY <1>1 DEF Step, Promise!Next, Promise!Decide, Promise!Forget, Promise!vars, Promise!Path, Legs
<1> QED  BY <1>2, <1>3, <1>4

\* Whatever times out, crashes or is compensated, no money is made or lost: what
\* is missing on the cards is the amount of the transfers still in transit.
THEOREM MoneyIsConserved == Spec => []MoneyConserved
<1>1. Init => MoneyInv
  <2> SUFFICES ASSUME Init PROVE IsFiniteSet(Moving) /\ MoneyConserved
    BY InvInit DEF MoneyInv
  <2>1. Moving = {} /\ balance = InitialBalance
    BY DEF Init, Moving, InTransit
  <2>2. Total(InitialBalance) \in Int
    BY BalanceAssumption, SumType DEF Total
  <2>3. SumFunctionOnSet(Amounts, Moving) = 0 /\ IsFiniteSet(Moving)
    BY <2>1, SumEmpty, FS_EmptySet
  <2>4. Total(balance) + SumFunctionOnSet(Amounts, Moving) = Total(InitialBalance)
    BY <2>1, <2>2, <2>3
  <2> QED
    BY <2>3, <2>4 DEF MoneyConserved, Amounts, Moving
<1>2. MoneyInv => MoneyConserved
  BY DEF MoneyInv
<1> QED  BY <1>1, <1>2, MoneyNext, PTL DEF Spec
=============================================================================
