---------------------------- MODULE SaldoLedger ----------------------------
(***************************************************************************)
(* service/saldo: the balances, the append-only balance ledger behind      *)
(* them, the handlers that move a balance, and the reconciliation worker.  *)
(*                                                                         *)
(* A call is one request to DebitSaldo, CreditSaldo, ApplySaldoAdjustment  *)
(* or UpdateSaldo; a retry is another call with the same request.  Each    *)
(* action is one SQL statement, which PostgreSQL runs atomically on the    *)
(* locked saldo row; a handler that runs two lets other calls in between.  *)
(***************************************************************************)
EXTENDS Integers, FiniteSets, Functions

CONSTANTS
  Cards,       \* card numbers
  MaxSaldos,   \* bound: rows ever inserted into saldos
  Calls,       \* requests sent to the saldo service
  Operations,  \* operation ids chosen by clients
  Requests,    \* what calls may ask for
  Openings,    \* opening balances asked of CreateSaldo
  NoMutation,  \* a call that has nothing to book
  NoCard,      \* the card of a saldo id that was never used
  Batch        \* LIMIT of one reconciliation pass (100 by default)

ASSUME SaldosAssumption == MaxSaldos \in Nat
ASSUME OpeningsAssumption == Openings \subseteq Nat
ASSUME BatchAssumption == Batch \in Nat \ {0}

\* The serial hands out saldo ids in this order.
Ids == 1..MaxSaldos

Directions == {"opening", "debit", "credit", "reversal"}

\* A ledger mutation.  Its delta stands for every detail compared on a replay.
Mutations ==
  {m \in [op : Operations, card : Cards, direction : Directions \ {"opening"}, delta : Int] :
     /\ m.delta # 0
     /\ m.direction = "debit" => m.delta < 0
     /\ m.direction = "credit" => m.delta > 0}
Updates == [id : Ids, card : Cards, target : Nat]

ASSUME RequestsAssumption == Requests \subseteq Mutations \cup Updates

VARIABLES
  saldo,     \* saldos: id -> [card, total, state]
  ledger,    \* balance_ledger: a set of mutations and opening entries
  request,   \* what each call asks for
  pc,        \* where each call's handler is
  mutation,  \* the mutation a call is about to book
  listed,    \* mismatches the reconciler has listed and not yet enqueued
  queue      \* reconciliation_queue: latest item of each saldo

vars  == <<saldo, ledger, request, pc, mutation, listed, queue>>
calls == <<request, pc, mutation>>
recon == <<listed, queue>>

Running  == {"read", "mutate", "lookup"}
Answered == {"ok", "refused", "conflict", "error"}

Active(card) == {i \in Ids : saldo[i].state = "active" /\ saldo[i].card = card}
Trashed == {i \in Ids : saldo[i].state = "trashed"}

Entries(card) == {e \in ledger : e.card = card}
LedgerTotal(card) == SumFunctionOnSet([e \in ledger |-> e.delta], Entries(card))

\* What the reconciliation query compares.
Gap(i) == saldo[i].total - LedgerTotal(saldo[i].card)

(***************************************************************************)
(* Creation.  The opening entry is written by the insert trigger.          *)
(***************************************************************************)

Insert(card, total) ==
  \E i \in Ids :
    /\ saldo[i].state = "unused"
    /\ \A j \in 1..(i - 1) : saldo[j].state # "unused"
    /\ saldo' = [saldo EXCEPT ![i] = [card |-> card, total |-> total, state |-> "active"]]
    /\ ledger' = ledger \cup {[op |-> <<"saldo-opening", i>>, card |-> card,
                               direction |-> "opening", delta |-> total]}

\* The card-created consumer: the event carries a zero balance, and a
\* redelivered event is a no-op.
CreateSaldoIfNotExists(card) ==
  /\ Active(card) = {}
  /\ Insert(card, 0)
  /\ UNCHANGED <<calls, recon>>

\* CreateSaldo: an upsert that replaces a zero balance and keeps any other.
CreateSaldo(card, total) ==
  /\ \/ Active(card) = {} /\ Insert(card, total)
     \/ /\ total > 0
        /\ \E i \in Active(card) : /\ saldo[i].total = 0
                                   /\ saldo' = [saldo EXCEPT ![i].total = total]
        /\ UNCHANGED ledger
  /\ UNCHANGED <<calls, recon>>

(***************************************************************************)
(* Mutations.                                                              *)
(***************************************************************************)

SameOperation(e, m) == e.op = m.op /\ e.card = m.card /\ e.direction = m.direction

Answer(c, a) == pc' = [pc EXCEPT ![c] = a]

\* UpdateSaldo reads the balance and turns the target into an adjustment
\* whose operation id is made of the saldo id and the target.
ReadForUpdate(c) ==
  /\ pc[c] = "read"
  /\ LET u == request[c] row == saldo[u.id] delta == u.target - row.total IN
       IF row.state # "active" \/ row.card # u.card
       THEN Answer(c, "error") /\ UNCHANGED mutation
       ELSE IF delta = 0 THEN Answer(c, "ok") /\ UNCHANGED mutation
       ELSE /\ mutation' = [mutation EXCEPT ![c] =
                 [op |-> <<"saldo-update", u.id, u.target>>, card |-> u.card,
                  direction |-> "reversal", delta |-> delta]]
            /\ Answer(c, "mutate")
  /\ UNCHANGED <<saldo, ledger, request, recon>>

\* Mutant: the balance is not compared with the amount.
AcceptsAny(i, m) == TRUE

Accepts(i, m) == saldo[i].total + m.delta >= 0

Booked(m) == \E e \in ledger : SameOperation(e, m)

Apply(i, m) == /\ ledger' = ledger \cup {m}
               /\ saldo' = [saldo EXCEPT ![i].total = @ + m.delta]

\* Mutant: the insert into the ledger does not skip a booked operation.
MutateTwice(c) ==
  /\ pc[c] = "mutate"
  /\ LET m == mutation[c] rows == {i \in Active(m.card) : Accepts(i, m)} IN
       \/ \E i \in rows : Apply(i, m) /\ Answer(c, "ok")
       \/ rows = {} /\ Answer(c, "lookup") /\ UNCHANGED <<saldo, ledger>>
  /\ UNCHANGED <<request, mutation, recon>>

\* Mutant: UpdateSaldo writes the target it was asked for, whatever was booked
\* since it read the balance its entry starts from.
MutateStaleTarget(c) ==
  /\ pc[c] = "mutate"
  /\ LET m == mutation[c] rows == {i \in Active(m.card) : Accepts(i, m) /\ ~Booked(m)} IN
       \/ \E i \in rows :
            /\ ledger' = ledger \cup {m}
            /\ saldo' = [saldo EXCEPT ![i].total =
                           IF request[c] \in Updates THEN request[c].target ELSE @ + m.delta]
            /\ Answer(c, "ok")
       \/ rows = {} /\ Answer(c, "lookup") /\ UNCHANGED <<saldo, ledger>>
  /\ UNCHANGED <<request, mutation, recon>>

\* One statement locks the row, books the entry unless the operation is
\* booked already, and moves the balance by what it booked.
Mutate(c) ==
  /\ pc[c] = "mutate"
  /\ LET m == mutation[c] rows == {i \in Active(m.card) : Accepts(i, m) /\ ~Booked(m)} IN
       \/ \E i \in rows : Apply(i, m) /\ Answer(c, "ok")
       \/ rows = {} /\ Answer(c, "lookup") /\ UNCHANGED <<saldo, ledger>>
  /\ UNCHANGED <<request, mutation, recon>>

\* Mutant: a booked operation is replayed whatever its details.
LookupLenient(c) ==
  /\ pc[c] = "lookup"
  /\ Answer(c, IF Booked(mutation[c]) THEN "ok" ELSE "refused")
  /\ UNCHANGED <<saldo, ledger, request, mutation, recon>>

\* A second statement, after a mutation that changed no row: the operation is
\* replayed if it was booked with the same details, and refused if it was not
\* booked.  A replay reads the balance it answers with.
Lookup(c) ==
  /\ pc[c] = "lookup"
  /\ LET m == mutation[c] IN
       \/ m \in ledger /\ Active(m.card) # {} /\ Answer(c, "ok")
       \/ m \in ledger /\ Active(m.card) = {} /\ Answer(c, "error")
       \/ m \notin ledger /\ Booked(m) /\ Answer(c, "conflict")
       \/ ~Booked(m) /\ Answer(c, "refused")
  /\ UNCHANGED <<saldo, ledger, request, mutation, recon>>

\* A statement fails or its request is lost, and nothing has been written.
Fail(c) ==
  /\ pc[c] \in Running
  /\ Answer(c, "error")
  /\ UNCHANGED <<saldo, ledger, request, mutation, recon>>

(***************************************************************************)
(* Trash operations.                                                       *)
(***************************************************************************)

SetState(S, state) == saldo' = [i \in Ids |-> IF i \in S THEN [saldo[i] EXCEPT !.state = state]
                                                         ELSE saldo[i]]

TrashedSaldo(i) ==
  /\ saldo[i].state = "active"
  /\ SetState({i}, "trashed")
  /\ UNCHANGED <<ledger, calls, recon>>

\* RestoreSaldo and RestoreAllSaldo: the unique index on active cards refuses
\* the statement that would restore a second saldo of a card.
RestoreSaldo(S) ==
  /\ S # {} /\ S \subseteq Trashed
  /\ Cardinality(S) = 1 \/ S = Trashed
  /\ \A i \in S, j \in Ids : i # j /\ saldo[i].card = saldo[j].card =>
       saldo[j].state # "active" /\ j \notin S
  /\ SetState(S, "active")
  /\ UNCHANGED <<ledger, calls, recon>>

\* DeleteSaldoPermanent and DeleteAllSaldoPermanent keep the ledger entries.
DeleteSaldoPermanent(S) ==
  /\ S # {} /\ S \subseteq Trashed
  /\ Cardinality(S) = 1 \/ S = Trashed
  /\ SetState(S, "deleted")
  /\ UNCHANGED <<ledger, calls, recon>>

(***************************************************************************)
(* Reconciliation: list the largest mismatches, then enqueue each of them. *)
(***************************************************************************)

\* Mutant: only balances above their ledger count as mismatches.
MismatchesAbove == {i \in Ids : saldo[i].state = "active" /\ Gap(i) > 0}

Mismatches == {i \in Ids : saldo[i].state = "active" /\ Gap(i) # 0}

Abs(n) == IF n < 0 THEN -n ELSE n

\* ORDER BY ABS(difference) DESC, saldo_id LIMIT Batch
ListMismatches ==
  /\ listed = {}
  /\ LET found == Mismatches
         size == [i \in found |-> Abs(Gap(i))]
         before(j, i) == size[j] > size[i] \/ (size[j] = size[i] /\ j < i)
     IN listed' = {i \in found : Cardinality({j \in found : before(j, i)}) < Batch}
  /\ UNCHANGED <<saldo, ledger, calls, queue>>

\* The upsert on the open item of the saldo; an error is only logged.
Enqueue(i) ==
  /\ i \in listed
  /\ listed' = listed \ {i}
  /\ queue' = [queue EXCEPT ![i] = "open"]
  /\ UNCHANGED <<saldo, ledger, calls>>

EnqueueFails(i) ==
  /\ i \in listed
  /\ listed' = listed \ {i}
  /\ UNCHANGED <<saldo, ledger, calls, queue>>

\* An operator resolves an item; the update checks the balance once more.
ResolveReconciliation(i) ==
  /\ queue[i] = "open"
  /\ saldo[i].state = "active" /\ Gap(i) = 0
  /\ queue' = [queue EXCEPT ![i] = "resolved"]
  /\ UNCHANGED <<saldo, ledger, calls, listed>>

-----------------------------------------------------------------------------

Unused == [card |-> NoCard, total |-> 0, state |-> "unused"]

Init ==
  /\ saldo = [i \in Ids |-> Unused]
  /\ ledger = {} /\ listed = {}
  /\ request \in [Calls -> Requests]
  /\ pc = [c \in Calls |-> IF request[c] \in Mutations THEN "mutate" ELSE "read"]
  /\ mutation = [c \in Calls |-> IF request[c] \in Mutations THEN request[c] ELSE NoMutation]
  /\ queue = [i \in Ids |-> "none"]

Handle(c) == ReadForUpdate(c) \/ Mutate(c) \/ Lookup(c) \/ Fail(c)

Admin ==
  \/ \E card \in Cards : \/ CreateSaldoIfNotExists(card)
                         \/ \E total \in Openings : CreateSaldo(card, total)
  \/ \E i \in Ids : TrashedSaldo(i) \/ ResolveReconciliation(i)
  \/ \E S \in SUBSET Trashed : RestoreSaldo(S) \/ DeleteSaldoPermanent(S)

Reconciler == ListMismatches \/ \E i \in Ids : Enqueue(i) \/ EnqueueFails(i)

Next == (\E c \in Calls : Handle(c)) \/ Admin \/ Reconciler

Spec == Init /\ [][Next]_vars

\* The worker ticks every five minutes, and an upsert that is tried again and
\* again is not refused for ever.
Fairness == /\ WF_vars(ListMismatches)
            /\ \A i \in Ids : SF_vars(Enqueue(i))

FairSpec == Spec /\ Fairness

(***************************************************************************)
(* Properties.                                                             *)
(***************************************************************************)

Rows == [card : Cards \cup {NoCard}, total : Nat,
         state : {"unused", "active", "trashed", "deleted"}]
UpdateOps  == {"saldo-update"} \X Ids \X Int
OpeningOps == {"saldo-opening"} \X Ids
Entry == [op : Operations \cup UpdateOps \cup OpeningOps, card : Cards,
          direction : Directions, delta : Int]

\* Every variable keeps its type; no balance becomes negative.
TypeOK ==
  /\ saldo \in [Ids -> Rows]
  /\ ledger \subseteq Entry
  /\ request \in [Calls -> Requests]
  /\ pc \in [Calls -> Running \cup Answered]
  /\ mutation \in [Calls -> Entry \cup {NoMutation}]
  /\ listed \subseteq Ids
  /\ queue \in [Ids -> {"none", "open", "resolved"}]

\* However calls and retries interleave, the ledger holds one entry for an
\* operation on a card in one direction.
UniqueOperation == \A e, f \in ledger : SameOperation(e, f) => e = f

\* A call answered ok has its own mutation in the ledger with the details it
\* asked for, also when another call booked it; a call answered conflict shares
\* its operation id with a mutation of other details and has booked nothing.
AnswersMatchLedger ==
  \A c \in Calls :
    /\ pc[c] = "ok" /\ mutation[c] # NoMutation => mutation[c] \in ledger
    /\ pc[c] = "conflict" => Booked(mutation[c]) /\ mutation[c] \notin ledger

\* Whatever a request read before, and however requests, retries, creations and
\* trash operations interleave, no step of a request changes the difference
\* between the balance of an active saldo and the sum of its ledger.
RequestsKeepTheBooks ==
  [][\A c \in Calls, i \in Ids :
       pc'[c] # pc[c] /\ saldo[i].state = "active" => Gap(i)' = Gap(i)]_vars

Unexplained(i) == saldo[i].state = "active" /\ Gap(i) # 0

\* A balance that its ledger does not explain, in either direction, gets an
\* open item in the reconciliation queue unless the difference goes away.
MismatchIsQueued ==
  \A i \in Ids : Unexplained(i) ~> (queue[i] = "open" \/ ~Unexplained(i))
=============================================================================
