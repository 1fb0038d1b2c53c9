------------------------- MODULE SaldoLedgerProofs -------------------------
(***************************************************************************)
(* Theorems about SaldoLedger.tla, for any set of cards, calls, operation  *)
(* ids and requests: the ledger books an operation once, what a call is    *)
(* answered agrees with the ledger, clients are served as SaldoClient says *)
(* and balances and the ledger move together.                              *)
(***************************************************************************)
EXTENDS SaldoLedger, SumTheorems, TLAPS

\* Every opening entry belongs to a saldo id that has been used.
OpeningsUsed == \A e \in ledger : e.direction = "opening" =>
               \E i \in Ids : e.op = <<"saldo-opening", i>> /\ saldo[i].state # "unused"

\* A call that is about to book something knows what, and never an opening.
Prepared == \A c \in Calls :
  /\ pc[c] = "read" => mutation[c] = NoMutation /\ request[c] \in Updates
  /\ pc[c] \in {"mutate", "lookup", "conflict"} =>
       mutation[c] \in Entry /\ mutation[c].direction # "opening"

LedgerInv == TypeOK /\ OpeningsUsed /\ Prepared /\ UniqueOperation /\ AnswersMatchLedger

-----------------------------------------------------------------------------

\* An empty ledger satisfies the invariant.
LEMMA InvInit == Init => LedgerInv
<1> SUFFICES ASSUME Init PROVE LedgerInv
  OBVIOUS
<1>1. \A c \in Calls : request[c] \in Requests
  BY DEF Init
<1>2. \A m \in Mutations : m \in Entry /\ m.direction # "opening"
  BY DEF Mutations, Entry, Directions
<1>3. TypeOK
  BY <1>1, <1>2 DEF Init, TypeOK, Rows, Unused, Running
<1>4. Prepared
  BY <1>1, <1>2, RequestsAssumption DEF Init, Prepared
<1>5. OpeningsUsed /\ UniqueOperation /\ AnswersMatchLedger
  BY DEF Init, OpeningsUsed, UniqueOperation, AnswersMatchLedger
<1> QED  BY <1>3, <1>4, <1>5 DEF LedgerInv

\* The trigger's opening entry is new: its saldo id was unused.
LEMMA InsertStep ==
  ASSUME LedgerInv, NEW card \in Cards, NEW total \in Nat, Insert(card, total),
         UNCHANGED <<calls, recon>>
  PROVE  LedgerInv'
<1> USE DEF LedgerInv
<1>1. PICK i \in Ids :
        /\ saldo[i].state = "unused"
        /\ saldo' = [saldo EXCEPT ![i] = [card |-> card, total |-> total, state |-> "active"]]
        /\ ledger' = ledger \cup {[op |-> <<"saldo-opening", i>>, card |-> card,
                                   direction |-> "opening", delta |-> total]}
  BY DEF Insert
<1> DEFINE new == [op |-> <<"saldo-opening", i>>, card |-> card,
                   direction |-> "opening", delta |-> total]
<1>2. new \in Entry
  BY DEF Entry, OpeningOps, Directions
<1>3. TypeOK'
  BY <1>1, <1>2 DEF TypeOK, Rows, calls, recon
<1>4. \A e \in ledger : ~SameOperation(e, new) /\ ~SameOperation(new, e)
  BY <1>1 DEF OpeningsUsed, SameOperation
<1>5. OpeningsUsed'
  BY <1>1 DEF TypeOK, OpeningsUsed
<1>6. UniqueOperation'
  BY <1>1, <1>4 DEF UniqueOperation
<1>7. Prepared'
  BY DEF Prepared, calls
<1>8. AnswersMatchLedger'
  BY <1>1 DEF AnswersMatchLedger, Prepared, Booked, calls
<1> QED  BY <1>3, <1>5, <1>6, <1>7, <1>8

\* Steps that leave the ledger and the calls alone and use up no fresh id.
LEMMA RowsStep ==
  ASSUME LedgerInv, UNCHANGED <<ledger, calls>>, saldo' \in [Ids -> Rows],
         \A i \in Ids : saldo[i].state # "unused" => saldo'[i].state # "unused",
         listed' \subseteq Ids, queue' \in [Ids -> {"none", "open", "resolved"}]
  PROVE  LedgerInv'
BY DEF LedgerInv, TypeOK, OpeningsUsed, Prepared, UniqueOperation, AnswersMatchLedger, Booked, calls

\* A mutation books an operation that was not booked and leaves a balance >= 0,
\* or changes nothing.
LEMMA MutateStep ==
  ASSUME LedgerInv, NEW c \in Calls, Mutate(c)
  PROVE  LedgerInv'
<1> USE DEF LedgerInv
<1> DEFINE m == mutation[c]
<1>1. pc[c] = "mutate" /\ m \in Entry /\ m.direction # "opening" /\ UNCHANGED <<request, mutation, recon>>
  BY DEF Mutate, Prepared
<1>2. CASE pc' = [pc EXCEPT ![c] = "lookup"] /\ UNCHANGED <<saldo, ledger>>
  BY <1>1, <1>2 DEF TypeOK, OpeningsUsed, Prepared, UniqueOperation, AnswersMatchLedger, Booked,
                    Running, Answered, recon
<1>3. ASSUME NEW i \in Ids, Accepts(i, m), ~Booked(m), Apply(i, m), Answer(c, "ok")
      PROVE  LedgerInv'
  <2>1. ledger' = ledger \cup {m} /\ pc' = [pc EXCEPT ![c] = "ok"]
    BY <1>3 DEF Apply, Answer
  <2>2. saldo' = [saldo EXCEPT ![i].total = @ + m.delta] /\ saldo[i].total + m.delta \in Nat
    BY <1>1, <1>3 DEF Apply, Accepts, TypeOK, Rows, Entry
  <2>3. saldo' \in [Ids -> Rows] /\ \A j \in Ids : saldo'[j].state = saldo[j].state
    BY <2>2 DEF TypeOK, Rows
  <2>4. TypeOK'
    BY <1>1, <2>1, <2>3 DEF TypeOK, Running, Answered, recon
  <2>5. OpeningsUsed'
    BY <1>1, <2>1, <2>3 DEF OpeningsUsed
  <2>6. Prepared'
    BY <1>1, <2>1 DEF TypeOK, Prepared
  <2>7. UniqueOperation'
    BY <1>3, <2>1 DEF UniqueOperation, Booked, SameOperation
  <2>8. AnswersMatchLedger'
    <3> SUFFICES ASSUME NEW d \in Calls
                 PROVE  /\ pc'[d] = "ok" /\ mutation[d] # NoMutation => mutation[d] \in ledger'
                        /\ pc'[d] = "conflict" => Booked(mutation[d])' /\ mutation[d] \notin ledger'
      BY <1>1 DEF AnswersMatchLedger, Booked
    <3>1. CASE d = c
      BY <2>1, <3>1 DEF TypeOK
    <3>2. CASE d # c
      <4>1. pc'[d] = pc[d]  BY <2>1, <3>2 DEF TypeOK
      <4>2. pc[d] = "conflict" => Booked(mutation[d]) /\ mutation[d] \notin ledger
        BY DEF AnswersMatchLedger
      <4>3. pc[d] = "conflict" => mutation[d] # m  BY <1>3, <4>2
      <4>4. pc[d] = "conflict" => Booked(mutation[d])' /\ mutation[d] \notin ledger'
        BY <1>1, <2>1, <4>2, <4>3 DEF Booked
      <4>5. pc[d] = "ok" /\ mutation[d] # NoMutation => mutation[d] \in ledger'
        BY <2>1 DEF AnswersMatchLedger
      <4> QED  BY <4>1, <4>4, <4>5
    <3> QED  BY <3>1, <3>2
  <2> QED  BY <2>4, <2>5, <2>6, <2>7, <2>8
<1> QED  BY <1>1, <1>2, <1>3 DEF Mutate, Answer, Active

\* UpdateSaldo prepares a well-typed mutation or answers without booking one.
LEMMA ReadStep ==
  ASSUME LedgerInv, NEW c \in Calls, ReadForUpdate(c)
  PROVE  LedgerInv'
<1> USE DEF LedgerInv
<1> DEFINE u == request[c]
           delta == u.target - saldo[u.id].total
           m == [op |-> <<"saldo-update", u.id, u.target>>, card |-> u.card,
                 direction |-> "reversal", delta |-> delta]
<1>1. /\ pc[c] = "read" /\ u \in Updates /\ mutation[c] = NoMutation
      /\ UNCHANGED <<saldo, ledger, request, recon>>
  BY DEF ReadForUpdate, Prepared
<1>2. m \in Entry
  <2>1. u.id \in Ids /\ u.card \in Cards /\ u.target \in Nat  BY <1>1 DEF Updates
  <2>2. delta \in Int  BY <2>1 DEF TypeOK, Rows
  <2> QED  BY <2>1, <2>2 DEF Entry, UpdateOps, Directions
<1>3. \/ pc' = [pc EXCEPT ![c] = "error"] /\ UNCHANGED mutation
      \/ pc' = [pc EXCEPT ![c] = "ok"] /\ UNCHANGED mutation
      \/ pc' = [pc EXCEPT ![c] = "mutate"] /\ mutation' = [mutation EXCEPT ![c] = m]
  BY DEF ReadForUpdate, Answer
<1>4. TypeOK'
  BY <1>1, <1>2, <1>3 DEF TypeOK, Running, Answered, recon
<1>5. OpeningsUsed' /\ UniqueOperation'
  BY <1>1 DEF OpeningsUsed, UniqueOperation
<1>6. Prepared'
  BY <1>1, <1>2, <1>3 DEF TypeOK, Prepared
<1>7. AnswersMatchLedger'
  BY <1>1, <1>3 DEF TypeOK, AnswersMatchLedger, Booked
<1> QED  BY <1>4, <1>5, <1>6, <1>7

\* A step that only answers a call, and answers it in agreement with the ledger.
LEMMA AnswerStep ==
  ASSUME LedgerInv, NEW c \in Calls, UNCHANGED <<saldo, ledger, request, mutation, recon>>,
         NEW a \in Answered, pc' = [pc EXCEPT ![c] = a],
         a = "ok" => mutation[c] \in ledger,
         a = "conflict" => /\ pc[c] = "lookup"
                           /\ Booked(mutation[c]) /\ mutation[c] \notin ledger
  PROVE  LedgerInv'
<1> USE DEF LedgerInv
<1>1. TypeOK'
  BY DEF TypeOK, Answered, recon
<1>2. OpeningsUsed' /\ UniqueOperation'
  BY DEF OpeningsUsed, UniqueOperation
<1>3. Prepared'
  BY DEF TypeOK, Prepared, Answered
<1>4. AnswersMatchLedger'
  BY DEF TypeOK, AnswersMatchLedger, Booked
<1> QED  BY <1>1, <1>2, <1>3, <1>4

\* The invariant is inductive: one step per action of the service.
LEMMA InvNext == LedgerInv /\ [Next]_vars => LedgerInv'
<1> SUFFICES ASSUME LedgerInv, [Next]_vars PROVE LedgerInv'
  OBVIOUS
<1> USE DEF Answered
<1>1. ASSUME NEW c \in Calls, ReadForUpdate(c) PROVE LedgerInv'
  BY <1>1, ReadStep
<1>2. ASSUME NEW c \in Calls, Mutate(c) PROVE LedgerInv'
  BY <1>2, MutateStep
<1>3. ASSUME NEW c \in Calls, Lookup(c) PROVE LedgerInv'
  BY <1>3, AnswerStep DEF Lookup, Answer
<1>4. ASSUME NEW c \in Calls, Fail(c) PROVE LedgerInv'
  BY <1>4, AnswerStep DEF Fail, Answer
<1>5. ASSUME NEW card \in Cards, CreateSaldoIfNotExists(card) PROVE LedgerInv'
  BY <1>5, InsertStep DEF CreateSaldoIfNotExists
<1>6. ASSUME NEW card \in Cards, NEW total \in Openings, CreateSaldo(card, total)
      PROVE  LedgerInv'
  <2>1. total \in Nat  BY OpeningsAssumption
  <2>2. CASE Insert(card, total)
    BY <1>6, <2>1, <2>2, InsertStep DEF CreateSaldo
  <2>3. ASSUME NEW i \in Ids, saldo' = [saldo EXCEPT ![i].total = total], UNCHANGED ledger
        PROVE  LedgerInv'
    <3>1. saldo' \in [Ids -> Rows] /\ \A j \in Ids : saldo'[j].state = saldo[j].state
      BY <2>1, <2>3 DEF LedgerInv, TypeOK, Rows
    <3> QED  BY <1>6, <2>3, <3>1, RowsStep DEF CreateSaldo, LedgerInv, TypeOK, recon
  <2> QED  BY <1>6, <2>2, <2>3 DEF CreateSaldo, Active
<1>7. ASSUME NEW S \in SUBSET Ids, NEW state \in {"active", "trashed", "deleted"},
             SetState(S, state), UNCHANGED <<ledger, calls, recon>>
      PROVE  LedgerInv'
  <2>1. /\ saldo' \in [Ids -> Rows]
        /\ \A i \in Ids : saldo[i].state # "unused" => saldo'[i].state # "unused"
    BY <1>7 DEF LedgerInv, TypeOK, Rows, SetState
  <2> QED  BY <1>7, <2>1, RowsStep DEF LedgerInv, TypeOK, recon
<1>8. ASSUME NEW i \in Ids, TrashedSaldo(i) PROVE LedgerInv'
  <2>1. {i} \in SUBSET Ids  OBVIOUS
  <2> QED  BY <1>7, <1>8, <2>1 DEF TrashedSaldo
<1>9. ASSUME NEW S \in SUBSET Trashed, RestoreSaldo(S) \/ DeleteSaldoPermanent(S)
      PROVE  LedgerInv'
  <2>1. S \in SUBSET Ids  BY DEF Trashed
  <2> QED  BY <1>7, <1>9, <2>1 DEF RestoreSaldo, DeleteSaldoPermanent
<1>10. ASSUME UNCHANGED <<saldo, ledger, calls>>, listed' \subseteq Ids,
              queue' \in [Ids -> {"none", "open", "resolved"}]
       PROVE  LedgerInv'
  BY <1>10, RowsStep DEF LedgerInv, TypeOK
<1>11. ASSUME NEW i \in Ids, ResolveReconciliation(i) PROVE LedgerInv'
  BY <1>10, <1>11 DEF ResolveReconciliation, LedgerInv, TypeOK
<1>12. CASE ListMismatches
  <2>1. listed' \subseteq Ids  BY <1>12 DEF ListMismatches, Mismatches
  <2> QED  BY <1>10, <1>12, <2>1 DEF ListMismatches, LedgerInv, TypeOK
<1>13. ASSUME NEW i \in Ids, Enqueue(i) \/ EnqueueFails(i) PROVE LedgerInv'
  BY <1>10, <1>13 DEF Enqueue, EnqueueFails, LedgerInv, TypeOK
<1>14. CASE UNCHANGED vars
  BY <1>10, <1>14 DEF vars, calls, LedgerInv, TypeOK
<1> QED
  BY <1>1, <1>2, <1>3, <1>4, <1>5, <1>6, <1>8, <1>9, <1>11, <1>12, <1>13, <1>14
     DEF Next, Handle, Admin, Reconciler

\* The invariant of the ledger holds in every behaviour.
LEMMA Invariance == Spec => []LedgerInv
BY InvInit, InvNext, PTL DEF Spec

\* Every variable keeps its type, and no balance is ever negative.
THEOREM TypeCorrect == Spec => []TypeOK
<1>1. LedgerInv => TypeOK  BY DEF LedgerInv
<1> QED  BY <1>1, Invariance, PTL

\* An operation on a card is booked at most once in each direction.
THEOREM OperationUnique == Spec => []UniqueOperation
<1>1. LedgerInv => UniqueOperation  BY DEF LedgerInv
<1> QED  BY <1>1, Invariance, PTL

\* An answer of ok or conflict agrees with what the ledger holds.
THEOREM AnswersAgree == Spec => []AnswersMatchLedger
<1>1. LedgerInv => AnswersMatchLedger  BY DEF LedgerInv
<1> QED  BY <1>1, Invariance, PTL

-----------------------------------------------------------------------------
(***************************************************************************)
(* What the command services assume of this service (SaldoClient), as the  *)
(* service's own state: the balance of a card is that of its active row,   *)
(* and the bookings are the debits and credits of the ledger.              *)
(***************************************************************************)

Moves    == {"debit", "credit"}
Balances == [card \in Cards |-> IF Active(card) = {} THEN 0
                                ELSE saldo[CHOOSE i \in Active(card) : TRUE].total]
Booking(e) == [op |-> e.op, card |-> e.card, amount |-> e.delta]
Bookings   == {Booking(e) : e \in {f \in ledger : f.direction \in Moves}}

Client == INSTANCE SaldoClient WITH
            balance <- Balances, booked <- Bookings, inflight <- {},
            InitialBalance <- [card \in Cards |-> 0]

\* A debit or a credit is answered ok exactly in a step that executes it for
\* the client, and no other step of its handler changes what the client sees.
AnswerIsExecution ==
  [][\A c \in Calls : Handle(c) /\ request[c] \in Mutations /\ request[c].direction \in Moves =>
       IF pc'[c] = "ok" THEN Client!Executes(Booking(request[c]))
       ELSE UNCHANGED <<Balances, Bookings>>]_vars

\* A call books what it was asked to, a card has one active saldo, and the
\* sign of a ledger entry is that of its direction.
AsAsked   == \A c \in Calls : request[c] \in Mutations =>
               pc[c] # "read" /\ mutation[c] = request[c]
OneActive == \A card \in Cards : \A i, j \in Active(card) : i = j
Signed(e) == /\ e.direction = "debit" => e.delta < 0
             /\ e.direction = "credit" => e.delta > 0
Signs == /\ \A e \in ledger : Signed(e)
         /\ \A c \in Calls : pc[c] \in {"mutate", "lookup", "conflict"} => Signed(mutation[c])

ClientInv == LedgerInv /\ AsAsked /\ OneActive /\ Signs

\* Without saldos and entries the client sees zero balances and no bookings.
LEMMA ClientInvInit == Init => ClientInv
<1> SUFFICES ASSUME Init PROVE AsAsked /\ OneActive /\ Signs
  BY InvInit DEF ClientInv
<1>1. \A c \in Calls : request[c] \in Requests
  BY DEF Init
<1>2. AsAsked
  BY DEF Init, AsAsked
<1>3. OneActive
  BY DEF Init, OneActive, Active, Unused
<1>4. Signs
  BY DEF Init, Signs, Signed, Mutations
<1> QED  BY <1>2, <1>3, <1>4

\* Only UpdateSaldo prepares a mutation of its own, and never for a debit or credit.
LEMMA AskedNext == ClientInv /\ [Next]_vars => AsAsked' /\ Signs'
<1> SUFFICES ASSUME ClientInv, [Next]_vars PROVE AsAsked' /\ Signs'
  OBVIOUS
<1> USE DEF ClientInv, LedgerInv
<1>1. ASSUME UNCHANGED calls, \A e \in ledger' : e \in ledger \/ Signed(e)
      PROVE  AsAsked' /\ Signs'
  BY <1>1 DEF AsAsked, Signs, Signed, calls
<1>2. ASSUME NEW c \in Calls, NEW a, pc' = [pc EXCEPT ![c] = a], a # "read",
             a \in {"mutate", "lookup", "conflict"} => pc[c] \in {"mutate", "lookup"},
             UNCHANGED <<request, mutation>>,
             \A e \in ledger' : e \in ledger \/ (pc[c] = "mutate" /\ e = mutation[c])
      PROVE  AsAsked' /\ Signs'
  BY <1>2 DEF AsAsked, Signs, Signed, TypeOK
<1>3. ASSUME NEW c \in Calls, Mutate(c) PROVE AsAsked' /\ Signs'
  BY <1>2, <1>3 DEF Mutate, Answer, Apply
<1>4. ASSUME NEW c \in Calls, Lookup(c) \/ Fail(c) PROVE AsAsked' /\ Signs'
  BY <1>2, <1>4 DEF Lookup, Fail, Answer
<1>5. ASSUME NEW c \in Calls, ReadForUpdate(c) PROVE AsAsked' /\ Signs'
  <2>1. pc[c] = "read" /\ UNCHANGED <<request, ledger>>
    BY <1>5 DEF ReadForUpdate
  <2>2. /\ \A d \in Calls \ {c} : pc'[d] = pc[d] /\ mutation'[d] = mutation[d]
        /\ pc'[c] \in {"mutate", "lookup", "conflict"} => Signed(mutation'[c])
    BY <1>5 DEF ReadForUpdate, Answer, TypeOK, Signed
  <2> QED  BY <2>1, <2>2 DEF AsAsked, Signs, Signed
<1>6. ASSUME NEW card, NEW total, Insert(card, total), UNCHANGED calls PROVE AsAsked' /\ Signs'
  BY <1>1, <1>6 DEF Insert, Signed
<1>7. CASE Admin
  BY <1>1, <1>6, <1>7 DEF Admin, CreateSaldo, CreateSaldoIfNotExists, TrashedSaldo, RestoreSaldo,
                          DeleteSaldoPermanent, ResolveReconciliation
<1>8. CASE Reconciler \/ UNCHANGED vars
  BY <1>1, <1>8 DEF Reconciler, ListMismatches, Enqueue, EnqueueFails, vars, calls
<1> QED  BY <1>3, <1>4, <1>5, <1>7, <1>8 DEF Next, Handle

\* The unique index: a saldo becomes active only on a card that has none.
LEMMA OneActiveNext == ClientInv /\ [Next]_vars => OneActive'
<1> SUFFICES ASSUME ClientInv, [Next]_vars PROVE OneActive'
  OBVIOUS
<1> USE DEF ClientInv, LedgerInv
<1>1. ASSUME \A i \in Ids : /\ saldo'[i].card = saldo[i].card
                            /\ saldo'[i].state = "active" => saldo[i].state = "active"
      PROVE  OneActive'
  BY <1>1 DEF OneActive, Active
<1>2. ASSUME NEW card \in Cards, NEW total, Active(card) = {}, Insert(card, total) PROVE OneActive'
  BY <1>2 DEF Insert, OneActive, Active, TypeOK
<1>3. ASSUME NEW S, RestoreSaldo(S) PROVE OneActive'
  BY <1>3 DEF RestoreSaldo, SetState, Trashed, OneActive, Active, TypeOK, Rows
<1>4. ASSUME NEW i \in Ids, TrashedSaldo(i) PROVE OneActive'
  BY <1>1, <1>4 DEF TrashedSaldo, SetState, TypeOK, Rows
<1>5. ASSUME NEW S, DeleteSaldoPermanent(S) PROVE OneActive'
  BY <1>1, <1>5 DEF DeleteSaldoPermanent, SetState, TypeOK, Rows
<1>6. ASSUME NEW i \in Ids, NEW total, saldo' = [saldo EXCEPT ![i].total = total] PROVE OneActive'
  BY <1>1, <1>6 DEF TypeOK, Rows
<1>7. CASE Admin
  BY <1>1, <1>2, <1>3, <1>4, <1>5, <1>6, <1>7 DEF Admin, CreateSaldo, CreateSaldoIfNotExists,
                                              ResolveReconciliation, Active
<1>8. ASSUME NEW c \in Calls, Handle(c) PROVE OneActive'
  BY <1>1, <1>6, <1>8 DEF Handle, ReadForUpdate, Mutate, Lookup, Fail, Apply, Active
<1>9. CASE Reconciler \/ UNCHANGED vars
  BY <1>1, <1>9 DEF Reconciler, ListMismatches, Enqueue, EnqueueFails, vars
<1> QED  BY <1>7, <1>8, <1>9 DEF Next

\* The client's balance of a card is that of its active saldo.
LEMMA BalanceOfActive ==
  ASSUME OneActive, NEW card \in Cards, NEW i \in Active(card)
  PROVE  Balances[card] = saldo[i].total
<1>1. (CHOOSE j \in Active(card) : TRUE) \in Active(card)  OBVIOUS
<1>2. (CHOOSE j \in Active(card) : TRUE) = i  BY <1>1 DEF OneActive
<1> QED  BY <1>2 DEF Balances

\* A mutation that books is an execution, and one that does not changes nothing.
LEMMA MutateExecutes ==
  ASSUME ClientInv, ClientInv', NEW c \in Calls, Mutate(c), request[c] \in Mutations,
         request[c].direction \in Moves
  PROVE  IF pc'[c] = "ok" THEN Client!Executes(Booking(request[c]))
         ELSE UNCHANGED <<Balances, Bookings>>
<1> DEFINE m == request[c]
<1>1. mutation[c] = m /\ m.card \in Cards /\ m.delta \in Int /\ Signed(m)
  BY DEF ClientInv, AsAsked, Mutations, Signed
<1>2. CASE pc' = [pc EXCEPT ![c] = "lookup"] /\ UNCHANGED <<saldo, ledger>>
  <2>1. pc'[c] # "ok"  BY <1>2 DEF ClientInv, LedgerInv, TypeOK
  <2> QED  BY <1>2, <2>1 DEF Balances, Bookings, Active
<1>3. ASSUME NEW i \in Active(m.card), Accepts(i, m), ~Booked(m), Apply(i, m)
      PROVE  Client!Executes(Booking(m))
  <2>1. ledger' = ledger \cup {m} /\ saldo' = [saldo EXCEPT ![i].total = @ + m.delta]
    BY <1>3 DEF Apply
  <2>2. ~Client!Clashes(Booking(m))
    <3> SUFFICES ASSUME NEW e \in ledger, e.direction \in Moves, e.op = m.op, e.card = m.card,
                        (e.delta < 0) = (m.delta < 0)
                 PROVE  FALSE
      BY DEF Client!Clashes, Bookings, Booking
    <3>1. e.delta \in Int /\ Signed(e)
      BY DEF ClientInv, LedgerInv, TypeOK, Entry, Signs
    <3>2. e.direction # m.direction
      BY <1>3 DEF Booked, SameOperation
    <3>3. CASE e.direction = "debit"
      BY <1>1, <3>1, <3>2, <3>3 DEF Signed, Moves
    <3>4. CASE e.direction = "credit"
      BY <1>1, <3>1, <3>2, <3>4 DEF Signed, Moves
    <3> QED  BY <3>3, <3>4 DEF Moves
  <2>3. Balances[m.card] + Booking(m).amount >= 0
    BY <1>1, <1>3, BalanceOfActive DEF Accepts, Booking, ClientInv
  <2>4. Bookings' = Bookings \cup {Booking(m)}
    BY <2>1 DEF Bookings, Booking
  <2>5. Balances' = [Balances EXCEPT ![m.card] = @ + Booking(m).amount]
    <3>1. \A j \in Ids : saldo'[j].card = saldo[j].card /\ saldo'[j].state = saldo[j].state
                         /\ (j # i => saldo'[j].total = saldo[j].total)
      BY <2>1 DEF ClientInv, LedgerInv, TypeOK, Rows
    <3>2. \A card \in Cards : Active(card)' = Active(card)
      BY <3>1 DEF Active
    <3>3. saldo'[i].total = saldo[i].total + m.delta
      BY <1>3, <2>1 DEF Active, ClientInv, LedgerInv, TypeOK, Rows
    <3>4. Balances'[m.card] = Balances[m.card] + m.delta
      <4>1. Balances[m.card] = saldo[i].total
        BY <1>1, <1>3, BalanceOfActive DEF ClientInv
      <4>2. Balances'[m.card] = saldo'[i].total
        <5>1. (CHOOSE j \in Active(m.card) : TRUE) = i
          BY <1>1, <1>3 DEF ClientInv, OneActive
        <5> QED  BY <1>1, <1>3, <3>2, <5>1 DEF Balances
      <4> QED  BY <3>3, <4>1, <4>2
    <3>5. ASSUME NEW card \in Cards, card # m.card PROVE Balances'[card] = Balances[card]
      <4>1. i \notin Active(card)  BY <1>3, <3>5 DEF Active
      <4>2. CASE Active(card) = {}  BY <3>2, <4>2 DEF Balances
      <4>3. CASE Active(card) # {}
        <5>1. (CHOOSE j \in Active(card) : TRUE) \in Active(card)  BY <4>3
        <5>2. (CHOOSE j \in Active(card) : TRUE) \in Ids \ {i}  BY <4>1, <5>1 DEF Active
        <5> QED  BY <3>1, <3>2, <5>2 DEF Balances
      <4> QED  BY <4>2, <4>3
    <3> QED  BY <1>1, <3>4, <3>5 DEF Balances, Booking
  <2> QED  BY <1>1, <2>2, <2>3, <2>4, <2>5 DEF Client!Executes, Booking
<1> QED  BY <1>1, <1>2, <1>3 DEF Mutate, Answer, ClientInv, LedgerInv, TypeOK

\* What the command services assume of a saldo call holds of the service: an
\* answer of ok means the client's Executes, once per operation, and an answer
\* that is not ok moved no money.  Creation, updates and trash operations change
\* what the client sees too; the command services' models leave them out.
THEOREM ClientIsServed == Spec => AnswerIsExecution
<1> DEFINE Served == \A c \in Calls :
             Handle(c) /\ request[c] \in Mutations /\ request[c].direction \in Moves =>
               IF pc'[c] = "ok" THEN Client!Executes(Booking(request[c]))
               ELSE UNCHANGED <<Balances, Bookings>>
<1>1. ClientInv /\ [Next]_vars => ClientInv'
  BY InvNext, AskedNext, OneActiveNext DEF ClientInv
<1>2. ClientInv /\ ClientInv' /\ [Next]_vars => [Served]_vars
  <2> SUFFICES ASSUME ClientInv, ClientInv', NEW c \in Calls, Handle(c),
                      request[c] \in Mutations, request[c].direction \in Moves
               PROVE  IF pc'[c] = "ok" THEN Client!Executes(Booking(request[c]))
                      ELSE UNCHANGED <<Balances, Bookings>>
    OBVIOUS
  <2>1. CASE Mutate(c)  BY <2>1, MutateExecutes
  <2>2. CASE ReadForUpdate(c)  BY <2>2 DEF ReadForUpdate, ClientInv, AsAsked
  <2>3. CASE Lookup(c) \/ Fail(c)
    <3>1. UNCHANGED <<saldo, ledger>>  BY <2>3 DEF Lookup, Fail
    <3>2. UNCHANGED <<Balances, Bookings>>  BY <3>1 DEF Balances, Bookings, Active
    <3>3. pc'[c] = "ok" => request[c] \in ledger
      BY <2>3 DEF Lookup, Fail, Answer, ClientInv, AsAsked, LedgerInv, TypeOK
    <3>4. pc'[c] = "ok" => Booking(request[c]) \in Bookings
      BY <3>3 DEF Bookings
    <3> QED  BY <3>2, <3>4 DEF Client!Executes
  <2> QED  BY <2>1, <2>2, <2>3 DEF Handle
<1> QED  BY <1>1, <1>2, ClientInvInit, PTL DEF Spec, AnswerIsExecution

(***************************************************************************)
(* Balances and the ledger move together.                                  *)
(***************************************************************************)

\* Only finitely many entries are ever booked, so that their sum is defined.
FiniteLedger == IsFiniteSet(ledger)

GapInv == ClientInv /\ FiniteLedger

\* Every step books at most one entry.
LEMMA FiniteNext == FiniteLedger /\ [Next]_vars => FiniteLedger'
<1> SUFFICES ASSUME FiniteLedger, [Next]_vars PROVE FiniteLedger'
  OBVIOUS
<1>1. UNCHANGED ledger => FiniteLedger'
  BY DEF FiniteLedger
<1>2. ASSUME NEW e, ledger' = ledger \cup {e} PROVE FiniteLedger'
  BY <1>2, FS_AddElement DEF FiniteLedger
<1>3. ASSUME NEW c \in Calls, Handle(c) PROVE FiniteLedger'
  BY <1>1, <1>2, <1>3 DEF Handle, ReadForUpdate, Mutate, Lookup, Fail, Apply
<1>4. CASE Admin
  BY <1>1, <1>2, <1>4 DEF Admin, CreateSaldo, CreateSaldoIfNotExists, Insert, TrashedSaldo,
                          RestoreSaldo, DeleteSaldoPermanent, ResolveReconciliation
<1>5. CASE Reconciler \/ UNCHANGED vars
  BY <1>1, <1>5 DEF Reconciler, ListMismatches, Enqueue, EnqueueFails, vars
<1> QED  BY <1>3, <1>4, <1>5 DEF Next

\* A new entry moves the total of its card by its delta, and no other total.
LEMMA BookedTotal ==
  ASSUME FiniteLedger, ledger \subseteq Entry, NEW e \in Entry, e \notin ledger,
         ledger' = ledger \cup {e}, NEW card
  PROVE  /\ LedgerTotal(card) \in Int
         /\ LedgerTotal(card)' = IF card = e.card THEN LedgerTotal(card) + e.delta
                                 ELSE LedgerTotal(card)
<1> DEFINE f == [x \in ledger |-> x.delta]
           g == [x \in ledger \cup {e} |-> x.delta]
           T == Entries(card)
<1>1. \A x \in T : f[x] \in Int /\ g[x] = f[x]
  BY DEF Entries, Entry
<1>2. g[e] = e.delta /\ e.delta \in Int
  BY DEF Entry
<1>3. T \subseteq ledger /\ IsFiniteSet(T) /\ e \notin T
  BY FS_Subset DEF Entries, FiniteLedger
<1>4. LedgerTotal(card) = SumFunctionOnSet(f, T)
  BY DEF LedgerTotal
<1>5. LedgerTotal(card)' = SumFunctionOnSet(g, IF card = e.card THEN T \cup {e} ELSE T)
  <2>1. Entries(card)' = IF card = e.card THEN T \cup {e} ELSE T
    BY DEF Entries
  <2>2. LedgerTotal(card)' = SumFunctionOnSet([x \in ledger' |-> x.delta], Entries(card)')
    BY DEF LedgerTotal
  <2> QED  BY <2>1, <2>2
<1> HIDE DEF f, g, T
<1>6. SumFunctionOnSet(g, T) = SumFunctionOnSet(f, T)
  BY <1>1, <1>3, SumCongruent
<1>7. SumFunctionOnSet(f, T) \in Int
  BY <1>1, <1>3, SumType
<1>8. SumFunctionOnSet(g, T \cup {e}) = g[e] + SumFunctionOnSet(g, T)
  BY <1>1, <1>2, <1>3, SumAdd
<1> QED  BY <1>2, <1>4, <1>5, <1>6, <1>7, <1>8

\* A step that leaves the ledger alone leaves the gap of a saldo it does not touch.
LEMMA GapKept ==
  ASSUME NEW i, ledger' = ledger, saldo'[i].card = saldo[i].card,
         saldo'[i].total = saldo[i].total
  PROVE  Gap(i)' = Gap(i)
BY DEF Gap, LedgerTotal, Entries

\* A mutation moves the one active saldo of its card by what it books.
LEMMA MutateGap ==
  ASSUME GapInv, NEW c \in Calls, Mutate(c), NEW j \in Ids, saldo[j].state = "active"
  PROVE  Gap(j)' = Gap(j)
<1> DEFINE m == mutation[c]
<1>1. CASE UNCHANGED <<saldo, ledger>>
  BY <1>1, GapKept
<1>2. ASSUME NEW i \in Active(m.card), Accepts(i, m), ~Booked(m), Apply(i, m)
      PROVE  Gap(j)' = Gap(j)
  <2>1. m \in Entry /\ m \notin ledger /\ ledger' = ledger \cup {m}
    BY <1>2 DEF Apply, Booked, SameOperation, Mutate, GapInv, ClientInv, LedgerInv, Prepared
  <2>2. FiniteLedger /\ ledger \subseteq Entry
    BY DEF GapInv, ClientInv, LedgerInv, TypeOK
  <2>3. saldo[j].total \in Int /\ m.delta \in Int
    BY <2>1 DEF GapInv, ClientInv, LedgerInv, TypeOK, Rows, Entry
  <2>4. saldo'[j].card = saldo[j].card
        /\ saldo'[j].total = IF j = i THEN saldo[j].total + m.delta ELSE saldo[j].total
    BY <1>2 DEF Apply, Active, GapInv, ClientInv, LedgerInv, TypeOK, Rows
  <2>5. (saldo[j].card = m.card) = (j = i)
    <3>1. m.card \in Cards  BY <2>1 DEF Entry
    <3>2. saldo[j].card = m.card => j \in Active(m.card)  BY DEF Active
    <3>3. saldo[i].card = m.card  BY <1>2 DEF Active
    <3> QED  BY <1>2, <3>1, <3>2, <3>3 DEF GapInv, ClientInv, OneActive
  <2> HIDE DEF m
  <2>6. /\ LedgerTotal(saldo[j].card) \in Int
        /\ LedgerTotal(saldo[j].card)' = IF saldo[j].card = m.card
                                         THEN LedgerTotal(saldo[j].card) + m.delta
                                         ELSE LedgerTotal(saldo[j].card)
    BY <2>1, <2>2, <2>4, BookedTotal
  <2>7. Gap(j)' = saldo'[j].total - LedgerTotal(saldo[j].card)'
    BY <2>4 DEF Gap
  <2> QED  BY <2>3, <2>4, <2>5, <2>6, <2>7 DEF Gap
<1> QED  BY <1>1, <1>2 DEF Mutate

\* However creations, calls, trash operations and reconciliation interleave, no
\* step of a request changes the difference between the balance of an active
\* saldo and its ledger.
THEOREM BooksKept == Spec => RequestsKeepTheBooks
<1> DEFINE Kept == \A c \in Calls, i \in Ids :
             pc'[c] # pc[c] /\ saldo[i].state = "active" => Gap(i)' = Gap(i)
<1>1. Init => GapInv
  BY ClientInvInit, FS_EmptySet DEF Init, GapInv, FiniteLedger
<1>2. GapInv /\ [Next]_vars => GapInv'
  BY InvNext, AskedNext, OneActiveNext, FiniteNext DEF GapInv, ClientInv
<1>3. GapInv /\ [Next]_vars => [Kept]_vars
  <2> SUFFICES ASSUME GapInv, Next, NEW c \in Calls, NEW i \in Ids,
                      pc'[c] # pc[c], saldo[i].state = "active"
               PROVE  Gap(i)' = Gap(i)
    OBVIOUS
  <2>1. PICK d \in Calls : Handle(d)
    BY DEF Next, Admin, Reconciler, CreateSaldoIfNotExists, CreateSaldo, TrashedSaldo,
           ResolveReconciliation, RestoreSaldo, DeleteSaldoPermanent, ListMismatches,
           Enqueue, EnqueueFails, calls
  <2>2. CASE UNCHANGED <<saldo, ledger>>
    BY <2>2, GapKept
  <2>3. CASE Mutate(d)
    BY <2>3, MutateGap
  <2> QED  BY <2>1, <2>2, <2>3 DEF Handle, ReadForUpdate, Lookup, Fail
<1> QED  BY <1>1, <1>2, <1>3, PTL DEF Spec, RequestsKeepTheBooks
=============================================================================
