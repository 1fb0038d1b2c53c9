----------------------------- MODULE SaldoClient -----------------------------
(***************************************************************************)
(* The saldo service as the command services see it through pkg/adapter:   *)
(* a debit or credit is booked at most once per operation id, card and     *)
(* direction; its call is guarded by a timeout and a circuit breaker.      *)
(* SaldoLedger.tla models the service itself.                              *)
(***************************************************************************)
EXTENDS Integers

CONSTANTS
  Cards,           \* card numbers that own a saldo
  InitialBalance   \* opening balance of every card

VARIABLES
  balance,    \* saldos.total_balance
  booked,     \* balance_ledger entries [op, card, amount], amount signed
  inflight    \* requests that timed out and may still be executed

ledger == <<balance, booked, inflight>>

Debit(op, card, n)  == [op |-> op, card |-> card, amount |-> -n]
Credit(op, card, n) == [op |-> op, card |-> card, amount |-> n]

\* An entry the unique index takes for the same operation.
Clashes(e) == \E f \in booked : /\ f.op = e.op /\ f.card = e.card
                                /\ (f.amount < 0) = (e.amount < 0)

\* Mutant: a debit is booked without its balance check.
ExecutesUnfunded(e) ==
  \/ e \in booked /\ UNCHANGED <<balance, booked>>
  \/ /\ ~Clashes(e)
     /\ booked' = booked \cup {e}
     /\ balance' = [balance EXCEPT ![e.card] = @ + e.amount]

\* A request the service answers: a booked one again, a new one if funded.
Executes(e) ==
  \/ e \in booked /\ UNCHANGED <<balance, booked>>
  \/ /\ ~Clashes(e)
     /\ balance[e.card] + e.amount >= 0
     /\ booked' = booked \cup {e}
     /\ balance' = [balance EXCEPT ![e.card] = @ + e.amount]

Succeeds(e) == Executes(e) /\ UNCHANGED inflight

\* Refused (funds, conflict, no saldo, circuit open), or timed out.
Fails(e) ==
  \/ UNCHANGED ledger
  \/ inflight' = inflight \cup {e} /\ UNCHANGED <<balance, booked>>

\* The service gets to a request whose caller has given up, executed or not.
Arrive(e) ==
  /\ e \in inflight
  /\ inflight' = inflight \ {e}
  /\ Executes(e) \/ UNCHANGED <<balance, booked>>

LedgerInit == /\ balance = InitialBalance
              /\ booked = {} /\ inflight = {}
=============================================================================
