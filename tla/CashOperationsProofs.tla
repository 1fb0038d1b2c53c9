------------------------ MODULE CashOperationsProofs ------------------------
(***************************************************************************)
(* Theorems about withdrawals and top-ups (CashOperations.tla), for any    *)
(* number of calls, cards and amounts and any daily limit: a call moves    *)
(* its amount once or not at all, what is announced is booked, and only    *)
(* withdrawals that overlapped exceed the daily limit.                     *)
(***************************************************************************)
EXTENDS CashOperations, SumTheorems

AllPlaces == Resting \cup WithdrawPlaces \cup TopupPlaces \cup
             {"claim", "lookup", "check", "enqueue", "complete", "release"}
RowType   == {"pending", "success", "failed", "none"}
Records   == [owner : Calls, hash : Bodies, status : {"processing", "success"}]

Entry(e)  == e.card \in Cards /\ e.amount \in Int
LedgerType == /\ balance \in [Cards -> Nat]
              /\ \A e \in booked \cup inflight : Entry(e)

\* TypeOK, with its parts named.
Typed ==
  /\ request \in [Calls -> Requests] /\ pc \in [Calls -> AllPlaces]
  /\ idem \in [Keys -> Records \cup {NoRecord}]
  /\ status \in [Calls -> RowType] /\ trashed \subseteq Calls /\ lapsed \subseteq Calls
  /\ outbox \subseteq Calls \X EventTypes /\ LedgerType
  /\ counted \in [Calls -> SUBSET Calls] /\ marks \subseteq Calls

-----------------------------------------------------------------------------
(***************************************************************************)
(* The invariant.                                                          *)
(***************************************************************************)

\* The booking a call makes, and those that may take it back.
First(c) == IF c \in Withdrawals
            THEN Debit(WithdrawOp(c, "debit"), Body(c).card, Body(c).amount)
            ELSE Credit(<<c, "credit">>, Body(c).card, Body(c).amount)

Undos(c) == IF c \in Withdrawals
            THEN {Credit(WithdrawOp(c, name), Body(c).card, Body(c).amount) :
                    name \in {"rollback-create", "rollback-status"}}
            ELSE {Debit(<<c, "rollback">>, Body(c).card, Body(c).amount)}

Paid(c)    == Entries(c, booked)
Pending(c) == Entries(c, inflight)

\* Places before the call is checked, before it has a row, before it has asked
\* for a booking, and after its last.
Unchecked == {"idle", "claim", "lookup", "check", "replayed", "conflict", "inprogress"}
Rowless   == Unchecked \cup {"limit", "debit", "insert", "insertTopup"}
Unsent    == Unchecked \cup {"limit", "debit", "insertTopup", "credit"}
Gone      == {"mark", "release", "error", "crashed"}
Booked    == AllPlaces \ (Unsent \cup Gone)

\* Each handler stays in its own service; whoever is past the check or has a
\* row asks for a positive amount.
Routed(c) ==
  /\ pc[c] \in WithdrawPlaces => c \in Withdrawals
  /\ pc[c] \in TopupPlaces => c \in Topups
  /\ pc[c] \in Rowless => status[c] = "none"
  /\ pc[c] \notin Unchecked \cup Gone \/ status[c] # "none" => Body(c).amount > 0

Emitted(c) == \E e \in EventTypes : <<c, e>> \in outbox
Stored(c)  == \E k \in Keys : /\ idem[k] # NoRecord /\ idem[k].status = "success"
                              /\ idem[k].owner = c

\* What has been announced is final.
Announced(c) ==
  /\ Emitted(c) => pc[c] \in {"complete", "ok", "crashed"} /\ (Alone(c) => Paid(c) = {First(c)} /\ Pending(c) = {})
  /\ Stored(c) => pc[c] = "ok"

\* By the place of the handler: what is booked, and what is under way.
Placed(c) ==
  /\ pc[c] \in Unsent => Paid(c) = {} /\ Pending(c) = {}
  /\ pc[c] \in Booked => Paid(c) = {First(c)} /\ Pending(c) = {}
  /\ pc[c] \in Gone => \E u \in Undos(c) :
       /\ Paid(c) \cup Pending(c) \subseteq {First(c), u}
       /\ u \in Paid(c) \cup Pending(c) => First(c) \in Paid(c)
  /\ Paid(c) \cup Pending(c) # {} => Body(c).amount > 0

\* A topup that is, or is about to be, marked failed has no refund under way.
Marked(c) ==
  pc[c] = "mark" \/ c \in marks \/ status[c] = "failed" =>
    pc[c] \in Gone /\ Pending(c) \cap Undos(c) = {}

\* Whoever is past the claim of a key holds its record, which does not expire
\* while its handler runs.
Owning   == (WithdrawPlaces \cup TopupPlaces) \cup {"check", "enqueue", "complete", "release"}
Holds(c) == idem[Key(c)] # NoRecord /\ idem[Key(c)].owner = c
Owned(c) ==
  /\ pc[c] \in {"claim", "lookup"} => Key(c) # NoKey
  /\ Key(c) # NoKey /\ pc[c] \in Owning => Holds(c)
  /\ c \in lapsed => pc[c] \in Resting \ {"idle"}

\* A call only counts rows that were there before its own check.
Limited(c) ==
  /\ IsFiniteSet(counted[c])
  /\ \A d \in counted[c] : pc[d] \notin Rowless /\ Body(d).amount > 0
  /\ c \in Withdrawals /\ (pc[c] \in {"debit", "insert"} \/ status[c] # "none") =>
       Total(counted[c]) + Body(c).amount <= DailyLimit

Rows == {c \in Calls : status[c] # "none"}

NoCycles ==
  /\ \A c \in Calls : c \notin counted[c]
  /\ \A c, d \in Calls : ~(c \in counted[d] /\ d \in counted[c])
  /\ \A c, d, e \in Calls : ~(c \in counted[d] /\ d \in counted[e] /\ e \in counted[c])

Inv ==
  /\ Typed /\ IsFiniteSet(Rows) /\ NoCycles
  /\ \A c \in Calls : /\ Routed(c) /\ Announced(c) /\ Owned(c) /\ Limited(c)
                      /\ c \in Withdrawals \/ Marked(c)
                      /\ Alone(c) => Placed(c)

-----------------------------------------------------------------------------
(***************************************************************************)
(* Types and control flow.                                                 *)
(***************************************************************************)

\* A request is fixed, and with it what its call may book.
LEMMA Fixed ==
  ASSUME UNCHANGED request
  PROVE  /\ Withdrawals' = Withdrawals /\ Topups' = Topups
         /\ \A c : /\ Key(c)' = Key(c) /\ Body(c)' = Body(c) /\ OpOwner(c)' = OpOwner(c)
                   /\ (Alone(c)' <=> Alone(c)) /\ First(c)' = First(c) /\ Undos(c)' = Undos(c)
<1>1. Withdrawals' = Withdrawals /\ Topups' = Topups
  BY DEF Withdrawals, Topups, Body
<1>2. \A c : Key(c)' = Key(c) /\ Body(c)' = Body(c)
  BY DEF Key, Body
<1>3. \A c : OpOwner(c)' = OpOwner(c) /\ (Alone(c)' <=> Alone(c))
  BY <1>1, <1>2 DEF OpOwner, Alone
<1>4. \A c : First(c)' = First(c) /\ Undos(c)' = Undos(c)
  BY <1>1, <1>2 DEF First, Undos, WithdrawOp
<1> QED
  BY <1>1, <1>2, <1>3, <1>4

\* What a call asks for, and which of the two services it goes to.
LEMMA RequestFacts ==
  ASSUME Typed, NEW c \in Calls
  PROVE  /\ Key(c) \in Keys \cup {NoKey} /\ Body(c) \in Bodies
         /\ Body(c).card \in Cards /\ Body(c).amount \in Int
         /\ (c \in Topups <=> c \notin Withdrawals)
<1>1. request[c] \in Requests
  BY DEF Typed
<1>2. Key(c) \in Keys \cup {NoKey} /\ Body(c) \in Bodies
  BY <1>1 DEF Requests, Key, Body
<1>3. Body(c) \in [kind : {"withdraw", "topup"}, card : Cards, amount : Int, time : Nat]
  BY <1>2, CashAssumption DEF CashAssumption
<1> QED
  BY <1>2, <1>3 DEF Withdrawals, Topups

\* A booking and its reversals are entries of the call's own operation.
LEMMA BookingFacts ==
  ASSUME Typed, NEW c \in Calls
  PROVE  /\ Entry(First(c)) /\ First(c).op[1] = OpOwner(c)
         /\ First(c).amount = Effect(c) /\ Effect(c) \in Int
         /\ Undos(c) # {}
         /\ \A u \in Undos(c) : /\ Entry(u) /\ u.op[1] = OpOwner(c) /\ u.amount = -Effect(c)
                                /\ u # First(c)
<1>1. Body(c).card \in Cards /\ Body(c).amount \in Int /\ -Body(c).amount \in Int
  BY RequestFacts
<1>2. ASSUME NEW op, NEW n, n \in {Body(c).amount, -Body(c).amount}
      PROVE  LET e == [op |-> op, card |-> Body(c).card, amount |-> n]
             IN Entry(e) /\ e.op = op /\ e.amount = n
  BY <1>1, <1>2 DEF Entry
<1>3. -(-Body(c).amount) = Body(c).amount
  BY <1>1
<1>4. CASE c \in Withdrawals
  <2>1. /\ First(c) = [op |-> <<Body(c), "debit">>, card |-> Body(c).card,
                       amount |-> -Body(c).amount]
        /\ OpOwner(c) = Body(c) /\ Effect(c) = -Body(c).amount
    BY <1>4 DEF First, WithdrawOp, Debit, OpOwner, Effect
  <2>2. /\ Undos(c) = {[op |-> <<Body(c), name>>, card |-> Body(c).card,
                        amount |-> Body(c).amount] :
                          name \in {"rollback-create", "rollback-status"}}
    BY <1>4 DEF Undos, WithdrawOp, Credit
  <2>3. /\ Entry(First(c)) /\ First(c).op = <<Body(c), "debit">>
        /\ First(c).amount = Effect(c) /\ Effect(c) \in Int
    BY <1>1, <1>2, <2>1
  <2>4. ASSUME NEW u \in Undos(c)
        PROVE  /\ Entry(u) /\ u.op[1] = OpOwner(c) /\ u.amount = -Effect(c)
               /\ u.op[2] # "debit"
    <3>1. PICK name \in {"rollback-create", "rollback-status"} :
            u = [op |-> <<Body(c), name>>, card |-> Body(c).card, amount |-> Body(c).amount]
      BY <2>2
    <3> QED
      BY <1>1, <1>3, <2>1, <3>1 DEF Entry
  <2>5. Undos(c) # {}
    BY <2>2
  <2>6. First(c).op[1] = OpOwner(c) /\ First(c).op[2] = "debit"
    BY <2>1, <2>3
  <2> QED
    BY <2>3, <2>4, <2>5, <2>6
<1>5. CASE c \notin Withdrawals
  <2>1. /\ First(c) = [op |-> <<c, "credit">>, card |-> Body(c).card, amount |-> Body(c).amount]
        /\ Undos(c) = {[op |-> <<c, "rollback">>, card |-> Body(c).card,
                        amount |-> -Body(c).amount]}
        /\ OpOwner(c) = c /\ Effect(c) = Body(c).amount
    BY <1>5 DEF First, Undos, Debit, Credit, OpOwner, Effect
  <2> QED
    BY <1>1, <1>2, <2>1
<1> QED
  BY <1>4, <1>5

\* No other call books under the operation of a call that is alone.
LEMMA OthersOperations ==
  ASSUME Typed, NEW c \in Calls, NEW d \in Calls \ {c}, Alone(d)
  PROVE  OpOwner(c) # OpOwner(d)
<1>1. Body(c) \in Bodies /\ Body(d) \in Bodies
  BY RequestFacts
<1> QED
  BY <1>1, CashAssumption DEF CashAssumption, OpOwner, Alone

\* The saldo service keeps its own types, whatever it answers.
LEMMA SaldoType ==
  ASSUME LedgerType, NEW e, Entry(e), Succeeds(e) \/ Fails(e) \/ Arrive(e)
  PROVE  LedgerType'
<1>1. ASSUME Executes(e) PROVE balance' \in [Cards -> Nat] /\ booked' \subseteq booked \cup {e}
  BY <1>1 DEF Executes, LedgerType, Entry
<1>2. balance' \in [Cards -> Nat] /\ booked' \subseteq booked \cup {e}
  BY <1>1 DEF Succeeds, Fails, Arrive, ledger, LedgerType
<1>3. inflight' \subseteq inflight \cup {e}
  BY DEF Succeeds, Fails, Arrive, ledger
<1> QED
  BY <1>2, <1>3 DEF LedgerType, Entry

\* A step of one call: of its handler, its goroutine, or the deletion of its row.
Step(c) == \/ Guarded(c) /\ UNCHANGED <<counted, marks>>
           \/ WithdrawStep(c) /\ UNCHANGED marks
           \/ TopupStep(c) /\ UNCHANGED counted

From(c, place, places) == /\ pc[c] = place
                          /\ pc' = [pc EXCEPT ![c] = pc'[c]] /\ pc'[c] \in places

\* Where each action takes the handler.
LEMMA GuardedFlow ==
  ASSUME Typed, NEW c \in Calls
  PROVE  /\ Begin(c) => From(c, "idle", {"claim", "check"})
         /\ Claim(c) => From(c, "claim", {"lookup", "check"})
         /\ Lookup(c) => From(c, "lookup", {"error", "conflict", "replayed", "inprogress"})
         /\ Enqueue(c) => From(c, "enqueue", {"complete"})
         /\ Complete(c) => From(c, "complete", {"ok"})
         /\ Release(c) => From(c, "release", {"error"})
         /\ Crash(c) => From(c, pc[c], {"crashed"}) /\ pc[c] \notin Resting
<1>1. pc \in [Calls -> AllPlaces]
  BY DEF Typed
<1> HIDE DEF Typed
<1>2. Begin(c) => From(c, "idle", {"claim", "check"})
  BY <1>1 DEF Begin, Goto, From
<1>3. Claim(c) => From(c, "claim", {"lookup", "check"})
  BY <1>1 DEF Claim, Goto, From
<1>4. Lookup(c) => From(c, "lookup", {"error", "conflict", "replayed", "inprogress"})
  BY <1>1 DEF Lookup, LostClaimAnswers, Goto, From
<1>5. /\ Enqueue(c) => From(c, "enqueue", {"complete"})
      /\ Complete(c) => From(c, "complete", {"ok"})
      /\ Release(c) => From(c, "release", {"error"})
      /\ Crash(c) => From(c, pc[c], {"crashed"}) /\ pc[c] \notin Resting
  BY <1>1 DEF Enqueue, Complete, Release, Crash, Goto, From
<1> QED
  BY <1>2, <1>3, <1>4, <1>5

\* Where each of the first steps of CreateWithdraw may go.
LEMMA WithdrawFlow ==
  ASSUME Typed, NEW c \in Calls
  PROVE  /\ CheckWithdraw(c) => From(c, "check", {"release", "limit"})
         /\ CheckLimit(c) => From(c, "limit", {"release", "debit"})
         /\ DebitCard(c) => From(c, "debit", {"insert", "release"})
         /\ InsertWithdraw(c) => From(c, "insert", {"settle", "undoInsert"})
         /\ SettleWithdraw(c) => From(c, "settle", {"enqueue", "undoSettle"})
         /\ UndoInsert(c) => From(c, "undoInsert", {"release"})
         /\ UndoSettle(c) => From(c, "undoSettle", {"release"})
<1>1. pc \in [Calls -> AllPlaces]
  BY DEF Typed
<1>2. /\ CheckWithdraw(c) => From(c, "check", {"release", "limit"})
      /\ CheckLimit(c) => From(c, "limit", {"release", "debit"})
      /\ DebitCard(c) => From(c, "debit", {"insert", "release"})
  BY <1>1 DEF CheckWithdraw, CheckLimit, DebitCard, Rpc, Goto, From
<1>3. /\ InsertWithdraw(c) => From(c, "insert", {"settle", "undoInsert"})
      /\ SettleWithdraw(c) => From(c, "settle", {"enqueue", "undoSettle"})
  BY <1>1 DEF InsertWithdraw, SettleWithdraw, WriteStatus, Goto, From
<1>4. /\ UndoInsert(c) => From(c, "undoInsert", {"release"})
      /\ UndoSettle(c) => From(c, "undoSettle", {"release"})
  BY <1>1 DEF UndoInsert, UndoSettle, Refund, Rpc, Goto, From
<1> QED
  BY <1>2, <1>3, <1>4

\* Where each step of CreateTopup may go.
LEMMA TopupFlow ==
  ASSUME Typed, NEW c \in Calls
  PROVE  /\ CheckTopup(c) => From(c, "check", {"release", "insertTopup"})
         /\ InsertTopup(c) => From(c, "insertTopup", {"release", "credit"})
         /\ CreditCard(c) => From(c, "credit", {"updateCard", "mark"})
         /\ UpdateCard(c) => From(c, "updateCard", {"settleTopup", "undoTopup"})
         /\ SettleTopup(c) => From(c, "settleTopup", {"enqueue", "undoTopup"})
         /\ UndoTopup(c) => From(c, "undoTopup", {"mark", "release"})
         /\ LaunchMarker(c) => From(c, "mark", {"release"})
         /\ RunMarker(c) \/ DeleteTopup(c) => UNCHANGED pc
<1>1. pc \in [Calls -> AllPlaces]
  BY DEF Typed
<1>2. /\ CheckTopup(c) => From(c, "check", {"release", "insertTopup"})
      /\ InsertTopup(c) => From(c, "insertTopup", {"release", "credit"})
  BY <1>1 DEF CheckTopup, InsertTopup, Goto, From
<1>3. /\ CreditCard(c) => From(c, "credit", {"updateCard", "mark"})
      /\ UndoTopup(c) => From(c, "undoTopup", {"mark", "release"})
  BY <1>1 DEF CreditCard, UndoTopup, Rpc, Goto, From
<1>4. /\ UpdateCard(c) => From(c, "updateCard", {"settleTopup", "undoTopup"})
      /\ SettleTopup(c) => From(c, "settleTopup", {"enqueue", "undoTopup"})
      /\ LaunchMarker(c) => From(c, "mark", {"release"})
  BY <1>1 DEF UpdateCard, SettleTopup, LaunchMarker, Goto, From
<1>5. RunMarker(c) \/ DeleteTopup(c) => UNCHANGED pc
  BY DEF RunMarker, DeleteTopup
<1> QED
  BY <1>2, <1>3, <1>4, <1>5

\* No call has done anything.
LEMMA InitType == Init => Typed
<1> SUFFICES ASSUME Init PROVE Typed
  OBVIOUS
<1>1. LedgerType
  BY CashAssumption DEF CashAssumption, Init, CommandInit, LedgerInit, LedgerType
<1> QED
  BY <1>1 DEF Typed, Init, CommandInit, WithdrawInit, TopupInit, AllPlaces, Resting, RowType

\* Whatever takes a handler to a place keeps the places typed.
LEMMA FlowType ==
  ASSUME Typed, NEW c \in Calls, NEW place, NEW places \in SUBSET AllPlaces, From(c, place, places)
  PROVE  pc' \in [Calls -> AllPlaces]
<1>1. pc'[c] \in AllPlaces /\ pc' = [pc EXCEPT ![c] = pc'[c]]
  BY DEF From
<1> QED
  BY <1>1 DEF Typed

\* A request for one of the bookings of a call keeps the types of the ledger.
LEMMA RpcType ==
  ASSUME Typed, NEW c \in Calls, NEW e, e \in {First(c)} \cup Undos(c), NEW done, NEW failed,
         Rpc(c, e, done, failed)
  PROVE  LedgerType'
<1>1. LedgerType /\ Entry(e)
  BY BookingFacts DEF Typed
<1> QED
  BY <1>1, SaldoType DEF Rpc

\* The idempotency steps that both services share keep the types.
LEMMA GuardedType ==
  ASSUME Typed, NEW c \in Calls, Guarded(c), UNCHANGED <<counted, marks>>
  PROVE  Typed'
<1>1. pc' \in [Calls -> AllPlaces]
  <2>1. \E place, places : places \in SUBSET AllPlaces /\ From(c, place, places)
    BY GuardedFlow, Zenon DEF Guarded, AllPlaces, Resting
  <2> QED
    BY <2>1, FlowType
<1>2. UNCHANGED <<request, lapsed, status, trashed, ledger>>
  BY DEF Guarded, Begin, Claim, Lookup, Enqueue, Complete, Release, Crash, Others
<1>3. idem' \in [Keys -> Records \cup {NoRecord}]
  <2>1. CASE Claim(c)
    <3>1. [owner |-> c, hash |-> Body(c), status |-> "processing"] \in Records
      BY RequestFacts DEF Records
    <3> QED
      BY <2>1, <3>1 DEF Typed, Claim, ClaimKey
  <2>2. CASE Complete(c)
    BY <2>2 DEF Typed, Complete, CompleteKey, Records
  <2>3. CASE Release(c)
    BY <2>3 DEF Typed, Release, ReleaseKey
  <2>4. CASE Begin(c) \/ Lookup(c) \/ Enqueue(c) \/ Crash(c)
    BY <2>4 DEF Typed, Begin, Lookup, Enqueue, Crash, Others
  <2> QED
    BY <2>1, <2>2, <2>3, <2>4 DEF Guarded
<1>4. outbox' \subseteq Calls \X EventTypes
  BY DEF Typed, Guarded, Begin, Claim, Lookup, Enqueue, Complete, Release, Crash, Others
<1> QED
  BY <1>1, <1>2, <1>3, <1>4 DEF Typed, ledger, LedgerType

\* What an own step of a withdrawal or a topup does besides the ledger: it moves
\* the handler and may write the status of its own row.
Quiet(c) == /\ UNCHANGED <<request, idem, lapsed, outbox>>
            /\ status' = [status EXCEPT ![c] = status'[c]]
            /\ status'[c] \in RowType
            /\ trashed' \subseteq trashed
            /\ counted' \in [Calls -> SUBSET Calls]
            /\ \A d \in Calls \ {c} : counted'[d] = counted[d]
            /\ marks' \subseteq marks \cup {c}

\* What a step of CreateWithdraw may change, in the terms of Quiet.
LEMMA WithdrawEffect ==
  ASSUME Typed, NEW c \in Calls, WithdrawStep(c), UNCHANGED marks
  PROVE  Quiet(c)
<1>1. status = [status EXCEPT ![c] = status[c]] /\ status[c] \in RowType
  BY DEF Typed
<1>2. CASE CheckWithdraw(c) \/ DebitCard(c) \/ UndoInsert(c) \/ UndoSettle(c)
  BY <1>1, <1>2 DEF Quiet, Typed, CheckWithdraw, DebitCard, UndoInsert, UndoSettle, Others
<1>3. CASE CheckLimit(c)
  <2>1. counted' \in [Calls -> SUBSET Calls] /\ \A d \in Calls \ {c} : counted'[d] = counted[d]
    BY <1>3 DEF Typed, CheckLimit, CountsToday, Withdrawals
  <2> QED
    BY <1>1, <1>3, <2>1 DEF Quiet, CheckLimit, Others
<1>4. CASE InsertWithdraw(c) \/ SettleWithdraw(c)
  <2>1. status' = [status EXCEPT ![c] = status'[c]] /\ status'[c] \in RowType
    BY <1>1, <1>4 DEF Typed, InsertWithdraw, SettleWithdraw, WriteStatus, SetStatus, RowType
  <2> QED
    BY <1>4, <2>1 DEF Quiet, Typed, InsertWithdraw, SettleWithdraw, Others
<1> QED
  BY <1>2, <1>3, <1>4 DEF WithdrawStep

\* What a step of CreateTopup may change, in the terms of Quiet.
LEMMA TopupEffect ==
  ASSUME Typed, NEW c \in Calls, TopupStep(c), UNCHANGED counted
  PROVE  Quiet(c)
<1>1. status = [status EXCEPT ![c] = status[c]] /\ status[c] \in RowType
  BY DEF Typed
<1>2. CASE CheckTopup(c) \/ CreditCard(c) \/ UpdateCard(c) \/ UndoTopup(c)
  BY <1>1, <1>2 DEF Quiet, Typed, CheckTopup, CreditCard, UpdateCard, UndoTopup, Others
<1>3. CASE InsertTopup(c) \/ SettleTopup(c)
  <2>1. status' = [status EXCEPT ![c] = status'[c]] /\ status'[c] \in RowType
    BY <1>1, <1>3 DEF Typed, InsertTopup, SettleTopup, WriteTopupStatus, SetStatus, RowType
  <2> QED
    BY <1>3, <2>1 DEF Quiet, Typed, InsertTopup, SettleTopup, Others
<1>4. CASE LaunchMarker(c)
  BY <1>1, <1>4 DEF Quiet, Typed, LaunchMarker, Others
<1>5. CASE RunMarker(c)
  <2>1. status' = [status EXCEPT ![c] = status'[c]] /\ status'[c] \in RowType
    BY <1>1, <1>5 DEF Typed, RunMarker, WriteTopupStatus, SetStatus, RowType
  <2> QED
    BY <1>5, <2>1 DEF Quiet, Typed, RunMarker, Others
<1>6. CASE DeleteTopup(c)
  <2>1. status' = [status EXCEPT ![c] = status'[c]] /\ status'[c] \in RowType
    BY <1>6 DEF Typed, DeleteTopup, RowType
  <2> QED
    BY <1>6, <2>1 DEF Quiet, Typed, DeleteTopup
<1> QED
  BY <1>2, <1>3, <1>4, <1>5, <1>6 DEF TopupStep

\* A saldo call of a handler asks for a booking of its own call, of a reversal
\* only where the booking is in.
LEMMA CallsOfHandlers ==
  ASSUME Typed, NEW c \in Calls, Routed(c)
  PROVE  /\ DebitCard(c) => Rpc(c, First(c), "insert", "release")
         /\ CreditCard(c) => Rpc(c, First(c), "updateCard", "mark")
         /\ UndoInsert(c) \/ UndoSettle(c) => \E u \in Undos(c) : Rpc(c, u, "release", "release")
         /\ UndoTopup(c) => \E u \in Undos(c) : Rpc(c, u, "mark", "release")
<1>1. ASSUME DebitCard(c) PROVE Rpc(c, First(c), "insert", "release")
  <2>1. c \in Withdrawals
    BY <1>1 DEF DebitCard, Routed, WithdrawPlaces
  <2> QED
    BY <1>1, <2>1 DEF DebitCard, First
<1>2. ASSUME CreditCard(c) PROVE Rpc(c, First(c), "updateCard", "mark")
  <2>1. c \notin Withdrawals
    BY <1>2, RequestFacts DEF CreditCard, Routed, TopupPlaces
  <2> QED
    BY <1>2, <2>1 DEF CreditCard, First
<1>3. ASSUME UndoInsert(c) \/ UndoSettle(c)
      PROVE  \E u \in Undos(c) : Rpc(c, u, "release", "release")
  <2>1. c \in Withdrawals
    BY <1>3 DEF UndoInsert, UndoSettle, Routed, WithdrawPlaces
  <2> QED
    BY <1>3, <2>1 DEF UndoInsert, UndoSettle, Refund, Undos
<1>4. ASSUME UndoTopup(c) PROVE \E u \in Undos(c) : Rpc(c, u, "mark", "release")
  <2>1. c \notin Withdrawals
    BY <1>4, RequestFacts DEF UndoTopup, Routed, TopupPlaces
  <2> QED
    BY <1>4, <2>1 DEF UndoTopup, Undos
<1> QED
  BY <1>1, <1>2, <1>3, <1>4

\* Every step of a call keeps the types.
LEMMA OwnType ==
  ASSUME Typed, NEW c \in Calls, Routed(c), Step(c)
  PROVE  Typed'
<1>1. CASE Guarded(c) /\ UNCHANGED <<counted, marks>>
  BY <1>1, GuardedType
<1>2. ASSUME Quiet(c), LedgerType', pc' \in [Calls -> AllPlaces] PROVE Typed'
  BY <1>2 DEF Typed, Quiet
<1>3. UNCHANGED ledger => LedgerType'
  BY DEF Typed, ledger, LedgerType
<1>4. CASE WithdrawStep(c) /\ UNCHANGED marks
  <2>1. pc' \in [Calls -> AllPlaces]
    <3>1. \E place, places : places \in SUBSET AllPlaces /\ From(c, place, places)
      BY <1>4, WithdrawFlow, Zenon DEF WithdrawStep, AllPlaces, WithdrawPlaces
    <3> QED
      BY <3>1, FlowType
  <2>2. LedgerType'
    BY <1>3, <1>4, CallsOfHandlers, RpcType
    DEF WithdrawStep, CheckWithdraw, CheckLimit, InsertWithdraw, SettleWithdraw
  <2> QED
    BY <1>2, <1>4, <2>1, <2>2, WithdrawEffect
<1>5. CASE TopupStep(c) /\ UNCHANGED counted
  <2>1. pc' \in [Calls -> AllPlaces]
    <3>1. CASE UNCHANGED pc
      BY <3>1 DEF Typed
    <3>2. CASE \E place, places : places \in SUBSET AllPlaces /\ From(c, place, places)
      BY <3>2, FlowType
    <3> QED
      BY <1>5, <3>1, <3>2, TopupFlow, Zenon DEF TopupStep, AllPlaces, TopupPlaces
  <2>2. LedgerType'
    BY <1>3, <1>5, CallsOfHandlers, RpcType
    DEF TopupStep, CheckTopup, InsertTopup, UpdateCard, SettleTopup, LaunchMarker,
        RunMarker, DeleteTopup
  <2> QED
    BY <1>2, <1>5, <2>1, <2>2, TopupEffect
<1> QED
  BY <1>1, <1>4, <1>5 DEF Step

\* What happens to rows and keys without a handler.
Background == Admin \/ \E c \in Expiring : Expire(c)

\* The steps of Next.
LEMMA NextCases ==
  ASSUME [Next]_vars
  PROVE  \/ \E c \in Calls : Step(c)
         \/ \E e \in inflight : ArriveLate(e) /\ UNCHANGED <<counted, marks>>
         \/ Background /\ UNCHANGED <<counted, marks>>
         \/ UNCHANGED vars
BY DEF Next, CommonStep, Step, Background

\* An operator deletes rows, or a key expires; nothing else happens to anybody.
LEMMA BackgroundEffect ==
  ASSUME Typed, Background
  PROVE  /\ UNCHANGED <<request, pc, idem, outbox, ledger>>
         /\ trashed' \subseteq Calls /\ status' \in [Calls -> RowType]
         /\ \A d \in lapsed' \ lapsed : d \in Calls /\ pc[d] \in Resting \ {"idle"}
         /\ \A d \in Calls : status'[d] \in {status[d], "none"}
<1>1. CASE \E c \in Trashable : TrashRow(c)
  BY <1>1, TrashAssumption DEF Typed, TrashAssumption, TrashRow
<1>2. CASE \E S \in SUBSET trashed : RestoreRows(S)
  BY <1>2 DEF Typed, RestoreRows
<1>3. CASE \E S \in SUBSET trashed : DeleteRows(S)
  BY <1>3 DEF Typed, DeleteRows, RowType
<1>4. CASE \E c \in Expiring : Expire(c)
  BY <1>4, TrashAssumption DEF Typed, TrashAssumption, Expire
<1> QED
  BY <1>1, <1>2, <1>3, <1>4 DEF Admin, Background

\* So does every step of the system.
LEMMA NextType ==
  ASSUME Typed, \A c \in Calls : Routed(c), [Next]_vars PROVE Typed'
<1>1. ASSUME NEW c \in Calls, Step(c) PROVE Typed'
  BY <1>1, OwnType
<1>2. ASSUME NEW e \in inflight, ArriveLate(e), UNCHANGED <<counted, marks>> PROVE Typed'
  <2>1. LedgerType'
    BY <1>2, SaldoType DEF Typed, ArriveLate, LedgerType
  <2> QED
    BY <1>2, <2>1 DEF Typed, ArriveLate, Others
<1>3. CASE Background /\ UNCHANGED <<counted, marks>>
  BY <1>3, BackgroundEffect DEF Typed, ledger, LedgerType
<1>4. CASE UNCHANGED vars
  BY <1>4 DEF Typed, vars, command, ledger, LedgerType
<1> QED
  BY <1>1, <1>2, <1>3, <1>4, NextCases

-----------------------------------------------------------------------------
(***************************************************************************)
(* Handlers move forward, in their own service.                            *)
(***************************************************************************)

Forward(c) ==
  /\ pc[c] \notin Rowless => pc'[c] \notin Rowless
  /\ pc[c] \in Booked => pc'[c] \in Booked \cup Gone
  /\ pc[c] \in Gone => pc'[c] \in Gone
  /\ pc'[c] \in Unsent => pc[c] \in Unsent
  /\ pc'[c] \in {"complete", "ok"} => pc[c] \in {"enqueue", "complete", "ok"}
  /\ pc'[c] \in Owning => pc[c] \in Owning \cup {"idle", "claim"}

\* A step of a call moves its handler along the edges of the code, and no other.
LEMMA StepFlow ==
  ASSUME Typed, NEW c \in Calls, Step(c)
  PROVE  Forward(c) /\ pc' = [pc EXCEPT ![c] = pc'[c]]
<1> USE DEF Forward, From, Rowless, Unsent, Gone, Booked, Unchecked, Owning,
            AllPlaces, Resting, WithdrawPlaces, TopupPlaces
<1>1. CASE Guarded(c)
  BY <1>1, GuardedFlow DEF Guarded
<1>2. CASE WithdrawStep(c)
  BY <1>2, WithdrawFlow DEF WithdrawStep
<1>3. CASE TopupStep(c)
  <2>1. UNCHANGED pc => Forward(c) /\ pc' = [pc EXCEPT ![c] = pc'[c]]
    BY DEF Typed
  <2> QED
    BY <1>3, <2>1, TopupFlow DEF TopupStep
<1> QED
  BY <1>1, <1>2, <1>3 DEF Step

\* A step of c leaves the other calls where they are.
LEMMA StepIsLocal ==
  ASSUME Typed, NEW c \in Calls, Step(c)
  PROVE  /\ UNCHANGED request
         /\ \A d \in Calls \ {c} : /\ pc'[d] = pc[d] /\ status'[d] = status[d]
                                   /\ counted'[d] = counted[d] /\ (d \in marks' => d \in marks)
<1>1. \A d \in Calls \ {c} : pc'[d] = pc[d]
  BY StepFlow DEF Typed
<1>2. CASE Guarded(c) /\ UNCHANGED <<counted, marks>>
  BY <1>1, <1>2 DEF Guarded, Begin, Claim, Lookup, Enqueue, Complete, Release, Crash, Others
<1>3. CASE Quiet(c)
  BY <1>1, <1>3 DEF Typed, Quiet
<1> QED
  BY <1>2, <1>3, WithdrawEffect, TopupEffect DEF Step

\* A step of another call does not send a handler to the other service.
LEMMA RoutedFrame ==
  ASSUME NEW d \in Calls, Routed(d), UNCHANGED request, pc'[d] = pc[d],
         status'[d] # "none" => status[d] # "none"
  PROVE  Routed(d)'
<1>1. Withdrawals' = Withdrawals /\ Topups' = Topups /\ Body(d)' = Body(d)
  BY Fixed
<1> QED
  BY <1>1 DEF Routed

\* A handler stays within the code of its own service.
LEMMA RoutedOwn ==
  ASSUME Typed, NEW c \in Calls, Routed(c), Step(c)
  PROVE  Routed(c)'
<1>1. UNCHANGED request
  BY StepIsLocal
<1>2. Withdrawals' = Withdrawals /\ Topups' = Topups /\ Body(c)' = Body(c)
  BY <1>1, Fixed
<1> USE DEF From, Rowless, Unsent, Gone, Booked, Unchecked,
            AllPlaces, Resting, WithdrawPlaces, TopupPlaces
<1>3. CASE Guarded(c)
  <2>1. UNCHANGED status
    BY <1>3 DEF Guarded, Begin, Claim, Lookup, Enqueue, Complete, Release, Crash
  <2> QED
    BY <1>2, <1>3, <2>1, GuardedFlow DEF Routed, Guarded
<1>4. CASE WithdrawStep(c)
  <2>1. /\ CheckWithdraw(c) => c \in Withdrawals /\ UNCHANGED status
                               /\ (pc'[c] = "limit" => Body(c).amount > 0)
        /\ ~InsertWithdraw(c) /\ ~SettleWithdraw(c) => UNCHANGED status
        /\ SettleWithdraw(c) /\ status[c] = "none" => status'[c] = "none"
    BY <1>4 DEF WithdrawStep, CheckWithdraw, CheckLimit, DebitCard, SettleWithdraw, UndoInsert,
                UndoSettle, WriteStatus, Goto, Typed
  <2> QED
    BY <1>2, <1>4, <2>1, WithdrawFlow DEF Routed, WithdrawStep
<1>5. CASE TopupStep(c)
  <2>1. /\ CheckTopup(c) => c \in Topups /\ UNCHANGED status
                            /\ (pc'[c] = "insertTopup" => Body(c).amount > 0)
        /\ CreditCard(c) \/ UpdateCard(c) \/ UndoTopup(c) \/ LaunchMarker(c) => UNCHANGED status
        /\ SettleTopup(c) \/ RunMarker(c) \/ DeleteTopup(c) =>
             (status[c] = "none" => status'[c] = "none")
    BY <1>5 DEF TopupStep, CheckTopup, CreditCard, UpdateCard, UndoTopup, LaunchMarker,
                SettleTopup, RunMarker, DeleteTopup, WriteTopupStatus, Goto, Typed
  <2>2. InsertTopup(c) => From(c, "insertTopup", {"release", "credit"})
                          /\ (pc'[c] = "credit" => status'[c] = "pending")
    BY TopupFlow DEF InsertTopup, SetStatus, Goto, Typed
  <2> QED
    BY <1>2, <1>5, <2>1, <2>2, TopupFlow DEF Routed, TopupStep
<1> QED
  BY <1>3, <1>4, <1>5 DEF Step

\* Every handler stays within the code of its own service.
LEMMA RoutedNext ==
  ASSUME Typed, \A c \in Calls : Routed(c), [Next]_vars
  PROVE  \A d \in Calls : Routed(d)'
<1> SUFFICES ASSUME NEW d \in Calls PROVE Routed(d)'
  OBVIOUS
<1>1. ASSUME NEW c \in Calls, Step(c) PROVE Routed(d)'
  BY <1>1, RoutedOwn, RoutedFrame, StepIsLocal
<1>2. ASSUME NEW e \in inflight, ArriveLate(e) PROVE Routed(d)'
  BY <1>2, RoutedFrame DEF ArriveLate, Others
<1>3. CASE Background
  BY <1>3, BackgroundEffect, RoutedFrame
<1>4. CASE UNCHANGED vars
  BY <1>4, RoutedFrame DEF vars, command
<1> QED
  BY <1>1, <1>2, <1>3, <1>4, NextCases

-----------------------------------------------------------------------------
(***************************************************************************)
(* What is booked of a call, and what is under way.                        *)
(***************************************************************************)

\* What a saldo call of c for e does to the entries of c and to its place.
Asked(c, e, done, failed) ==
  \/ pc'[c] = done /\ Paid(c)' = Paid(c) \cup {e} /\ Pending(c)' = Pending(c)
  \/ /\ pc'[c] = failed /\ Paid(c)' = Paid(c)
     /\ Pending(c)' \in {Pending(c), Pending(c) \cup {e}}

\* A request changes what its own call has moved, and nothing of another call
\* that shares no operation id with it.
LEMMA RpcMoves ==
  ASSUME Typed, NEW c \in Calls, NEW e, e.op[1] = OpOwner(c), NEW done, NEW failed,
         Rpc(c, e, done, failed), UNCHANGED request
  PROVE  /\ Asked(c, e, done, failed)
         /\ \A d \in Calls \ {c} : Alone(d) => Paid(d)' = Paid(d) /\ Pending(d)' = Pending(d)
<1>1. \/ /\ pc'[c] = done /\ inflight' = inflight /\ booked' = booked \cup {e}
      \/ /\ pc'[c] = failed /\ booked' = booked
         /\ inflight' \in {inflight, inflight \cup {e}}
  <2>1. Succeeds(e) => booked' = booked \cup {e} /\ inflight' = inflight
    BY DEF Succeeds, Executes
  <2>2. Fails(e) => booked' = booked /\ inflight' \in {inflight, inflight \cup {e}}
    BY DEF Fails, ledger
  <2> QED
    BY <2>1, <2>2 DEF Rpc, Goto, Typed
<1>2. \A d : OpOwner(d)' = OpOwner(d)
  BY Fixed
<1>3. \A d, S : Entries(d, S \cup {e}) =
                  IF OpOwner(d) = OpOwner(c) THEN Entries(d, S) \cup {e} ELSE Entries(d, S)
  BY DEF Entries
<1>4. \A d : Paid(d)' = Entries(d, booked') /\ Pending(d)' = Entries(d, inflight')
  BY <1>2 DEF Paid, Pending, Entries
<1>5. \A d : Paid(d) = Entries(d, booked) /\ Pending(d) = Entries(d, inflight)
  BY DEF Paid, Pending
<1>6. Asked(c, e, done, failed)
  BY <1>1, <1>3, <1>4, <1>5 DEF Asked
<1>7. ASSUME NEW d \in Calls \ {c}, Alone(d)
      PROVE  Paid(d)' = Paid(d) /\ Pending(d)' = Pending(d)
  <2>1. OpOwner(d) # OpOwner(c)
    BY <1>7, OthersOperations
  <2> QED
    BY <1>1, <1>3, <1>4, <1>5, <2>1
<1> QED
  BY <1>6, <1>7

\* A call that asks for nothing keeps its entries.
LEMMA EntriesStay ==
  ASSUME UNCHANGED <<request, ledger>>
  PROVE  \A d : Paid(d)' = Paid(d) /\ Pending(d)' = Pending(d)
<1>1. \A d : OpOwner(d)' = OpOwner(d)
  BY Fixed
<1> QED
  BY <1>1 DEF ledger, Paid, Pending, Entries

\* Which actions ask the saldo service for something.
Asks(c) == \/ DebitCard(c) \/ UndoInsert(c) \/ UndoSettle(c)
           \/ CreditCard(c) \/ UndoTopup(c)

\* Only the steps that ask the saldo service for something change the ledger.
LEMMA OthersAskNothing ==
  ASSUME NEW c \in Calls, Step(c), ~Asks(c) PROVE UNCHANGED ledger
BY DEF Step, Asks, Guarded, Begin, Claim, Lookup, Enqueue, Complete, Release, Crash,
       WithdrawStep, CheckWithdraw, CheckLimit, InsertWithdraw, SettleWithdraw,
       TopupStep, CheckTopup, InsertTopup, UpdateCard, SettleTopup, LaunchMarker,
       RunMarker, DeleteTopup

\* A step of c moves no entry of another call that is alone.
LEMMA EntriesOfOthers ==
  ASSUME Typed, NEW c \in Calls, Routed(c), Step(c), NEW d \in Calls \ {c}, Alone(d)
  PROVE  Paid(d)' = Paid(d) /\ Pending(d)' = Pending(d)
<1>1. UNCHANGED request
  BY StepIsLocal
<1>2. CASE ~Asks(c)
  BY <1>1, <1>2, OthersAskNothing, EntriesStay
<1>3. CASE Asks(c)
  <2>1. \E e \in {First(c)} \cup Undos(c) : \E done, failed : Rpc(c, e, done, failed)
    BY <1>3, CallsOfHandlers DEF Asks
  <2>2. \A e \in {First(c)} \cup Undos(c) : e.op[1] = OpOwner(c)
    BY BookingFacts
  <2> QED
    BY <1>1, <2>1, <2>2, RpcMoves
<1> QED
  BY <1>2, <1>3

\* What a call has moved is right for its place, whatever the others do.
LEMMA PlacedFrame ==
  ASSUME NEW d \in Calls, Placed(d), UNCHANGED request, pc'[d] = pc[d],
         Paid(d)' = Paid(d), Pending(d)' = Pending(d)
  PROVE  Placed(d)'
<1>1. First(d)' = First(d) /\ Undos(d)' = Undos(d) /\ Body(d)' = Body(d)
  BY Fixed
<1> QED
  BY <1>1 DEF Placed

\* Each step of a call leaves it with the money moved that its next place expects.
LEMMA PlacedOwn ==
  ASSUME Typed, NEW c \in Calls, Routed(c), Placed(c), Step(c)
  PROVE  Placed(c)'
<1>1. UNCHANGED request
  BY StepIsLocal
<1>2. First(c)' = First(c) /\ Undos(c)' = Undos(c) /\ Body(c)' = Body(c)
  BY <1>1, Fixed
<1>3. /\ First(c).op[1] = OpOwner(c) /\ Undos(c) # {}
      /\ \A u \in Undos(c) : u.op[1] = OpOwner(c) /\ u # First(c)
  BY BookingFacts
<1>4. ASSUME Paid(c)' = Paid(c), Pending(c)' = Pending(c),
             /\ pc[c] \in Unsent => pc'[c] \in Unsent \cup Gone
             /\ pc[c] \in Booked => pc'[c] \in Booked \cup Gone
             /\ pc[c] \in Gone => pc'[c] \in Gone
      PROVE  Placed(c)'
  <2>1. pc[c] \in AllPlaces /\ Unsent \cap Gone = {} /\ Booked = AllPlaces \ (Unsent \cup Gone)
    BY DEF Typed, Unsent, Unchecked, Gone, Booked
  <2> HIDE DEF Unsent, Gone, Booked
  <2>2. PICK u \in Undos(c) : pc[c] \in Gone =>
          /\ Paid(c) \cup Pending(c) \subseteq {First(c), u}
          /\ u \in Paid(c) \cup Pending(c) => First(c) \in Paid(c)
    BY <1>3 DEF Placed
  <2>3. pc[c] \in Unsent => Paid(c) = {} /\ Pending(c) = {}
    BY DEF Placed
  <2>4. pc[c] \in Booked => Paid(c) = {First(c)} /\ Pending(c) = {}
    BY DEF Placed
  <2>5. /\ Paid(c) \cup Pending(c) \subseteq {First(c), u}
        /\ u \in Paid(c) \cup Pending(c) => First(c) \in Paid(c)
    BY <2>1, <2>2, <2>3, <2>4
  <2>6. pc'[c] \in Unsent => Paid(c) = {} /\ Pending(c) = {}
    BY <1>4, <2>1, <2>3
  <2>7. pc'[c] \in Booked => Paid(c) = {First(c)} /\ Pending(c) = {}
    BY <1>4, <2>1, <2>4
  <2> QED
    BY <1>2, <1>4, <2>5, <2>6, <2>7 DEF Placed
<1>5. CASE ~Asks(c)
  <2>1. Paid(c)' = Paid(c) /\ Pending(c)' = Pending(c)
    BY <1>1, <1>5, OthersAskNothing, EntriesStay
  <2>2. pc[c] \in Unsent => pc'[c] \in Unsent \cup Gone
    <3> USE DEF From, Unsent, Gone, Unchecked
    <3>1. CASE Guarded(c)
      BY <3>1, GuardedFlow DEF Guarded, Resting
    <3>2. CASE WithdrawStep(c)
      BY <1>5, <3>2, WithdrawFlow DEF WithdrawStep, Asks
    <3>3. CASE TopupStep(c)
      BY <1>5, <3>3, TopupFlow DEF TopupStep, Asks
    <3> QED
      BY <3>1, <3>2, <3>3 DEF Step
  <2> QED
    BY <1>4, <2>1, <2>2, StepFlow DEF Forward
<1>6. ASSUME pc[c] \in Unsent \ Unchecked, NEW done \in Booked,
             NEW failed \in Gone, Asked(c, First(c), done, failed), Body(c).amount > 0
      PROVE  Placed(c)'
  <2>1. Paid(c) = {} /\ Pending(c) = {} /\ Unsent \cap Gone = {} /\ Booked \cap (Unsent \cup Gone) = {}
    BY <1>6 DEF Placed, Booked, Unsent, Unchecked, Gone
  <2> HIDE DEF Unsent, Booked, Gone
  <2>2. \A u \in Undos(c) : u # First(c)
    BY <1>3
  <2> QED
    BY <1>2, <1>3, <1>6, <2>1, <2>2 DEF Asked, Placed
<1>7. ASSUME pc[c] \in Booked, NEW u \in Undos(c), NEW done \in Gone,
             NEW failed \in Gone, Asked(c, u, done, failed)
      PROVE  Placed(c)'
  <2>1. Paid(c) = {First(c)} /\ Pending(c) = {} /\ Booked \cap (Unsent \cup Gone) = {}
        /\ Unsent \cap Gone = {}
    BY <1>7 DEF Placed, Booked, Unsent, Unchecked, Gone
  <2> HIDE DEF Unsent, Booked, Gone
  <2>2. /\ Paid(c)' \cup Pending(c)' \subseteq {First(c), u}
        /\ First(c) \in Paid(c)' /\ pc'[c] \in Gone
    BY <1>7, <2>1 DEF Asked
  <2>3. Body(c).amount > 0
    BY <2>1 DEF Placed
  <2> QED
    BY <1>2, <2>1, <2>2, <2>3 DEF Placed
<1>8. CASE DebitCard(c) \/ CreditCard(c)
  <2>1. pc[c] \in {"debit", "credit"}
    BY <1>8 DEF DebitCard, CreditCard
  <2>2. Body(c).amount > 0 /\ pc[c] \in Unsent \ Unchecked
    BY <2>1 DEF Routed, Unchecked, Gone, Unsent
  <2>3. Asked(c, First(c), "insert", "release") \/ Asked(c, First(c), "updateCard", "mark")
    BY <1>1, <1>3, <1>8, CallsOfHandlers, RpcMoves
  <2>4. {"insert", "updateCard"} \subseteq Booked /\ {"release", "mark"} \subseteq Gone
    BY DEF Booked, Gone, Unsent, Unchecked, AllPlaces, WithdrawPlaces, TopupPlaces
  <2> HIDE DEF Booked, Gone, Unsent, Unchecked
  <2> QED
    BY <1>6, <2>2, <2>3, <2>4
<1>9. CASE UndoInsert(c) \/ UndoSettle(c) \/ UndoTopup(c)
  <2>1. pc[c] \in Booked
    BY <1>9 DEF UndoInsert, UndoSettle, UndoTopup, Booked, Gone, Unsent, Unchecked, AllPlaces,
                WithdrawPlaces, TopupPlaces
  <2>2. \E u \in Undos(c) : Asked(c, u, "release", "release") \/ Asked(c, u, "mark", "release")
    BY <1>1, <1>3, <1>9, CallsOfHandlers, RpcMoves
  <2>3. {"release", "mark"} \subseteq Gone
    BY DEF Gone
  <2> HIDE DEF Booked, Gone
  <2> QED
    BY <1>7, <2>1, <2>2, <2>3
<1> QED
  BY <1>5, <1>8, <1>9 DEF Asks

\* A late request is booked or dropped; only a call that has given up has one.
LEMMA PlacedLate ==
  ASSUME Typed, NEW e \in inflight, ArriveLate(e), NEW d \in Calls, Placed(d)
  PROVE  /\ Placed(d)'
         /\ Paid(d) \cup Pending(d) = Paid(d) => Paid(d)' = Paid(d)
         /\ Pending(d)' \subseteq Pending(d)
<1>1. /\ UNCHANGED <<request, pc>> /\ booked \subseteq booked' /\ booked' \subseteq booked \cup inflight
      /\ inflight' \subseteq inflight
  BY DEF ArriveLate, Others, Arrive, Executes
<1>2. OpOwner(d)' = OpOwner(d) /\ First(d)' = First(d) /\ Undos(d)' = Undos(d) /\ Body(d)' = Body(d)
  BY <1>1, Fixed
<1>3. /\ Paid(d) \subseteq Paid(d)' /\ Paid(d)' \subseteq Paid(d) \cup Pending(d)
      /\ Pending(d)' \subseteq Pending(d)
  BY <1>1, <1>2 DEF Paid, Pending, Entries
<1>4. Placed(d)'
  <2> HIDE DEF Unsent, Booked, Gone
  <2>1. pc'[d] = pc[d]
    BY <1>1
  <2>2. pc[d] \in Gone => \E u \in Undos(d) :
          /\ Paid(d)' \cup Pending(d)' \subseteq {First(d), u}
          /\ u \in Paid(d)' \cup Pending(d)' => First(d) \in Paid(d)'
    <3> SUFFICES ASSUME pc[d] \in Gone
                 PROVE  \E u \in Undos(d) :
                          /\ Paid(d)' \cup Pending(d)' \subseteq {First(d), u}
                          /\ u \in Paid(d)' \cup Pending(d)' => First(d) \in Paid(d)'
      OBVIOUS
    <3>1. PICK u \in Undos(d) : /\ Paid(d) \cup Pending(d) \subseteq {First(d), u}
                                /\ u \in Paid(d) \cup Pending(d) => First(d) \in Paid(d)
      BY DEF Placed
    <3> QED
      BY <1>3, <3>1
  <2>3. pc[d] \in Unsent => Paid(d)' = {} /\ Pending(d)' = {}
    BY <1>3 DEF Placed
  <2>4. pc[d] \in Booked => Paid(d)' = {First(d)} /\ Pending(d)' = {}
    BY <1>3 DEF Placed
  <2>5. Paid(d)' \cup Pending(d)' # {} => Body(d).amount > 0
    BY <1>3 DEF Placed
  <2> QED
    BY <1>2, <2>1, <2>2, <2>3, <2>4, <2>5 DEF Placed
<1> QED
  BY <1>3, <1>4

-----------------------------------------------------------------------------
(***************************************************************************)
(* Who holds a key, and what is announced.                                 *)
(***************************************************************************)

\* Records change hands only by a claim of an expired one, and are changed only by
\* their holder.
LEMMA RecordsOfOthers ==
  ASSUME Typed, NEW c \in Calls, Owned(c), Step(c), NEW d \in Calls \ {c}
  PROVE  /\ Key(d) # NoKey /\ Holds(d) => Holds(d)' \/ d \in lapsed
         /\ Stored(d)' => Stored(d)
<1>1. UNCHANGED request /\ Key(d)' = Key(d) /\ Key(c)' = Key(c)
  BY StepIsLocal, Fixed
<1>2. CASE UNCHANGED idem
  BY <1>1, <1>2 DEF Holds, Stored
<1>3. CASE Claim(c) /\ ClaimKey(c, Key(c), Body(c))
  <2>1. Holds(d) => Holds(d)' \/ d \in lapsed
    BY <1>1, <1>3 DEF Typed, ClaimKey, Free, Holds
  <2>2. Stored(d)' => Stored(d)
    BY <1>3 DEF Typed, ClaimKey, Stored
  <2> QED
    BY <2>1, <2>2
<1>4. CASE Complete(c) /\ CompleteKey(Key(c), Body(c))
  <2>1. Key(c) = NoKey \/ Holds(c)
    BY <1>4 DEF Complete, Owned, Owning
  <2>2. \A r \in Records : /\ [r EXCEPT !.status = "success"] \in Records
                           /\ [r EXCEPT !.status = "success"].owner = r.owner
    BY DEF Records
  <2>3. NoRecord \notin Records
    BY RecordAssumption DEF RecordAssumption, Records
  <2>4. CASE idem' = idem
    BY <1>1, <2>4 DEF Holds, Stored
  <2>5. CASE /\ Key(c) \in Keys /\ idem[Key(c)] # NoRecord
             /\ idem' = [idem EXCEPT ![Key(c)] = [@ EXCEPT !.status = "success"]]
    <3>1. Holds(d) => Holds(d)'
      BY <1>1, <2>2, <2>3, <2>5 DEF Typed, Holds
    <3>2. Holds(c)
      BY <2>1, <2>5, KeyAssumption DEF KeyAssumption
    <3>3. Stored(d)' => Stored(d)
      <4> SUFFICES ASSUME NEW k \in Keys, idem'[k] # NoRecord, idem'[k].status = "success",
                          idem'[k].owner = d
                   PROVE  Stored(d)
        BY DEF Stored
      <4>1. k # Key(c)
        BY <2>2, <2>5, <3>2 DEF Typed, Holds
      <4> QED
        BY <2>5, <4>1 DEF Typed, Stored
    <3> QED
      BY <3>1, <3>3
  <2> QED
    BY <1>4, <2>4, <2>5 DEF CompleteKey
<1>5. CASE Release(c) /\ ReleaseKey(Key(c), Body(c))
  <2>1. Key(c) = NoKey \/ Holds(c)
    BY <1>5 DEF Release, Owned, Owning
  <2>2. Stored(d)' => Stored(d)
    BY <1>5 DEF Typed, ReleaseKey, Stored
  <2>3. Key(d) # NoKey /\ Holds(d) => Holds(d)'
    BY <1>1, <1>5, <2>1, RequestFacts, KeyAssumption DEF KeyAssumption, Typed, ReleaseKey, Holds
  <2> QED
    BY <2>2, <2>3
<1> QED
  BY <1>2, <1>3, <1>4, <1>5, WithdrawEffect, TopupEffect
  DEF Step, Quiet, Guarded, Begin, Claim, Lookup, Enqueue, Complete, Release, Crash, Others

\* A call that runs under a key holds the claim on it.
LEMMA OwnedOwn ==
  ASSUME Typed, NEW c \in Calls, Owned(c), Step(c)
  PROVE  Owned(c)'
<1>1. UNCHANGED request /\ Key(c)' = Key(c)
  BY StepIsLocal, Fixed
<1>a. c \in lapsed' => pc'[c] \in Resting \ {"idle"}
  <2>1. lapsed' = lapsed
    BY WithdrawEffect, TopupEffect
    DEF Step, Quiet, Guarded, Begin, Claim, Lookup, Enqueue, Complete, Release, Crash, Others
  <2>2. pc[c] \in Resting \ {"idle"} => pc'[c] = pc[c]
    <3> USE DEF From, Resting
    <3>1. CASE Guarded(c)
      BY <3>1, GuardedFlow DEF Guarded
    <3>2. CASE WithdrawStep(c)
      BY <3>2, WithdrawFlow DEF WithdrawStep
    <3>3. CASE TopupStep(c)
      BY <3>3, TopupFlow DEF TopupStep
    <3> QED
      BY <3>1, <3>2, <3>3 DEF Step
  <2> QED
    BY <2>1, <2>2 DEF Owned
<1>2. CASE UNCHANGED idem /\ ~Claim(c)
  <2>1. Holds(c)' <=> Holds(c)
    BY <1>1, <1>2 DEF Holds
  <2>2. /\ pc'[c] \in {"claim", "lookup"} => Key(c) # NoKey
        /\ pc'[c] \in Owning => pc[c] \in Owning \/ Key(c) = NoKey
    <3> USE DEF From, Owning, WithdrawPlaces, TopupPlaces
    <3>1. CASE Begin(c)
      BY <3>1 DEF Typed, Begin, Goto
    <3>2. CASE Guarded(c) /\ ~Begin(c)
      BY <1>2, <3>2, GuardedFlow DEF Guarded
    <3>3. CASE WithdrawStep(c)
      BY <3>3, WithdrawFlow DEF WithdrawStep
    <3>4. CASE TopupStep(c)
      BY <3>4, TopupFlow DEF TopupStep, Owned
    <3> QED
      BY <3>1, <3>2, <3>3, <3>4 DEF Step
  <2> QED
    BY <1>1, <1>a, <2>1, <2>2 DEF Owned
<1>3. CASE Claim(c)
  <2>1. Key(c) \in Keys /\ From(c, "claim", {"lookup", "check"})
    BY <1>3, GuardedFlow, RequestFacts DEF Owned, Claim
  <2>2. CASE ClaimKey(c, Key(c), Body(c))
    <3>1. [owner |-> c, hash |-> Body(c), status |-> "processing"] # NoRecord
      BY RequestFacts, RecordAssumption DEF RecordAssumption
    <3>2. Holds(c)'
      BY <1>1, <2>1, <2>2, <3>1 DEF Typed, ClaimKey, Holds
    <3> QED
      BY <1>1, <1>a, <2>1, <3>2, KeyAssumption DEF KeyAssumption, Owned
  <2>3. CASE Goto(c, "lookup")
    <3>1. pc'[c] = "lookup"
      BY <2>3 DEF Typed, Goto
    <3> QED
      BY <1>1, <1>a, <2>1, <3>1, KeyAssumption
      DEF KeyAssumption, Owned, Owning, WithdrawPlaces, TopupPlaces
  <2> QED
    BY <1>3, <2>2, <2>3 DEF Claim
<1>4. CASE Complete(c) \/ Release(c)
  <2>1. pc'[c] \in {"ok", "error"}
    BY <1>4, GuardedFlow DEF From
  <2> QED
    BY <1>a, <2>1 DEF Owned, Owning, WithdrawPlaces, TopupPlaces
<1> QED
  BY <1>2, <1>3, <1>4, WithdrawEffect, TopupEffect
  DEF Step, Quiet, Guarded, Begin, Lookup, Enqueue, Crash, Others

\* No step takes the claim from a call that runs under it.
LEMMA OwnedNext ==
  ASSUME Inv, [Next]_vars PROVE \A d \in Calls : Owned(d)'
<1> SUFFICES ASSUME NEW d \in Calls PROVE Owned(d)'
  OBVIOUS
<1>1. Typed /\ \A c \in Calls : Owned(c)
  BY DEF Inv
<1>2. ASSUME UNCHANGED <<request, idem, pc>>,
             d \in lapsed' => d \in lapsed \/ pc[d] \in Resting \ {"idle"}
      PROVE  Owned(d)'
  <2>1. Key(d)' = Key(d)
    BY <1>2, Fixed
  <2> QED
    BY <1>1, <1>2, <2>1 DEF Owned, Holds
<1>3. ASSUME NEW c \in Calls, Step(c), d # c PROVE Owned(d)'
  <2>1. Key(d)' = Key(d) /\ pc'[d] = pc[d]
    BY <1>1, <1>3, StepIsLocal, Fixed
  <2>2. lapsed' = lapsed
    BY <1>1, <1>3, WithdrawEffect, TopupEffect
    DEF Step, Quiet, Guarded, Begin, Claim, Lookup, Enqueue, Complete, Release, Crash, Others
  <2>3. pc[d] \in Owning => d \notin lapsed
    BY <1>1 DEF Owned, Owning, Resting, WithdrawPlaces, TopupPlaces
  <2>4. Key(d) # NoKey /\ Holds(d) => Holds(d)' \/ d \in lapsed
    BY <1>1, <1>3, RecordsOfOthers
  <2> QED
    BY <1>1, <2>1, <2>2, <2>3, <2>4 DEF Owned
<1>4. ASSUME NEW e \in inflight, ArriveLate(e) PROVE Owned(d)'
  BY <1>2, <1>4 DEF ArriveLate, Others
<1>5. CASE Background
  BY <1>1, <1>2, <1>5, BackgroundEffect
<1>6. CASE UNCHANGED vars
  BY <1>2, <1>6 DEF vars, command
<1> QED
  BY <1>1, <1>3, <1>4, <1>5, <1>6, OwnedOwn, NextCases

\* An event is written by the handler of its call.
LEMMA EmittedOwn ==
  ASSUME NEW c \in Calls, Step(c), Typed
  PROVE  /\ Emitted(c)' => Emitted(c) \/ Enqueue(c)
         /\ \A d \in Calls \ {c} : Emitted(d)' => Emitted(d)
<1>1. CASE Enqueue(c)
  BY <1>1 DEF Enqueue, Emitted
<1>2. CASE UNCHANGED outbox
  BY <1>2 DEF Emitted
<1> QED
  BY <1>1, <1>2, WithdrawEffect, TopupEffect
  DEF Step, Quiet, Guarded, Begin, Claim, Lookup, Complete, Release, Crash, Others

\* What is final is no longer touched.
LEMMA AnnouncedFrame ==
  ASSUME NEW d \in Calls, Announced(d), UNCHANGED request, pc'[d] = pc[d],
         Emitted(d)' => Emitted(d), Stored(d)' => Stored(d),
         Alone(d) /\ Pending(d) = {} => Paid(d)' = Paid(d) /\ Pending(d)' = {}
  PROVE  Announced(d)'
<1>1. First(d)' = First(d) /\ (Alone(d)' <=> Alone(d))
  BY Fixed
<1> QED
  BY <1>1 DEF Announced

\* What a call announces, an event or a stored answer, is final.
LEMMA AnnouncedOwn ==
  ASSUME Typed, NEW c \in Calls, Routed(c), Announced(c), Owned(c), Alone(c) => Placed(c), Step(c)
  PROVE  Announced(c)'
<1>1. UNCHANGED request /\ First(c)' = First(c) /\ (Alone(c)' <=> Alone(c)) /\ Key(c)' = Key(c)
  BY StepIsLocal, Fixed
<1>2. Emitted(c)' => /\ pc'[c] \in {"complete", "ok", "crashed"}
                     /\ Alone(c) => Paid(c)' = {First(c)} /\ Pending(c)' = {}
  <2> SUFFICES ASSUME Emitted(c)'
               PROVE  /\ pc'[c] \in {"complete", "ok", "crashed"}
                      /\ Alone(c) => Paid(c)' = {First(c)} /\ Pending(c)' = {}
    OBVIOUS
  <2>1. pc[c] \in {"enqueue", "complete", "ok", "crashed"}
        /\ (Alone(c) => Paid(c) = {First(c)} /\ Pending(c) = {})
        /\ pc'[c] \in {"complete", "ok", "crashed"}
    <3>1. CASE Enqueue(c)
      <4>1. pc[c] = "enqueue" /\ pc'[c] = "complete"
        BY <3>1, GuardedFlow DEF From
      <4>2. "enqueue" \in Booked
        BY DEF Booked, AllPlaces, Unsent, Unchecked, Gone
      <4> QED
        BY <4>1, <4>2 DEF Placed
    <3>2. CASE Emitted(c)
      <4>1. pc[c] \in {"complete", "ok", "crashed"}
            /\ (Alone(c) => Paid(c) = {First(c)} /\ Pending(c) = {})
        BY <3>2 DEF Announced
      <4>2. pc'[c] \in {"complete", "ok", "crashed"}
        <5> USE DEF From
        <5>1. CASE Guarded(c)
          BY <4>1, <5>1, GuardedFlow DEF Guarded
        <5>2. CASE WithdrawStep(c)
          BY <4>1, <5>2, WithdrawFlow DEF WithdrawStep
        <5>3. CASE TopupStep(c)
          BY <4>1, <5>3, TopupFlow DEF TopupStep
        <5> QED
          BY <5>1, <5>2, <5>3 DEF Step
      <4> QED
        BY <4>1, <4>2
    <3> QED
      BY <3>1, <3>2, EmittedOwn
  <2>2. ~Asks(c)
    BY <2>1 DEF Asks, DebitCard, UndoInsert, UndoSettle, CreditCard, UndoTopup
  <2> QED
    BY <1>1, <2>1, <2>2, OthersAskNothing, EntriesStay
<1>3. Stored(c)' => pc'[c] = "ok"
  <2>1. CASE Complete(c)
    BY <2>1, GuardedFlow DEF From
  <2>2. CASE ~Complete(c)
    <3>1. Stored(c)' => Stored(c)
      <4>1. CASE UNCHANGED idem
        BY <4>1 DEF Stored
      <4>2. CASE Claim(c) /\ ClaimKey(c, Key(c), Body(c))
        BY <4>2 DEF Typed, ClaimKey, Stored
      <4>3. CASE Release(c) /\ ReleaseKey(Key(c), Body(c))
        BY <4>3 DEF Typed, ReleaseKey, Stored
      <4> QED
        BY <2>2, <4>1, <4>2, <4>3, WithdrawEffect, TopupEffect
        DEF Step, Quiet, Guarded, Begin, Claim, Lookup, Enqueue, Release, Crash, Others
    <3>2. pc[c] = "ok" => pc'[c] = "ok"
      <4> USE DEF From
      <4>1. CASE Guarded(c)
        BY <4>1, GuardedFlow DEF Guarded, Resting
      <4>2. CASE WithdrawStep(c)
        BY <4>2, WithdrawFlow DEF WithdrawStep
      <4>3. CASE TopupStep(c)
        BY <4>3, TopupFlow DEF TopupStep
      <4> QED
        BY <4>1, <4>2, <4>3 DEF Step
    <3> QED
      BY <3>1, <3>2 DEF Announced
  <2> QED
    BY <2>1, <2>2
<1> QED
  BY <1>1, <1>2, <1>3 DEF Announced

\* What is booked of a call that is alone, and what is announced of any call,
\* stays as the invariant says.
LEMMA PlacedNext ==
  ASSUME Inv, [Next]_vars
  PROVE  \A d \in Calls : Announced(d)' /\ (Alone(d)' => Placed(d)')
<1> SUFFICES ASSUME NEW d \in Calls PROVE Announced(d)' /\ (Alone(d)' => Placed(d)')
  OBVIOUS
<1>1. /\ Typed /\ \A c \in Calls : Routed(c) /\ Announced(c) /\ Owned(c) /\ (Alone(c) => Placed(c))
  BY DEF Inv
<1>2. UNCHANGED request => (Alone(d)' <=> Alone(d))
  BY Fixed
<1>3. ASSUME NEW c \in Calls, Step(c), d # c PROVE Announced(d)' /\ (Alone(d)' => Placed(d)')
  <2>1. UNCHANGED request /\ pc'[d] = pc[d]
    BY <1>1, <1>3, StepIsLocal
  <2>2. (Emitted(d)' => Emitted(d)) /\ (Stored(d)' => Stored(d))
    BY <1>1, <1>3, EmittedOwn, RecordsOfOthers
  <2>3. Alone(d) => Paid(d)' = Paid(d) /\ Pending(d)' = Pending(d)
    BY <1>1, <1>3, EntriesOfOthers
  <2> QED
    BY <1>1, <1>2, <2>1, <2>2, <2>3, AnnouncedFrame, PlacedFrame
<1>4. ASSUME NEW c \in Calls, Step(c), d = c PROVE Announced(d)' /\ (Alone(d)' => Placed(d)')
  <2>1. UNCHANGED request
    BY <1>1, <1>4, StepIsLocal
  <2> QED
    BY <1>1, <1>2, <1>4, <2>1, AnnouncedOwn, PlacedOwn
<1>5. ASSUME NEW e \in inflight, ArriveLate(e) PROVE Announced(d)' /\ (Alone(d)' => Placed(d)')
  <2>1. UNCHANGED <<request, pc, idem, outbox>>
    BY <1>5 DEF ArriveLate, Others
  <2>2. (Emitted(d)' => Emitted(d)) /\ (Stored(d)' => Stored(d))
    BY <2>1 DEF Emitted, Stored
  <2>3. Alone(d) => /\ Placed(d)'
                    /\ Pending(d) = {} => Paid(d)' = Paid(d) /\ Pending(d)' = {}
    BY <1>1, <1>5, PlacedLate
  <2> QED
    BY <1>1, <1>2, <2>1, <2>2, <2>3, AnnouncedFrame
<1>6. ASSUME UNCHANGED <<request, pc, idem, outbox, ledger>>
      PROVE  Announced(d)' /\ (Alone(d)' => Placed(d)')
  <2>1. (Emitted(d)' => Emitted(d)) /\ (Stored(d)' => Stored(d))
    BY <1>6 DEF Emitted, Stored
  <2>2. Paid(d)' = Paid(d) /\ Pending(d)' = Pending(d)
    BY <1>6, EntriesStay
  <2> QED
    BY <1>1, <1>2, <1>6, <2>1, <2>2, AnnouncedFrame, PlacedFrame
<1>7. CASE Background
  BY <1>1, <1>6, <1>7, BackgroundEffect
<1>8. CASE UNCHANGED vars
  BY <1>6, <1>8 DEF vars, command
<1> QED
  BY <1>3, <1>4, <1>5, <1>7, <1>8, NextCases

-----------------------------------------------------------------------------
(***************************************************************************)
(* Rows marked failed.                                                     *)
(***************************************************************************)

\* The row of c is marked failed, or will be.
Failing(c) == pc[c] = "mark" \/ c \in marks \/ status[c] = "failed"

\* A top-up whose row is marked failed, or is about to be, has no refund under way.
LEMMA MarkedOwn ==
  ASSUME Typed, NEW c \in Topups, Routed(c), Placed(c), Marked(c), Step(c)
  PROVE  Marked(c)'
<1>1. UNCHANGED request /\ First(c)' = First(c) /\ Undos(c)' = Undos(c) /\ c \in Calls
  BY StepIsLocal, Fixed DEF Topups
<1>2. CASE Failing(c)
  <2>1. pc[c] \in Gone /\ pc'[c] \in Gone /\ Pending(c) \cap Undos(c) = {}
    BY <1>1, <1>2, StepFlow DEF Marked, Failing, Forward
  <2>2. ~Asks(c)
    BY <2>1 DEF Gone, Asks, DebitCard, UndoInsert, UndoSettle, CreditCard, UndoTopup
  <2>3. Pending(c)' = Pending(c)
    BY <1>1, <2>2, OthersAskNothing, EntriesStay
  <2> QED
    BY <1>1, <2>1, <2>3 DEF Marked
<1>3. CASE ~Failing(c)
  <2>1. c \notin marks'
    BY <1>3 DEF Failing, Step, WithdrawStep, TopupStep, LaunchMarker, RunMarker, CheckTopup,
                InsertTopup, CreditCard, UpdateCard, SettleTopup, UndoTopup, DeleteTopup
  <2>2. status'[c] # "failed"
    <3>1. CASE Guarded(c)
      BY <1>3, <3>1 DEF Failing, Guarded, Begin, Claim, Lookup, Enqueue, Complete, Release, Crash
    <3>2. CASE WithdrawStep(c)
      BY <1>1, <1>3, <3>2 DEF Typed, Failing, WithdrawStep, CheckWithdraw, CheckLimit, DebitCard,
         InsertWithdraw, SettleWithdraw, UndoInsert, UndoSettle, WriteStatus, SetStatus
    <3>3. CASE TopupStep(c)
      BY <1>1, <1>3, <3>3 DEF Typed, Failing, TopupStep, CheckTopup, InsertTopup, CreditCard,
         UpdateCard, SettleTopup, UndoTopup, LaunchMarker, RunMarker, DeleteTopup,
         WriteTopupStatus, SetStatus
    <3> QED
      BY <3>1, <3>2, <3>3 DEF Step
  <2>3. pc'[c] = "mark" => CreditCard(c) \/ UndoTopup(c)
    <3> USE DEF From
    <3>1. CASE Guarded(c)
      BY <1>1, <3>1, GuardedFlow DEF Guarded
    <3>2. CASE WithdrawStep(c)
      BY <1>1, <3>2, WithdrawFlow DEF WithdrawStep
    <3>3. CASE TopupStep(c)
      BY <1>1, <1>3, <3>3, TopupFlow DEF TopupStep, Failing
    <3> QED
      BY <3>1, <3>2, <3>3 DEF Step
  <2>4. ASSUME pc'[c] = "mark" PROVE Pending(c)' \cap Undos(c) = {}
    <3>1. /\ First(c).op[1] = OpOwner(c) /\ First(c) \notin Undos(c)
          /\ \A u \in Undos(c) : u.op[1] = OpOwner(c)
      BY <1>1, BookingFacts
    <3>2. CASE CreditCard(c)
      <4>1. Asked(c, First(c), "updateCard", "mark")
        BY <1>1, <3>1, <3>2, CallsOfHandlers, RpcMoves
      <4>2. pc[c] \in Unsent
        BY <3>2 DEF CreditCard, Unsent
      <4>3. Pending(c) = {}
        BY <4>2 DEF Placed
      <4> QED
        BY <3>1, <4>1, <4>3 DEF Asked
    <3>3. CASE UndoTopup(c)
      <4>1. \E u \in Undos(c) : Asked(c, u, "mark", "release")
        BY <1>1, <3>1, <3>3, CallsOfHandlers, RpcMoves
      <4>2. pc[c] \in Booked
        BY <3>3 DEF UndoTopup, Booked, AllPlaces, TopupPlaces, Unsent, Unchecked, Gone
      <4>3. Pending(c) = {}
        BY <4>2 DEF Placed
      <4> QED
        BY <2>4, <4>1, <4>3 DEF Asked
    <3> QED
      BY <2>3, <2>4, <3>2, <3>3
  <2> QED
    BY <1>1, <2>1, <2>2, <2>4 DEF Marked, Gone
<1> QED
  BY <1>2, <1>3

\* No step of another call or of a background marker breaks this.
LEMMA MarkedNext ==
  ASSUME Inv, [Next]_vars
  PROVE  \A d \in Calls : d \in Withdrawals' \/ Marked(d)'
<1> SUFFICES ASSUME NEW d \in Calls, d \notin Withdrawals' PROVE Marked(d)'
  OBVIOUS
<1>1. Typed /\ \A c \in Calls : Routed(c) /\ Owned(c) /\ (Alone(c) => Placed(c))
  BY DEF Inv
<1>2. UNCHANGED request
  BY <1>1, StepIsLocal, NextCases, BackgroundEffect DEF ArriveLate, Others, vars, command
<1>3. d \in Topups /\ d \notin Withdrawals
  BY <1>1, <1>2, Fixed, RequestFacts
<1>4. Marked(d) /\ Alone(d) /\ Placed(d) /\ Undos(d)' = Undos(d)
  BY <1>1, <1>2, <1>3, Fixed DEF Inv, Alone
<1>5. ASSUME pc'[d] = pc[d], d \in marks' => d \in marks, status'[d] \in {status[d], "none"},
             Pending(d)' \subseteq Pending(d)
      PROVE  Marked(d)'
  BY <1>4, <1>5 DEF Marked
<1>6. ASSUME NEW c \in Calls, Step(c) PROVE Marked(d)'
  <2>1. CASE c = d
    BY <1>1, <1>3, <1>4, <1>6, <2>1, MarkedOwn
  <2>2. CASE c # d
    BY <1>1, <1>4, <1>5, <1>6, <2>2, StepIsLocal, EntriesOfOthers
  <2> QED
    BY <2>1, <2>2
<1>7. ASSUME NEW e \in inflight, ArriveLate(e), UNCHANGED marks PROVE Marked(d)'
  BY <1>1, <1>4, <1>5, <1>7, PlacedLate DEF ArriveLate, Others
<1>8. CASE Background /\ UNCHANGED marks
  BY <1>1, <1>2, <1>5, <1>8, BackgroundEffect, EntriesStay
<1>9. CASE UNCHANGED vars
  <2>1. UNCHANGED <<request, ledger>> /\ pc' = pc /\ status' = status /\ marks' = marks
    BY <1>9 DEF vars, command
  <2> QED
    BY <1>5, <2>1, EntriesStay
<1> QED
  BY <1>6, <1>7, <1>8, <1>9, NextCases

-----------------------------------------------------------------------------
(***************************************************************************)
(* The daily limit.                                                        *)
(***************************************************************************)

\* What a withdrawal has counted stays countable whatever the others do.
LEMMA LimitedFrame ==
  ASSUME Typed, NEW d \in Calls, Limited(d), UNCHANGED request, counted'[d] = counted[d],
         pc'[d] \in {"debit", "insert"} \/ status'[d] # "none" =>
           pc[d] \in {"debit", "insert"} \/ status[d] # "none",
         \A c \in Calls : pc[c] \notin Rowless => pc'[c] \notin Rowless
  PROVE  Limited(d)'
<1>1. Withdrawals' = Withdrawals /\ \A c : Body(c)' = Body(c)
  BY Fixed
<1>2. Total(counted[d])' = Total(counted[d])
  BY <1>1 DEF Total
<1>3. counted[d] \subseteq Calls
  BY DEF Typed
<1> QED
  BY <1>1, <1>2, <1>3 DEF Limited

\* A withdrawal goes on to its debit within the limit on what it counted.
LEMMA LimitedOwn ==
  ASSUME Typed, NEW c \in Calls, Routed(c), Limited(c), IsFiniteSet(Rows), Step(c),
         \A d \in Calls : Routed(d)
  PROVE  Limited(c)'
<1>1. UNCHANGED request /\ Withdrawals' = Withdrawals /\ \A d : Body(d)' = Body(d)
  BY StepIsLocal, Fixed
<1>2. \A d \in Calls : pc[d] \notin Rowless => pc'[d] \notin Rowless
  BY StepFlow, StepIsLocal DEF Forward
<1>3. CASE CheckLimit(c) /\ pc'[c] = "debit"
  <2>1. /\ counted'[c] = CountsToday(c)
        /\ WithinLimit(c, CountsToday(c)) /\ status'[c] = "none"
    BY <1>3 DEF CheckLimit, Goto, Typed, Routed, Rowless
  <2>2. CountsToday(c) \subseteq Rows
    BY DEF CountsToday, Withdrawals, Rows
  <2>3. IsFiniteSet(CountsToday(c))
    BY <2>2, FS_Subset
  <2>4. ASSUME NEW d \in CountsToday(c) PROVE pc'[d] \notin Rowless /\ Body(d).amount > 0
    <3>1. d \in Calls /\ status[d] = "success"
      BY DEF CountsToday, Withdrawals
    <3> QED
      BY <1>2, <3>1 DEF Routed
  <2>5. Total(CountsToday(c)) + Body(c).amount <= DailyLimit
    BY <2>1 DEF WithinLimit
  <2>6. Total(counted[c])' = Total(CountsToday(c))
    BY <1>1, <2>1 DEF Total
  <2> QED
    BY <1>1, <2>1, <2>3, <2>4, <2>5, <2>6 DEF Limited
<1>4. CASE ~(CheckLimit(c) /\ pc'[c] = "debit")
  <2>1. counted'[c] = counted[c]
    <3>1. CheckLimit(c) => UNCHANGED counted
      BY <1>4 DEF CheckLimit, Goto, Typed
    <3> QED
      BY <3>1 DEF Step, WithdrawStep, CheckWithdraw, DebitCard, InsertWithdraw, SettleWithdraw,
                  UndoInsert, UndoSettle
  <2>2. pc'[c] \in {"debit", "insert"} => pc[c] \in {"debit", "insert"}
    <3> USE DEF From
    <3>1. CASE Guarded(c)
      BY <3>1, GuardedFlow DEF Guarded
    <3>2. CASE WithdrawStep(c)
      BY <1>4, <3>2, WithdrawFlow DEF WithdrawStep
    <3>3. CASE TopupStep(c)
      BY <3>3, TopupFlow DEF TopupStep
    <3> QED
      BY <3>1, <3>2, <3>3 DEF Step
  <2>3. c \in Withdrawals /\ status'[c] # "none" => status[c] # "none" \/ pc[c] = "insert"
    <3>1. CASE Guarded(c)
      BY <3>1 DEF Guarded, Begin, Claim, Lookup, Enqueue, Complete, Release, Crash
    <3>2. CASE WithdrawStep(c)
      BY <3>2 DEF Typed, WithdrawStep, CheckWithdraw, CheckLimit, DebitCard,
         InsertWithdraw, SettleWithdraw, UndoInsert, UndoSettle, WriteStatus, SetStatus
    <3>3. CASE TopupStep(c)
      <4>1. InsertTopup(c) => c \notin Withdrawals
        BY RequestFacts DEF InsertTopup, Routed, TopupPlaces
      <4> QED
        BY <3>3, <4>1 DEF Typed, TopupStep, CheckTopup, CreditCard,
           UpdateCard, SettleTopup, UndoTopup, LaunchMarker, RunMarker, DeleteTopup,
           WriteTopupStatus, SetStatus
    <3> QED
      BY <3>1, <3>2, <3>3 DEF Step
  <2>4. CASE c \in Withdrawals
    BY <1>1, <1>2, <2>1, <2>2, <2>3, <2>4, LimitedFrame
  <2>5. CASE c \notin Withdrawals
    BY <1>1, <1>2, <2>1, <2>5 DEF Limited, Typed
  <2> QED
    BY <2>4, <2>5
<1> QED
  BY <1>3, <1>4

\* Every step keeps the counted rows finite, without cycles and within the limit.
LEMMA LimitedNext ==
  ASSUME Inv, [Next]_vars
  PROVE  IsFiniteSet(Rows)' /\ NoCycles' /\ \A d \in Calls : Limited(d)'
<1>1. /\ Typed /\ IsFiniteSet(Rows) /\ NoCycles /\ \A c \in Calls : Routed(c) /\ Limited(c)
  BY DEF Inv
<1>2. ASSUME UNCHANGED <<request, pc, counted>>,
             \A d \in Calls : status'[d] \in {status[d], "none"}
      PROVE  IsFiniteSet(Rows)' /\ NoCycles' /\ \A d \in Calls : Limited(d)'
  <2>1. Rows' \subseteq Rows
    BY <1>2 DEF Rows
  <2>2. \A d \in Calls : Limited(d)'
    BY <1>1, <1>2, LimitedFrame
  <2> QED
    BY <1>1, <1>2, <2>1, <2>2, FS_Subset DEF NoCycles
<1>3. ASSUME NEW c \in Calls, Step(c)
      PROVE  IsFiniteSet(Rows)' /\ NoCycles' /\ \A d \in Calls : Limited(d)'
  <2>1. UNCHANGED request /\ \A d \in Calls \ {c} : /\ pc'[d] = pc[d] /\ status'[d] = status[d]
                                                    /\ counted'[d] = counted[d]
    BY <1>1, <1>3, StepIsLocal
  <2>2. IsFiniteSet(Rows')
    <3>1. Rows' \subseteq Rows \cup {c}
      BY <2>1 DEF Rows
    <3> QED
      BY <1>1, <3>1, FS_AddElement, FS_Subset
  <2>3. \A d \in Calls : pc[d] \notin Rowless => pc'[d] \notin Rowless
    BY <1>1, <1>3, <2>1, StepFlow DEF Forward
  <2>4. ASSUME NEW d \in Calls PROVE Limited(d)'
    <3>1. CASE d = c
      BY <1>1, <1>3, <3>1, LimitedOwn
    <3>2. CASE d # c
      BY <1>1, <2>1, <2>3, <3>2, LimitedFrame
    <3> QED
      BY <3>1, <3>2
  <2>5. NoCycles'
    <3>1. CASE counted'[c] = counted[c]
      BY <1>1, <2>1, <3>1 DEF NoCycles
    <3>2. CASE CheckLimit(c)
      <4>1. pc[c] = "limit" /\ \A d \in Calls : c \notin counted[d]
        BY <1>1, <3>2 DEF CheckLimit, Limited, Rowless
      <4>2. c \notin counted'[c]
        BY <1>1, <3>2, <4>1 DEF CheckLimit, CountsToday, Typed, Routed, Rowless
      <4>3. \A d \in Calls : c \notin counted'[d]
        BY <2>1, <4>1, <4>2
      <4> QED
        BY <1>1, <2>1, <4>3 DEF NoCycles
    <3> QED
      BY <1>3, <3>1, <3>2
      DEF Step, WithdrawStep, CheckWithdraw, DebitCard, InsertWithdraw, SettleWithdraw,
          UndoInsert, UndoSettle
  <2> QED
    BY <2>2, <2>4, <2>5
<1>4. ASSUME NEW e \in inflight, ArriveLate(e), UNCHANGED counted
      PROVE  IsFiniteSet(Rows)' /\ NoCycles' /\ \A d \in Calls : Limited(d)'
  BY <1>2, <1>4 DEF ArriveLate, Others
<1>5. CASE Background /\ UNCHANGED counted
  BY <1>1, <1>2, <1>5, BackgroundEffect
<1>6. CASE UNCHANGED vars
  BY <1>2, <1>6 DEF vars, command
<1> QED
  BY <1>3, <1>4, <1>5, <1>6, NextCases

-----------------------------------------------------------------------------

\* The invariant holds before any call arrives.
LEMMA InvInit == Init => Inv
<1> SUFFICES ASSUME Init PROVE Inv
  OBVIOUS
<1>1. Typed
  BY InitType
<1>2. /\ \A c \in Calls : pc[c] = "idle" /\ status[c] = "none" /\ counted[c] = {}
      /\ booked = {} /\ inflight = {} /\ outbox = {} /\ marks = {} /\ lapsed = {}
      /\ \A k \in Keys : idem[k] = NoRecord
  BY DEF Init, CommandInit, LedgerInit, WithdrawInit, TopupInit
<1>3. Rows = {}
  BY <1>2 DEF Rows
<1>4. NoCycles
  BY <1>2 DEF NoCycles
<1>5. ASSUME NEW c \in Calls
      PROVE  /\ Routed(c) /\ Announced(c) /\ Owned(c) /\ Limited(c) /\ Marked(c) /\ Placed(c)
  <2>1. Paid(c) = {} /\ Pending(c) = {}
    BY <1>2 DEF Paid, Pending, Entries
  <2> USE DEF WithdrawPlaces, TopupPlaces, Rowless, Unsent, Unchecked, Gone, Booked, Owning
  <2>2. Routed(c)
    BY <1>2 DEF Routed
  <2>3. Announced(c)
    BY <1>2 DEF Announced, Emitted, Stored
  <2>4. Owned(c)
    BY <1>2 DEF Owned
  <2>5. Limited(c)
    BY <1>2, FS_EmptySet DEF Limited
  <2>6. Marked(c)
    BY <1>2 DEF Marked
  <2>7. Placed(c)
    BY <1>2, <2>1 DEF Placed
  <2> QED
    BY <2>2, <2>3, <2>4, <2>5, <2>6, <2>7
<1> QED
  BY <1>1, <1>3, <1>4, <1>5, FS_EmptySet DEF Inv

\* The invariant is inductive.
LEMMA InvNext == Inv /\ [Next]_vars => Inv'
<1>1. Inv => Typed /\ \A c \in Calls : Routed(c)
  BY DEF Inv
<1> QED
  BY <1>1, NextType, RoutedNext, PlacedNext, OwnedNext, MarkedNext, LimitedNext DEF Inv

\* Inv holds in every behaviour.
LEMMA Invariance == Spec => []Inv
BY InvInit, InvNext, PTL DEF Spec

-----------------------------------------------------------------------------

\* Every variable keeps its type; no balance is ever negative.
THEOREM TypeCorrect == Spec => []TypeOK
<1>1. Inv => TypeOK
  BY DEF Inv, Typed, TypeOK, CommandTypeOK, AllPlaces, Records, RowType, LedgerType, Entry
<1> QED
  BY <1>1, Invariance, PTL

\* The sum of what is booked of a call, by its entries.
LEMMA MovedSum ==
  ASSUME Inv, NEW c \in Calls
  PROVE  /\ Paid(c) = {} => Moved(c) = 0
         /\ Paid(c) = {First(c)} => Moved(c) = Effect(c)
         /\ \A u \in Undos(c) : Paid(c) = {First(c), u} => Moved(c) = 0
<1> DEFINE f == [e \in booked |-> e.amount]
<1>1. /\ First(c).amount = Effect(c) /\ Effect(c) \in Int
      /\ \A u \in Undos(c) : u.amount = -Effect(c) /\ u # First(c)
  BY BookingFacts DEF Inv
<1>2. Paid(c) \subseteq booked /\ Moved(c) = SumFunctionOnSet(f, Paid(c))
  BY DEF Paid, Entries, Moved
<1>3. \A e \in booked : f[e] = e.amount
  OBVIOUS
<1> HIDE DEF f
<1>4. Paid(c) = {} => Moved(c) = 0
  BY <1>2, SumEmpty
<1>5. ASSUME Paid(c) = {First(c)} PROVE Moved(c) = Effect(c)
  <2>1. f[First(c)] = Effect(c) /\ f[First(c)] \in Int
    BY <1>1, <1>2, <1>3, <1>5
  <2>2. SumFunctionOnSet(f, {First(c)}) = f[First(c)]
    BY <2>1, SumSingleton
  <2> QED
    BY <1>2, <1>5, <2>1, <2>2
<1>6. ASSUME NEW u \in Undos(c), Paid(c) = {First(c), u} PROVE Moved(c) = 0
  <2>1. f[First(c)] = Effect(c) /\ f[u] = -Effect(c) /\ First(c) # u
    BY <1>1, <1>2, <1>3, <1>6
  <2>2. f[First(c)] \in Int /\ f[u] \in Int
    BY <1>1, <2>1
  <2>3. SumFunctionOnSet(f, {First(c), u}) = f[First(c)] + f[u]
    BY <2>1, <2>2, SumPair
  <2> QED
    BY <1>1, <1>2, <1>6, <2>1, <2>3
<1> QED
  BY <1>4, <1>5, <1>6

\* A call moves its whole amount once, or nothing: a refund is asked for only
\* where the booking is in, and only once.
THEOREM MovesAllOrNothing == Spec => []AllOrNothing
<1>1. ASSUME Inv, NEW c \in Calls, Alone(c) PROVE Moved(c) \in {0, Effect(c)}
  <2>1. Placed(c) /\ pc[c] \in AllPlaces
    BY <1>1 DEF Inv, Typed
  <2>2. pc[c] \in Unsent \cup Booked \cup Gone
    BY <2>1 DEF Booked
  <2>3. CASE pc[c] \in Unsent \cup Booked
    BY <1>1, <2>1, <2>3, MovedSum DEF Placed
  <2>4. CASE pc[c] \in Gone
    <3>1. PICK u \in Undos(c) : /\ Paid(c) \subseteq {First(c), u}
                                /\ u \in Paid(c) => First(c) \in Paid(c)
      BY <2>1, <2>4 DEF Placed
    <3>2. Paid(c) = {} \/ Paid(c) = {First(c)} \/ Paid(c) = {First(c), u}
      BY <3>1
    <3> QED
      BY <1>1, <3>2, MovedSum
  <2> QED
    BY <2>2, <2>3, <2>4
<1>2. Inv => AllOrNothing
  BY <1>1 DEF AllOrNothing
<1> QED
  BY <1>2, Invariance, PTL

\* What is announced as a success is booked, and no refund of it is booked or
\* under way.
THEOREM ToldBooked == Spec => []ToldIsBooked
<1>1. ASSUME Inv, NEW c \in Calls, Told(c), Alone(c)
      PROVE  Moved(c) = Effect(c) /\ Entries(c, inflight) = {}
  <2>1. pc[c] = "ok" \/ Emitted(c)
    BY <1>1 DEF Inv, Announced, Told, Emitted, Stored
  <2>2. Paid(c) = {First(c)} /\ Pending(c) = {}
    <3>1. "ok" \in Booked
      BY DEF Booked, AllPlaces, Resting, Unsent, Unchecked, Gone
    <3> QED
      BY <1>1, <2>1, <3>1 DEF Inv, Announced, Placed
  <2> QED
    BY <1>1, <2>2, MovedSum DEF Pending
<1>2. Inv => ToldIsBooked
  BY <1>1 DEF ToldIsBooked
<1> QED
  BY <1>2, Invariance, PTL

\* A topup that is, or is about to be, marked failed has no debit under way.
THEOREM FailedNoLateDebit == Spec => []FailedHasNoLateDebit
<1>1. ASSUME Inv, NEW c \in Topups, c \in marks \/ status[c] = "failed",
             NEW e \in Entries(c, inflight)
      PROVE  e.amount > 0
  <2>1. c \in Calls /\ c \notin Withdrawals /\ Alone(c)
    BY <1>1, RequestFacts DEF Inv, Topups, Withdrawals, Alone
  <2>2. Placed(c) /\ Marked(c) /\ First(c).amount = Effect(c)
    BY <1>1, <2>1, BookingFacts DEF Inv
  <2>3. pc[c] \in Gone /\ Pending(c) \cap Undos(c) = {} /\ e \in Pending(c)
    BY <1>1, <2>2 DEF Marked, Pending
  <2>4. e = First(c) /\ Body(c).amount > 0
    BY <2>2, <2>3 DEF Placed
  <2> QED
    BY <2>1, <2>2, <2>4 DEF Effect
<1>2. Inv => FailedHasNoLateDebit
  BY <1>1 DEF FailedHasNoLateDebit
<1> QED
  BY <1>2, Invariance, PTL

\* Of rows of which every two were checked one after the other, one was checked
\* after all the others.
LEMMA LastChecked ==
  ASSUME Inv, NEW S \in SUBSET Rows, S # {},
         \A c, d \in S : c # d => c \in counted[d] \/ d \in counted[c]
  PROVE  \E m \in S : S \ {m} \subseteq counted[m]
<1>1. NoCycles /\ IsFiniteSet(S) /\ S \subseteq Calls
  BY FS_Subset DEF Inv, Rows
<1> DEFINE F == {S \ counted[m] : m \in S}
<1>2. F \subseteq SUBSET S /\ F # {}
  OBVIOUS
<1>3. PICK T \in F : \A U \in F : U \subseteq T => U = T
  <2> HIDE DEF F
  <2> QED
    BY <1>1, <1>2, LeastSet
<1>4. PICK m \in S : T = S \ counted[m]
  OBVIOUS
<1>5. ASSUME NEW d \in S \ {m}, d \notin counted[m] PROVE FALSE
  <2>1. m \in counted[d]
    BY <1>5
  <2>2. ASSUME NEW c \in S, c \in counted[m] PROVE c \in counted[d]
    <3>1. c # d
      BY <1>5, <2>2
    <3>2. d \notin counted[c]
      BY <1>1, <2>1, <2>2 DEF NoCycles
    <3> QED
      BY <3>1, <3>2
  <2>3. S \ counted[d] \subseteq T /\ S \ counted[d] \in F
    BY <1>4, <2>2
  <2>4. S \ counted[d] = T
    BY <1>3, <2>3
  <2>5. m \in T
    BY <1>1, <1>4 DEF NoCycles
  <2> QED
    BY <2>1, <2>4, <2>5
<1> QED
  BY <1>5

\* Only withdrawals that overlapped exceed the daily limit: the last one to be
\* checked counted all the others.
THEOREM OnlyRacesExceedLimit == Spec => []LimitExceededOnlyByRaces
<1>1. ASSUME Inv, NEW S \in SUBSET {c \in Withdrawals : status[c] = "success"},
             \A c, d \in S : c # d => c \in counted[d] \/ d \in counted[c]
      PROVE  Total(S) <= DailyLimit
  <2> DEFINE f == [c \in Calls |-> Body(c).amount]
  <2>1. S \subseteq Rows /\ S \subseteq Calls /\ Rows \subseteq Calls /\ IsFiniteSet(Rows)
    BY <1>1 DEF Inv, Rows, Withdrawals
  <2>2. CASE S = {}
    BY <2>2, SumEmpty, CashAssumption DEF CashAssumption, Total
  <2>3. CASE S # {}
    <3>1. PICK m \in S : S \ {m} \subseteq counted[m]
      BY <1>1, <2>1, <2>3, LastChecked
    <3>2. /\ IsFiniteSet(counted[m]) /\ counted[m] \subseteq Calls
          /\ \A d \in counted[m] : Body(d).amount > 0
          /\ Total(counted[m]) + Body(m).amount <= DailyLimit
      BY <1>1, <2>1 DEF Inv, Typed, Limited, Rows
    <3>3. \A d \in Calls : f[d] = Body(d).amount /\ f[d] \in Int
      BY <1>1, RequestFacts DEF Inv
    <3>4. ASSUME NEW d \in counted[m] PROVE f[d] \in Nat
      <4>1. d \in Calls /\ Body(d).amount > 0
        BY <3>2
      <4>2. f[d] = Body(d).amount /\ f[d] \in Int
        BY <3>3, <4>1
      <4> HIDE DEF f
      <4> QED
        BY <4>1, <4>2
    <3>5. IsFiniteSet(S) /\ \A d \in S : f[d] \in Int
      BY <2>1, <3>3, FS_Subset
    <3>6. Total(counted[m]) = SumFunctionOnSet(f, counted[m]) /\ Total(S) = SumFunctionOnSet(f, S)
      BY DEF Total
    <3> HIDE DEF f
    <3>7. SumFunctionOnSet(f, S) = f[m] + SumFunctionOnSet(f, S \ {m})
      BY <3>5, SumRemove
    <3>8. SumFunctionOnSet(f, S \ {m}) <= SumFunctionOnSet(f, counted[m])
      BY <3>1, <3>2, <3>4, SumMonotone
    <3>9. /\ SumFunctionOnSet(f, S \ {m}) \in Int /\ SumFunctionOnSet(f, counted[m]) \in Int
          /\ f[m] = Body(m).amount /\ f[m] \in Int
      <4>1. IsFiniteSet(S \ {m})
        BY <3>5, FS_RemoveElement
      <4> QED
        BY <2>1, <3>2, <3>3, <3>4, <3>5, <4>1, SumType
    <3>10. DailyLimit \in Int
      BY CashAssumption DEF CashAssumption
    <3> QED
      BY <3>2, <3>6, <3>7, <3>8, <3>9, <3>10
  <2> QED
    BY <2>2, <2>3
<1>2. Inv => LimitExceededOnlyByRaces
  BY <1>1 DEF LimitExceededOnlyByRaces
<1> QED
  BY <1>2, Invariance, PTL
=============================================================================
