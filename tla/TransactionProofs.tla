-------------------------- MODULE TransactionProofs --------------------------
(***************************************************************************)
(* Theorems about Transaction.tla, for any calls, keys, cards and payments *)
(* and any set of cards the merchant may own: what a final status says of  *)
(* the legs, that one key pays once, and that Create implements the        *)
(* promise of PaymentPromise.tla.  They rest on one invariant: for every   *)
(* place of a handler, which legs are booked or under way, and who holds   *)
(* the key.                                                                *)
(***************************************************************************)
EXTENDS Transaction, TLAPS

AllPlaces == Resting \cup Places \cup
             {"claim", "lookup", "check", "enqueue", "complete", "release"}
RowType   == Statuses \cup {"none"}
Records   == [owner : Calls, hash : Bodies, status : {"processing", "success"}]

Entry(e)  == e.card \in Cards /\ e.amount \in Int
LedgerType == /\ balance \in [Cards -> Nat]
              /\ \A e \in booked \cup inflight : Entry(e)

\* The merchant is credited on a card that was found.
Resolved == \A c \in Calls : pc[c] = "credit" => merchantCard[c] # NoCard

\* TypeOK, with its parts named.
Typed ==
  /\ request \in [Calls -> Requests] /\ pc \in [Calls -> AllPlaces]
  /\ idem \in [Keys -> Records \cup {NoRecord}]
  /\ status \in [Calls -> RowType] /\ trashed \subseteq Calls /\ lapsed \subseteq Calls
  /\ outbox \subseteq Calls \X EventTypes /\ LedgerType
  /\ merchantCard \in [Calls -> MerchantCards \cup {NoCard}]
  /\ stuck \subseteq Calls \X Statuses /\ amended \subseteq Calls

-----------------------------------------------------------------------------
(***************************************************************************)
(* Types.                                                                  *)
(***************************************************************************)

\* What a call asks for.
LEMMA RequestFacts ==
  ASSUME Typed, NEW c \in Calls
  PROVE  /\ Key(c) \in Keys \cup {NoKey} /\ Body(c) \in Bodies
         /\ Body(c).card \in Cards /\ Body(c).amount \in Int
<1>1. request[c] \in Requests  BY DEF Typed
<1>2. Key(c) \in Keys \cup {NoKey} /\ Body(c) \in Bodies  BY <1>1 DEF Requests, Key, Body
<1>3. Body(c) \in [card : Cards, amount : Int]  BY <1>2, BodiesAssumption DEF BodiesAssumption
<1> QED  BY <1>2, <1>3

\* Every leg is a booking of an amount on a card.
LEMMA LegFacts ==
  ASSUME Typed, NEW c \in Calls, NEW name, NEW card \in Cards
  PROVE  Entry(Leg(c, name, card)) /\ Leg(c, name, card).op = <<c, name>>
<1>1. Body(c).amount \in Int /\ -Body(c).amount \in Int
  BY RequestFacts
<1>2. CASE name \in {"user-debit", "merchant-compensation"}
  BY <1>1, <1>2 DEF Leg, Debit, Entry
<1>3. CASE name \notin {"user-debit", "merchant-compensation"}
  BY <1>1, <1>3 DEF Leg, Credit, Entry
<1> QED  BY <1>2, <1>3

\* A request that is executed, refused or delayed keeps the ledger typed.
LEMMA SaldoType ==
  ASSUME LedgerType, NEW e, Entry(e), Succeeds(e) \/ Fails(e) \/ Arrive(e)
  PROVE  LedgerType'
<1>1. ASSUME Executes(e) PROVE balance' \in [Cards -> Nat] /\ booked' \subseteq booked \cup {e}
  BY <1>1 DEF Executes, LedgerType, Entry
<1>2. balance' \in [Cards -> Nat] /\ booked' \subseteq booked \cup {e}
  BY <1>1 DEF Succeeds, Fails, Arrive, ledger, LedgerType
<1>3. inflight' \subseteq inflight \cup {e}
  BY DEF Succeeds, Fails, Arrive, ledger
<1> QED  BY <1>2, <1>3 DEF LedgerType, Entry

\* A guarded write of the status keeps the types.
LEMMA GuardStatusType ==
  ASSUME Typed, NEW c \in Calls, NEW from, NEW to \in Statuses,
         NEW done \in AllPlaces, NEW failed \in AllPlaces,
         GuardStatus(c, from, to, done, failed)
  PROVE  status' \in [Calls -> RowType] /\ pc' \in [Calls -> AllPlaces]
BY DEF Typed, GuardStatus, SetStatus, Goto, AllPlaces, RowType

\* A request for a leg of a payment keeps the types.
LEMMA RpcType ==
  ASSUME Typed, NEW c \in Calls, NEW name, NEW card \in Cards,
         NEW done \in AllPlaces, NEW failed \in AllPlaces,
         Rpc(c, Leg(c, name, card), done, failed)
  PROVE  LedgerType' /\ pc' \in [Calls -> AllPlaces]
<1>1. LedgerType  BY DEF Typed, LedgerType, Entry
<1>2. LedgerType'  BY <1>1, LegFacts, SaldoType DEF Rpc
<1>3. pc' \in [Calls -> AllPlaces]
  BY DEF Rpc, Goto, Typed, AllPlaces
<1> QED  BY <1>2, <1>3

\* No call has done anything.
LEMMA InitType == Init => Typed
<1> SUFFICES ASSUME Init PROVE Typed
  OBVIOUS
<1>1. LedgerType
  BY BalanceAssumption DEF BalanceAssumption, Init, CommandInit, LedgerInit, LedgerType
<1> QED
  BY <1>1 DEF Typed, Init, CommandInit, AllPlaces, Resting, RowType

\* The typing that the proof uses is stronger than the type invariant.
LEMMA TypedIsTypeOK == Typed => TypeOK
BY DEF Typed, TypeOK, CommandTypeOK, AllPlaces, Records, RowType, LedgerType, Entry

\* The steps that the create handlers of all services have in common.
LEMMA CommonType ==
  ASSUME Typed, CommonStep, UNCHANGED own PROVE Typed'
<1> USE DEF Typed, own
<1>1. ASSUME NEW c \in Calls, Begin(c) \/ Lookup(c) \/ Crash(c) PROVE Typed'
  <2>1. \E place \in AllPlaces : pc' = [pc EXCEPT ![c] = place]
    BY <1>1 DEF Begin, Lookup, LostClaimAnswers, Crash, Goto, AllPlaces, Resting
  <2>2. UNCHANGED <<Others, status, ledger>>
    BY <1>1 DEF Begin, Lookup, Crash
  <2> QED  BY <2>1, <2>2 DEF Others, ledger, LedgerType
<1>2. ASSUME NEW c \in Calls, Claim(c) PROVE Typed'
  <2>1. [owner |-> c, hash |-> Body(c), status |-> "processing"] \in Records
    BY RequestFacts DEF Records
  <2>2. idem' \in [Keys -> Records \cup {NoRecord}]
    BY <1>2, <2>1 DEF Claim, ClaimKey
  <2> QED  BY <1>2, <2>2 DEF Claim, Goto, AllPlaces, ledger, LedgerType
<1>3. ASSUME NEW c \in Calls, Enqueue(c) PROVE Typed'
  BY <1>3 DEF Enqueue, Goto, AllPlaces, ledger, LedgerType
<1>4. ASSUME NEW c \in Calls, Complete(c) PROVE Typed'
  <2>1. idem' \in [Keys -> Records \cup {NoRecord}]
    BY <1>4 DEF Complete, CompleteKey, Records
  <2> QED  BY <1>4, <2>1 DEF Complete, Goto, AllPlaces, Resting, ledger, LedgerType
<1>5. ASSUME NEW c \in Calls, Release(c) PROVE Typed'
  BY <1>5 DEF Release, ReleaseKey, Goto, AllPlaces, Resting, ledger, LedgerType
<1>6. ASSUME NEW e \in inflight, ArriveLate(e) PROVE Typed'
  <2>1. LedgerType'
    BY <1>6, SaldoType DEF ArriveLate, LedgerType
  <2> QED  BY <1>6, <2>1 DEF ArriveLate, Others
<1>7. ASSUME NEW c \in Trashable, TrashRow(c) PROVE Typed'
  BY <1>7, TrashAssumption DEF TrashAssumption, TrashRow, ledger, LedgerType
<1>8. ASSUME NEW S \in SUBSET trashed, RestoreRows(S) PROVE Typed'
  BY <1>8 DEF RestoreRows, ledger, LedgerType
<1>9. ASSUME NEW S \in SUBSET trashed, DeleteRows(S) PROVE Typed'
  BY <1>9 DEF DeleteRows, ledger, LedgerType, RowType
<1>10. ASSUME NEW c \in Expiring, Expire(c) PROVE Typed'
  BY <1>10, TrashAssumption DEF TrashAssumption, Expire, ledger, LedgerType
<1> QED
  BY <1>1, <1>2, <1>3, <1>4, <1>5, <1>6, <1>7, <1>8, <1>9, <1>10 DEF CommonStep, Guarded, Admin

\* Every step of CreateTransaction keeps the types.
LEMMA CreateType == ASSUME Typed, Resolved, NEW c \in Calls, Create(c) PROVE Typed'
<1> USE DEF Typed, own
<1> USE DEF AllPlaces, Places, Resting
<1>1. ASSUME NEW place \in AllPlaces, pc' = [pc EXCEPT ![c] = place],
             UNCHANGED <<Others, stuck, amended, ledger>>,
             UNCHANGED status \/ SetStatus(c, "pending"),
             merchantCard' \in [Calls -> MerchantCards \cup {NoCard}]
      PROVE  Typed'
  BY <1>1 DEF Others, ledger, LedgerType, SetStatus, RowType, Statuses
<1>2. ASSUME NEW from, NEW to \in Statuses, NEW done \in AllPlaces, NEW failed \in AllPlaces,
             GuardStatus(c, from, to, done, failed), UNCHANGED <<Others, own, ledger>>
      PROVE  Typed'
  <2>1. status' \in [Calls -> RowType] /\ pc' \in [Calls -> AllPlaces]
    BY <1>2, GuardStatusType
  <2> QED  BY <1>2, <2>1 DEF Others, ledger, LedgerType
<1>3. ASSUME NEW name, NEW card \in Cards, NEW done \in AllPlaces, NEW failed \in AllPlaces,
             Rpc(c, Leg(c, name, card), done, failed), UNCHANGED <<Others, own, status>>
      PROVE  Typed'
  <2>1. LedgerType' /\ pc' \in [Calls -> AllPlaces]
    BY <1>3, RpcType
  <2> QED  BY <1>3, <2>1 DEF Others
<1>4. CASE Check(c) \/ CreateRow(c) \/ ResolveMerchantCard(c)
  <2>1. \E place \in AllPlaces : pc' = [pc EXCEPT ![c] = place]
    BY <1>4 DEF Check, CreateRow, ResolveMerchantCard, Goto
  <2>2. merchantCard' \in [Calls -> MerchantCards \cup {NoCard}]
    BY <1>4 DEF Check, CreateRow, ResolveMerchantCard
  <2> QED  BY <1>1, <1>4, <2>1, <2>2 DEF Check, CreateRow, ResolveMerchantCard
<1>5. CASE BeginProcessing(c) \/ MarkFailed(c) \/ Quarantine(c) \/ Settle(c)
  BY <1>2, <1>5 DEF BeginProcessing, MarkFailed, Quarantine, Settle, Statuses
<1>6. CASE StartCompensation(c) \/ MarkCompensated(c) \/ QuarantineCompensation(c)
  <2>1. Exit(c) \in AllPlaces  BY DEF Exit
  <2> QED  BY <1>2, <1>6, <2>1 DEF StartCompensation, MarkCompensated, QuarantineCompensation, Statuses
<1>7. CASE DebitUser(c) \/ RefundUser(c)
  <2>1. Body(c).card \in Cards  BY RequestFacts
  <2> QED  BY <1>3, <1>7, <2>1 DEF DebitUser, RefundUser
<1>8. CASE CreditMerchant(c)
  <2>1. merchantCard[c] \in Cards
    BY <1>8, CardsAssumption DEF CardsAssumption, Resolved, CreditMerchant
  <2> QED  BY <1>3, <1>8, <2>1 DEF CreditMerchant
<1>9. CASE DebitMerchant(c)
  BY <1>1, <1>3, <1>9, CardsAssumption DEF CardsAssumption, DebitMerchant, Goto
<1> QED  BY <1>4, <1>5, <1>6, <1>7, <1>8, <1>9 DEF Create

\* Every step of the system keeps the types.
LEMMA NextType == Typed /\ Resolved /\ [Next]_vars => Typed'
<1> SUFFICES ASSUME Typed, Resolved, [Next]_vars PROVE Typed'
  OBVIOUS
<1>1. CASE ListStuck
  <2>1. \A c \in Calls : IsRecoverable(status[c]) => status[c] \in Statuses
    BY DEF IsRecoverable, Statuses
  <2> QED  BY <1>1, <2>1 DEF Typed, ListStuck, Others, ledger, LedgerType
<1>2. ASSUME NEW c \in Calls, NEW s \in Statuses, Recover(c, s) PROVE Typed'
  BY <1>2 DEF Typed, Recover, SetStatus, RowType, Statuses, Others, ledger, LedgerType
<1>3. ASSUME NEW c \in Amendable, NEW s \in {"success", "failed"}, Amend(c, s) PROVE Typed'
  BY <1>3, AmendAssumption DEF AmendAssumption, Typed, Amend, SetStatus, RowType, Statuses, Others,
                               ledger, LedgerType
<1>4. CASE UNCHANGED vars
  BY <1>4 DEF Typed, vars, own, command, ledger, LedgerType
<1> QED
  BY <1>1, <1>2, <1>3, <1>4, CommonType, CreateType DEF Next, UpdateSucceeds, MarkTransactionAsFailed

-----------------------------------------------------------------------------
(***************************************************************************)
(* Where the legs of a call are.                                           *)
(***************************************************************************)

Paid(c)    == Legs(c, booked)
Pending(c) == Legs(c, inflight)
Both       == {"user-debit", "merchant-credit"}

Rowless == {"idle", "claim", "lookup", "check", "create",
            "replayed", "conflict", "inprogress"}
Unsent  == Rowless \cup {"begin", "debit"}
Gone    == {"release", "error", "crashed"}

\* By the place of the handler: what is booked, and that nothing else is under way.
Progress(c) ==
  /\ pc[c] \in Rowless => status[c] = "none" /\ c \notin amended
  /\ pc[c] \in Unsent => Paid(c) = {} /\ Pending(c) = {} /\ merchantCard[c] = NoCard
  /\ pc[c] = "fail" => Paid(c) \cup Pending(c) \subseteq {"user-debit"} /\ merchantCard[c] = NoCard
  /\ pc[c] = "resolve" => Paid(c) = {"user-debit"} /\ Pending(c) = {} /\ merchantCard[c] = NoCard
  /\ pc[c] = "credit" => Paid(c) = {"user-debit"} /\ Pending(c) = {} /\ merchantCard[c] # NoCard
  /\ pc[c] \in {"settle", "enqueue", "complete", "ok"}
       => Paid(c) = Both /\ Pending(c) = {} /\ merchantCard[c] # NoCard
  /\ pc[c] \in {"compensate", "refund"}
       => Paid(c) = (IF MerchantCredited(c) THEN Both ELSE {"user-debit"}) /\ Pending(c) = {}
  /\ pc[c] = "recall" => Paid(c) = Both \cup {"user-compensation"} /\ Pending(c) = {}
  /\ pc[c] = "compDone" => /\ Paid(c) \in {{"user-debit", "user-compensation"},
                                           Both \cup {"user-compensation", "merchant-compensation"}}
                           /\ Pending(c) = {}

Emitted(c) == \E e \in EventTypes : <<c, e>> \in outbox
Stored(c)  == \E k \in Keys : /\ idem[k] # NoRecord /\ idem[k].status = "success"
                              /\ idem[k].owner = c

\* A terminal status that no update wrote, an event and a stored response are
\* final, and so is what an update wrote.
Final(c) ==
  /\ Succeeded(c) =>
       /\ Paid(c) = Both /\ Pending(c) = {}
       /\ pc[c] \in {"error", "crashed", "enqueue", "complete", "ok", "compensate"}
  /\ status[c] = "compensated" =>
       /\ Paid(c) \in {{"user-debit", "user-compensation"},
                       Both \cup {"user-compensation", "merchant-compensation"}}
       /\ Pending(c) = {} /\ pc[c] \in Gone
  /\ status[c] = "failed" /\ c \notin amended =>
       Paid(c) \cup Pending(c) \subseteq {"user-debit"} /\ pc[c] \in Gone
  /\ c \in amended => status[c] \in {"success", "failed", "none"}
  /\ Emitted(c) => Paid(c) = Both /\ Pending(c) = {} /\ pc[c] \in {"complete", "ok", "crashed"}
  /\ Stored(c) => pc[c] = "ok"

Placed(c) == Progress(c) /\ Final(c)

\* Whoever is past the claim of a key, and whose row says success, holds the
\* record of that key for as long as it is valid: that is why one key pays once.
Owning   == Places \cup {"check", "enqueue", "complete", "release"}
Holds(c) == idem[Key(c)] # NoRecord /\ idem[Key(c)].owner = c
Owned(c) ==
  /\ pc[c] \in {"claim", "lookup"} => Key(c) # NoKey
  /\ Key(c) # NoKey /\ pc[c] \in Owning => Holds(c)
  /\ Key(c) # NoKey /\ Succeeded(c) => c \in lapsed \/ Holds(c)
  /\ c \in lapsed => pc[c] \in Resting \ {"idle"}

Inv == Typed /\ \A c \in Calls : Placed(c) /\ Owned(c)

\* The invariant holds before any call arrives.
LEMMA InvInit == Init => Inv
<1> SUFFICES ASSUME Init, NEW c \in Calls PROVE Placed(c) /\ Owned(c)
  BY InitType DEF Inv
<1>1. Paid(c) = {} /\ Pending(c) = {}
  BY DEF Init, CommandInit, LedgerInit, Paid, Pending, Legs
<1>2. pc[c] = "idle" /\ status[c] = "none" /\ merchantCard[c] = NoCard
      /\ outbox = {} /\ lapsed = {} /\ amended = {} /\ \A k \in Keys : idem[k] = NoRecord
  BY DEF Init, CommandInit
<1>3. Placed(c)
  BY <1>1, <1>2 DEF Placed, Progress, Final, Succeeded, Emitted, Stored, Rowless, Unsent, Gone
<1>4. Owned(c)
  BY <1>2 DEF Owned, Succeeded, Owning, Places
<1> QED  BY <1>3, <1>4

\* One more booking of a call adds its leg, and to no other call.
LEMMA LegsAdd ==
  ASSUME NEW c, NEW name, NEW e, e.op = <<c, name>>
  PROVE  \A d, S : Legs(d, S \cup {e}) = IF d = c THEN Legs(d, S) \cup {name} ELSE Legs(d, S)
BY DEF Legs

\* What a saldo call of c does to the legs and to the place of c.
Asked(c, name, done, failed) ==
  \/ pc'[c] = done /\ Paid(c)' = Paid(c) \cup {name} /\ Pending(c)' = Pending(c)
  \/ /\ pc'[c] = failed /\ Paid(c)' = Paid(c)
     /\ Pending(c)' \in {Pending(c), Pending(c) \cup {name}}

\* A request changes what its own payment has moved, and no other payment.
LEMMA RpcMoves ==
  ASSUME Typed, NEW c \in Calls, NEW name, NEW e, e.op = <<c, name>>, NEW done, NEW failed,
         Rpc(c, e, done, failed)
  PROVE  /\ Asked(c, name, done, failed)
         /\ \A d \in Calls \ {c} : /\ pc'[d] = pc[d]
                                   /\ Paid(d)' = Paid(d) /\ Pending(d)' = Pending(d)
<1>1. /\ pc' = [pc EXCEPT ![c] = pc'[c]]
      /\ \/ /\ pc'[c] = done /\ inflight' = inflight
            /\ booked' = booked \cup {e}
         \/ /\ pc'[c] = failed /\ booked' = booked
            /\ inflight' \in {inflight, inflight \cup {e}}
  <2>1. Succeeds(e) => booked' = booked \cup {e} /\ inflight' = inflight
    BY DEF Succeeds, Executes
  <2>2. Fails(e) => booked' = booked /\ inflight' \in {inflight, inflight \cup {e}}
    BY DEF Fails, ledger
  <2>3. pc[c] \in AllPlaces /\ pc \in [Calls -> AllPlaces]
    BY DEF Typed
  <2>4. CASE Succeeds(e) /\ Goto(c, done)
    BY <2>1, <2>3, <2>4 DEF Goto
  <2>5. CASE Fails(e) /\ Goto(c, failed)
    BY <2>2, <2>3, <2>5 DEF Goto
  <2> QED  BY <2>4, <2>5 DEF Rpc
<1>2. \A d : /\ Legs(d, booked \cup {e}) = IF d = c THEN Paid(d) \cup {name} ELSE Paid(d)
             /\ Legs(d, inflight \cup {e}) = IF d = c THEN Pending(d) \cup {name} ELSE Pending(d)
  <2>1. \A d, S : Legs(d, S \cup {e}) = IF d = c THEN Legs(d, S) \cup {name} ELSE Legs(d, S)
    BY LegsAdd
  <2> QED  BY <2>1 DEF Paid, Pending
<1>3. \A d : Paid(d)' = Legs(d, booked') /\ Pending(d)' = Legs(d, inflight')
  BY DEF Paid, Pending, Legs
<1>4. \A d : Paid(d) = Legs(d, booked) /\ Pending(d) = Legs(d, inflight)
  BY DEF Paid, Pending
<1>5. Asked(c, name, done, failed)
  BY <1>1, <1>2, <1>3, <1>4 DEF Asked
<1>6. \A d \in Calls \ {c} : Paid(d)' = Paid(d) /\ Pending(d)' = Pending(d)
  BY <1>1, <1>2, <1>3, <1>4
<1> QED  BY <1>1, <1>5, <1>6 DEF Typed

\* What a guarded status write of c does to its row and its place.
Wrote(c, from, to, done, failed) ==
  \/ pc'[c] \in {done, failed} /\ status[c] = from /\ status'[c] = to
  \/ pc'[c] = failed /\ status'[c] = status[c]

\* A guarded write changes the row of its own payment, and no other row.
LEMMA GuardStatusMoves ==
  ASSUME Typed, NEW c \in Calls, NEW from, NEW to, NEW done, NEW failed,
         GuardStatus(c, from, to, done, failed)
  PROVE  /\ Wrote(c, from, to, done, failed)
         /\ \A d \in Calls \ {c} : pc'[d] = pc[d] /\ status'[d] = status[d]
BY DEF Typed, GuardStatus, Matches, SetStatus, Goto, Wrote

\* What of a call the invariant on its place speaks of, besides its place.
Still(d) == /\ Paid(d)' = Paid(d) /\ Pending(d)' = Pending(d)
            /\ merchantCard'[d] = merchantCard[d]
            /\ d \in amended' <=> d \in amended
            /\ Emitted(d)' => Emitted(d)
            /\ Stored(d)' => Stored(d)

\* A call whose handler stays where it is keeps its place in the invariant,
\* also when its row is deleted or moved to unknown.
LEMMA Frame ==
  ASSUME NEW d \in Calls, Placed(d), Still(d), pc'[d] = pc[d],
         \/ status'[d] \in {status[d], "none"}
         \/ status[d] \in {"processing", "compensating"} /\ status'[d] = "unknown"
  PROVE  Placed(d)'
<1>1. Progress(d)'
  BY DEF Placed, Progress, Still, MerchantCredited
<1>2. Final(d)'
  BY DEF Placed, Final, Succeeded, Still
<1> QED  BY <1>1, <1>2 DEF Placed

\* A request that arrives late may book its leg, of a call that waits for it.
LEMMA ArrivePlaces ==
  ASSUME Inv, NEW e \in inflight, ArriveLate(e), UNCHANGED own, NEW d \in Calls
  PROVE  Placed(d)'
<1>1. /\ UNCHANGED <<request, idem, outbox, pc, status, merchantCard, amended>>
      /\ booked \subseteq booked' /\ booked' \subseteq booked \cup inflight
      /\ inflight' \subseteq inflight
  BY DEF ArriveLate, Others, own, Arrive, Executes
<1>2. /\ Paid(d) \subseteq Paid(d)' /\ Paid(d)' \subseteq Paid(d) \cup Pending(d)
      /\ Pending(d)' \subseteq Pending(d)
  BY <1>1 DEF Paid, Pending, Legs
<1>3. (Emitted(d)' <=> Emitted(d)) /\ (Stored(d)' <=> Stored(d))
  BY <1>1 DEF Emitted, Stored
<1>4. Placed(d)  BY DEF Inv
<1>5. CASE Pending(d) = {}
  <2>1. Still(d)  BY <1>1, <1>2, <1>3, <1>5 DEF Still
  <2> QED  BY <1>1, <1>4, <2>1, Frame
<1>6. CASE Pending(d) # {}
  <2>1. Progress(d)'
    BY <1>1, <1>2, <1>4, <1>6 DEF Placed, Progress, Unsent, Rowless
  <2>2. Final(d)'
    BY <1>1, <1>2, <1>3, <1>4, <1>6 DEF Placed, Final, Succeeded
  <2> QED  BY <2>1, <2>2 DEF Placed
<1> QED  BY <1>5, <1>6

\* A step of Create moves one handler: of the other calls it touches nothing
\* that the invariant speaks of, and no record and no event of anybody.
LEMMA CreateIsLocal ==
  ASSUME Typed, Resolved, NEW c \in Calls, Create(c)
  PROVE  /\ UNCHANGED <<request, idem, lapsed, outbox, amended>>
         /\ \A d \in Calls \ {c} : Still(d) /\ pc'[d] = pc[d] /\ status'[d] = status[d]
<1>1. UNCHANGED <<request, idem, lapsed, outbox, amended>>
  BY DEF Create, Others, own, Check, CreateRow, BeginProcessing, DebitUser, MarkFailed,
         ResolveMerchantCard, CreditMerchant, Quarantine, Settle, StartCompensation,
         RefundUser, DebitMerchant, MarkCompensated, QuarantineCompensation
<1>2. \A d : (Emitted(d)' <=> Emitted(d)) /\ (Stored(d)' <=> Stored(d))
  BY <1>1 DEF Emitted, Stored
<1> DEFINE Alone == /\ \A d \in Calls \ {c} : /\ Paid(d)' = Paid(d) /\ Pending(d)' = Pending(d)
                                              /\ merchantCard'[d] = merchantCard[d]
                                              /\ pc'[d] = pc[d] /\ status'[d] = status[d]
<1>3. ASSUME NEW from, NEW to, NEW done, NEW failed, GuardStatus(c, from, to, done, failed),
             UNCHANGED <<own, ledger>>
      PROVE  Alone
  BY <1>3, GuardStatusMoves DEF own, ledger, Paid, Pending
<1>4. ASSUME NEW name, NEW card \in Cards, NEW done, NEW failed,
             Rpc(c, Leg(c, name, card), done, failed), UNCHANGED <<own, status>>
      PROVE  Alone
  <2>1. Leg(c, name, card).op = <<c, name>>  BY LegFacts
  <2> QED  BY <1>4, <2>1, RpcMoves DEF own
<1> SUFFICES Alone
  BY <1>1, <1>2 DEF Still
<1>5. CASE Check(c) \/ CreateRow(c) \/ ResolveMerchantCard(c)
  BY <1>5 DEF Typed, Check, CreateRow, ResolveMerchantCard, SetStatus, Goto, own, ledger, Paid, Pending
<1>6. CASE BeginProcessing(c) \/ MarkFailed(c) \/ Quarantine(c) \/ Settle(c)
  BY <1>3, <1>6 DEF BeginProcessing, MarkFailed, Quarantine, Settle
<1>7. CASE StartCompensation(c) \/ MarkCompensated(c) \/ QuarantineCompensation(c)
  BY <1>3, <1>7 DEF StartCompensation, MarkCompensated, QuarantineCompensation
<1>8. CASE DebitUser(c) \/ RefundUser(c)
  <2>1. Body(c).card \in Cards  BY RequestFacts
  <2> QED  BY <1>4, <1>8, <2>1 DEF DebitUser, RefundUser
<1>9. CASE CreditMerchant(c)
  <2>1. merchantCard[c] \in Cards
    BY <1>9, CardsAssumption DEF CardsAssumption, Resolved, CreditMerchant, Typed
  <2> QED  BY <1>4, <1>9, <2>1 DEF CreditMerchant
<1>10. CASE DebitMerchant(c)
  <2>1. CASE Goto(c, "compUnknown") /\ UNCHANGED <<ledger, status, own>>
    BY <2>1 DEF Typed, Goto, own, ledger, Paid, Pending
  <2>2. ASSUME NEW card \in MerchantCards,
               Rpc(c, Leg(c, "merchant-compensation", card), "compDone", "compUnknown"),
               UNCHANGED <<own, status>>
        PROVE  Alone
    BY <1>4, <2>2, CardsAssumption DEF CardsAssumption
  <2> QED  BY <1>10, <2>1, <2>2 DEF DebitMerchant
<1> QED  BY <1>5, <1>6, <1>7, <1>8, <1>9, <1>10 DEF Create

\* Every step of Create leads from a place of the invariant to the next one.
LEMMA CreatePlaces ==
  ASSUME Typed, Resolved, NEW c \in Calls, Placed(c), Create(c)
  PROVE  Placed(c)'
<1>1. (Emitted(c)' <=> Emitted(c)) /\ (Stored(c)' <=> Stored(c))
  BY CreateIsLocal DEF Emitted, Stored
<1>2. UNCHANGED ledger => Paid(c)' = Paid(c) /\ Pending(c)' = Pending(c)
  BY DEF ledger, Paid, Pending
<1>3. (\A card \in Cards : \A name : Leg(c, name, card).op = <<c, name>>) /\ Body(c).card \in Cards
  BY LegFacts, RequestFacts
<1> USE <1>1, <1>2
<1>a. UNCHANGED amended
  BY CreateIsLocal
<1> USE <1>a DEF Placed, Progress, Final, Succeeded, Rowless, Unsent, Gone, own
<1>4. CASE Check(c)
  BY <1>4 DEF Typed, Check, Goto
<1>5. CASE CreateRow(c)
  BY <1>5 DEF Typed, CreateRow, SetStatus, Goto
<1>6. CASE BeginProcessing(c)
  <2>1. Wrote(c, "pending", "processing", "debit", "release")
    BY <1>6, GuardStatusMoves DEF BeginProcessing
  <2> QED  BY <1>6, <2>1 DEF BeginProcessing, Wrote
<1>7. CASE DebitUser(c)
  <2>1. Asked(c, "user-debit", "resolve", "fail")
    BY <1>3, <1>7, RpcMoves DEF DebitUser
  <2> QED  BY <1>7, <2>1 DEF DebitUser, Asked
<1>8. CASE MarkFailed(c)
  <2>1. Wrote(c, "processing", "failed", "release", "release")
    BY <1>8, GuardStatusMoves DEF MarkFailed
  <2> QED  BY <1>8, <2>1 DEF MarkFailed, Wrote
<1>9. CASE ResolveMerchantCard(c)
  BY <1>9, CardsAssumption DEF CardsAssumption, Typed, ResolveMerchantCard, Goto, MerchantCredited
<1>10. CASE CreditMerchant(c)
  <2>1. Asked(c, "merchant-credit", "settle", "quarantine")
    BY <1>3, <1>10, RpcMoves, CardsAssumption DEF CardsAssumption, Typed, Resolved, CreditMerchant
  <2> QED  BY <1>10, <2>1 DEF CreditMerchant, Asked, Both
<1>11. CASE Quarantine(c)
  <2>1. Wrote(c, "processing", "unknown", "release", "release")
    BY <1>11, GuardStatusMoves DEF Quarantine
  <2> QED  BY <1>11, <2>1 DEF Quarantine, Wrote
<1>12. CASE Settle(c)
  <2>1. Wrote(c, "processing", "success", "enqueue", "compensate")
    BY <1>12, GuardStatusMoves DEF Settle
  <2> QED  BY <1>12, <2>1 DEF Settle, Wrote, MerchantCredited
<1>13. CASE StartCompensation(c)
  <2>1. Wrote(c, "processing", "compensating", "refund", Exit(c))
    BY <1>13, GuardStatusMoves DEF StartCompensation
  <2> QED  BY <1>13, <2>1 DEF StartCompensation, Wrote, Exit, MerchantCredited, Both
<1>14. CASE RefundUser(c)
  <2>1. Asked(c, "user-compensation", IF MerchantCredited(c) THEN "recall" ELSE "compDone",
              "compUnknown")
    BY <1>3, <1>14, RpcMoves DEF RefundUser
  <2> QED  BY <1>14, <2>1 DEF RefundUser, Asked, Both
<1>15. CASE DebitMerchant(c)
  <2>1. CASE Goto(c, "compUnknown") /\ UNCHANGED <<ledger, status, own>>
    BY <1>15, <2>1 DEF Typed, Goto, DebitMerchant
  <2>2. ASSUME NEW card \in MerchantCards,
               Rpc(c, Leg(c, "merchant-compensation", card), "compDone", "compUnknown"),
               UNCHANGED <<own, status>>
        PROVE  Placed(c)'
    <3>1. Asked(c, "merchant-compensation", "compDone", "compUnknown")
      BY <1>3, <2>2, RpcMoves, CardsAssumption DEF CardsAssumption
    <3> QED  BY <1>15, <2>2, <3>1 DEF DebitMerchant, Asked, Both
  <2> QED  BY <1>15, <2>1, <2>2 DEF DebitMerchant
<1>16. CASE MarkCompensated(c)
  <2>1. Wrote(c, "compensating", "compensated", Exit(c), Exit(c))
    BY <1>16, GuardStatusMoves DEF MarkCompensated
  <2> QED  BY <1>16, <2>1 DEF MarkCompensated, Wrote, Exit
<1>17. CASE QuarantineCompensation(c)
  <2>1. Wrote(c, "compensating", "unknown", Exit(c), Exit(c))
    BY <1>17, GuardStatusMoves DEF QuarantineCompensation
  <2> QED  BY <1>17, <2>1 DEF QuarantineCompensation, Wrote, Exit
<1> QED
  BY <1>4, <1>5, <1>6, <1>7, <1>8, <1>9, <1>10, <1>11, <1>12, <1>13, <1>14, <1>15, <1>16, <1>17
  DEF Create

\* The guard around Create, its outbox inserts and a crash keep every call in place.
LEMMA GuardedPlaces ==
  ASSUME Inv, NEW c \in Calls, Guarded(c), UNCHANGED own, NEW d \in Calls
  PROVE  Placed(d)'
<1>1. /\ UNCHANGED <<status, ledger, merchantCard, amended>> /\ Placed(c) /\ Placed(d) /\ Typed
      /\ Paid(d)' = Paid(d) /\ Pending(d)' = Pending(d)
  BY DEF Inv, own, Guarded, Begin, Claim, Lookup, Enqueue, Complete, Release, Crash, ledger, Paid, Pending
<1>2. pc' = [pc EXCEPT ![c] = pc'[c]] /\ pc \in [Calls -> AllPlaces]
  BY <1>1 DEF Typed, Guarded, Begin, Claim, Lookup, Enqueue, Complete, Release, Crash, Goto
<1> USE DEF Placed, Progress, Final, Succeeded, Rowless, Unsent, Gone, MerchantCredited
<1>3. CASE Begin(c) \/ Lookup(c) \/ Crash(c)
  <2>1. UNCHANGED <<idem, outbox>>
    BY <1>3 DEF Begin, Lookup, Crash, Others
  <2>2. (Emitted(d)' <=> Emitted(d)) /\ (Stored(d)' <=> Stored(d))
    BY <2>1 DEF Emitted, Stored
  <2>3. CASE d # c  BY <1>1, <1>2, <2>2, <2>3, Frame DEF Still
  <2>4. CASE d = c /\ Begin(c)
    BY <1>1, <1>2, <2>2, <2>4 DEF Begin, Goto
  <2>5. CASE d = c /\ Lookup(c)
    <3>1. pc'[c] \in {"error", "conflict", "replayed", "inprogress"}
      BY <1>2, <2>5 DEF Lookup, LostClaimAnswers, Goto
    <3> QED  BY <1>1, <2>2, <2>5, <3>1 DEF Lookup
  <2>6. CASE d = c /\ Crash(c)
    BY <1>1, <1>2, <2>2, <2>6 DEF Crash, Goto, Resting
  <2> QED  BY <1>3, <2>3, <2>4, <2>5, <2>6
<1>4. CASE Claim(c)
  <2>1. Stored(d)' => Stored(d)
    BY <1>1, <1>4 DEF Typed, Claim, ClaimKey, Stored
  <2>2. Emitted(d)' <=> Emitted(d)
    BY <1>4 DEF Claim, Emitted
  <2>3. CASE d # c  BY <1>1, <1>2, <2>1, <2>2, <2>3, Frame DEF Still
  <2>4. CASE d = c
    <3>1. pc[c] = "claim" /\ pc'[c] \in {"check", "lookup"}
      BY <1>2, <1>4 DEF Claim, Goto
    <3> QED  BY <1>1, <2>1, <2>2, <2>4, <3>1
  <2> QED  BY <2>3, <2>4
<1>5. CASE Enqueue(c)
  <2>1. Stored(d)' <=> Stored(d)
    BY <1>5 DEF Enqueue, Stored
  <2>2. pc[c] = "enqueue" /\ pc'[c] = "complete"
    BY <1>2, <1>5 DEF Enqueue, Goto
  <2>3. CASE d # c
    <3>1. Emitted(d)' <=> Emitted(d)
      BY <1>5, <2>3 DEF Enqueue, Emitted
    <3> QED  BY <1>1, <1>2, <2>1, <2>3, <3>1, Frame DEF Still
  <2>4. CASE d = c  BY <1>1, <2>1, <2>2, <2>4
  <2> QED  BY <2>3, <2>4
<1>6. CASE Complete(c)
  <2>1. Holds(c) \/ Key(c) \notin Keys
    BY <1>6, KeyAssumption DEF KeyAssumption, Inv, Owned, Owning, Complete
  <2>2. pc[c] = "complete" /\ pc'[c] = "ok"
    BY <1>2, <1>6 DEF Complete, Goto
  <2>3. Emitted(d)' <=> Emitted(d)
    BY <1>6 DEF Complete, Emitted
  <2>4. CASE d # c
    <3>1. Stored(d)' => Stored(d)
      BY <1>1, <1>6, <2>1, <2>4 DEF Typed, Records, Complete, CompleteKey, Stored, Holds
    <3> QED  BY <1>1, <1>2, <2>3, <2>4, <3>1, Frame DEF Still
  <2>5. CASE d = c  BY <1>1, <2>2, <2>3, <2>5
  <2> QED  BY <2>4, <2>5
<1>7. CASE Release(c)
  <2>1. Stored(d)' => Stored(d)
    BY <1>1, <1>7 DEF Typed, Release, ReleaseKey, Stored
  <2>2. Emitted(d)' <=> Emitted(d)
    BY <1>7 DEF Release, Emitted
  <2>3. CASE d # c  BY <1>1, <1>2, <2>1, <2>2, <2>3, Frame DEF Still
  <2>4. CASE d = c
    <3>1. pc[c] = "release" /\ pc'[c] = "error"
      BY <1>2, <1>7 DEF Release, Goto
    <3> QED  BY <1>1, <2>1, <2>2, <2>4, <3>1
  <2> QED  BY <2>3, <2>4
<1> QED  BY <1>3, <1>4, <1>5, <1>6, <1>7 DEF Guarded

\* An update writes over a row whatever its handler is doing.
LEMMA AmendPlaces ==
  ASSUME Typed, NEW c \in Amendable, NEW s \in {"success", "failed"}, Amend(c, s),
         NEW d \in Calls, Placed(d)
  PROVE  Placed(d)'
<1>1. /\ UNCHANGED <<pc, merchantCard, booked, inflight, outbox, idem>> /\ c \in Calls
      /\ status[c] # "none" /\ status' = [status EXCEPT ![c] = s] /\ amended' = amended \cup {c}
  BY AmendAssumption DEF AmendAssumption, Amend, SetStatus, Others, ledger
<1>2. status'[d] = IF d = c THEN s ELSE status[d]
  BY <1>1 DEF Typed
<1>3. pc[d] \in Rowless => d # c
  BY <1>1 DEF Placed, Progress
<1>4. /\ Paid(d)' = Paid(d) /\ Pending(d)' = Pending(d)
      /\ (Emitted(d)' <=> Emitted(d)) /\ (Stored(d)' <=> Stored(d))
  BY <1>1 DEF Paid, Pending, Legs, Emitted, Stored
<1>5. Progress(d)'
  BY <1>1, <1>2, <1>3, <1>4 DEF Placed, Progress, MerchantCredited
<1>6. Final(d)'
  BY <1>1, <1>2, <1>4 DEF Placed, Final, Succeeded
<1> QED  BY <1>5, <1>6 DEF Placed

\* Every call keeps its place in every step.
LEMMA PlacedNext == Inv /\ [Next]_vars => \A d \in Calls : Placed(d)'
<1> SUFFICES ASSUME Inv, [Next]_vars, NEW d \in Calls PROVE Placed(d)'
  OBVIOUS
<1>1. Typed /\ Resolved /\ Placed(d)
  BY DEF Inv, Placed, Progress, Resolved
<1>2. ASSUME NEW c \in Calls, Create(c) PROVE Placed(d)'
  <2>1. CASE d = c  BY <1>1, <1>2, <2>1, CreatePlaces
  <2>2. CASE d # c  BY <1>1, <1>2, <2>2, CreateIsLocal, Frame
  <2> QED  BY <2>1, <2>2
<1>3. ASSUME NEW c \in Calls, Guarded(c), UNCHANGED own PROVE Placed(d)'
  BY <1>3, GuardedPlaces
<1>4. ASSUME NEW e \in inflight, ArriveLate(e), UNCHANGED own PROVE Placed(d)'
  BY <1>4, ArrivePlaces
<1>5. ASSUME UNCHANGED <<pc, merchantCard, amended, idem, outbox, ledger>>,
             \/ status'[d] \in {status[d], "none"}
             \/ status[d] \in {"processing", "compensating"} /\ status'[d] = "unknown"
      PROVE  Placed(d)'
  <2>1. Still(d)
    BY <1>5 DEF Still, ledger, Paid, Pending, Emitted, Stored
  <2> QED  BY <1>1, <1>5, <2>1, Frame
<1>6. CASE (Admin \/ \E c \in Expiring : Expire(c)) /\ UNCHANGED own
  BY <1>5, <1>6 DEF Admin, TrashRow, RestoreRows, DeleteRows, Expire, own
<1>7. CASE ListStuck
  BY <1>5, <1>7 DEF ListStuck, Others
<1>8. ASSUME NEW c \in Calls, NEW s \in Statuses, Recover(c, s) PROVE Placed(d)'
  <2>1. \/ status'[d] = status[d]
        \/ status[d] \in {"processing", "compensating"} /\ status'[d] = "unknown"
    BY <1>1, <1>8 DEF Typed, Recover, Matches, CanTransition, AllowedTransitions, SetStatus, Statuses
  <2> QED  BY <1>5, <1>8, <2>1 DEF Recover, Others
<1>9. ASSUME NEW c \in Amendable, NEW s \in {"success", "failed"}, Amend(c, s) PROVE Placed(d)'
  BY <1>1, <1>9, AmendPlaces
<1>10. CASE UNCHANGED vars
  BY <1>5, <1>10 DEF vars, own, command
<1> QED
  BY <1>2, <1>3, <1>4, <1>6, <1>7, <1>8, <1>9, <1>10
  DEF Next, CommonStep, UpdateSucceeds, MarkTransactionAsFailed

-----------------------------------------------------------------------------
(***************************************************************************)
(* Who holds a key.                                                        *)
(***************************************************************************)

\* A record that keeps its owner, or has expired, serves a call that starts
\* nothing new.
LEMMA OwnedStays ==
  ASSUME NEW d \in Calls, Owned(d), UNCHANGED <<request, lapsed>>,
         Holds(d) => Holds(d)' \/ d \in lapsed,
         pc'[d] = pc[d], Succeeded(d)' => Succeeded(d)
  PROVE  Owned(d)'
BY DEF Owned, Key, Owning, Places, Resting

\* No step takes the claim on a key from the payment that runs under it.
LEMMA OwnedNext == Inv /\ [Next]_vars => \A d \in Calls : Owned(d)'
<1> SUFFICES ASSUME Inv, [Next]_vars, NEW d \in Calls PROVE Owned(d)'
  OBVIOUS
<1>1. Typed /\ Resolved /\ Owned(d) /\ Placed(d)
  BY DEF Inv, Placed, Progress, Resolved
<1>2. UNCHANGED <<request, idem>> => (Holds(d)' <=> Holds(d)) /\ Key(d)' = Key(d)
  BY DEF Holds, Key
<1>a. UNCHANGED <<status, amended>> => (Succeeded(d)' <=> Succeeded(d))
  BY DEF Succeeded
<1>3. ASSUME NEW c \in Calls, Create(c) PROVE Owned(d)'
  <2>1. UNCHANGED <<request, idem, lapsed, amended>>
    BY <1>1, <1>3, CreateIsLocal
  <2>2. CASE d = c
    <3>1. pc[c] \in Owning
      BY <1>3 DEF Create, Owning, Places, Check, CreateRow, BeginProcessing, DebitUser, MarkFailed,
             ResolveMerchantCard, CreditMerchant, Quarantine, Settle, StartCompensation,
             RefundUser, DebitMerchant, MarkCompensated, QuarantineCompensation
    <3>2. pc'[c] \notin {"claim", "lookup"}
      BY <1>1, <1>3 DEF Typed, Create, Goto, GuardStatus, Rpc, Exit, Check, CreateRow,
             BeginProcessing, DebitUser, MarkFailed, ResolveMerchantCard, CreditMerchant,
             Quarantine, Settle, StartCompensation, RefundUser, DebitMerchant, MarkCompensated,
             QuarantineCompensation
    <3>3. Holds(c)' <=> Holds(c)  BY <1>2, <2>1, <2>2
    <3>4. c \notin lapsed  BY <1>1, <2>2, <3>1 DEF Owned, Owning, Places, Resting
    <3> QED  BY <1>1, <1>2, <2>1, <2>2, <3>1, <3>2, <3>3, <3>4 DEF Owned
  <2>3. CASE d # c
    <3>1. Succeeded(d)' => Succeeded(d)
      BY <1>1, <1>3, <2>1, <2>3, CreateIsLocal DEF Succeeded
    <3> QED  BY <1>1, <1>2, <1>3, <2>1, <2>3, <3>1, CreateIsLocal, OwnedStays
  <2> QED  BY <2>2, <2>3
<1>4. ASSUME NEW c \in Calls, Guarded(c), UNCHANGED own PROVE Owned(d)'
  <2>1. /\ UNCHANGED <<request, lapsed, status, amended>> /\ Owned(c) /\ Placed(c)
        /\ pc' = [pc EXCEPT ![c] = pc'[c]] /\ pc \in [Calls -> AllPlaces]
    BY <1>1, <1>4 DEF Inv, Typed, Guarded, Begin, Claim, Lookup, Enqueue, Complete, Release, Crash,
                      Goto, Others, own
  <2>2. Key(c)' = Key(c) /\ Key(d)' = Key(d) /\ (Succeeded(d)' <=> Succeeded(d))
    BY <1>a, <2>1 DEF Key
  <2>a. pc[c] \notin Resting \ {"idle"}
    BY <1>4 DEF Guarded, Begin, Claim, Lookup, Enqueue, Complete, Release, Crash, Resting
  <2>b. c \notin lapsed  BY <2>1, <2>a DEF Owned
  <2>3. CASE UNCHANGED idem /\ d # c
    BY <1>1, <1>2, <2>1, <2>2, <2>3, OwnedStays
  <2>4. CASE UNCHANGED idem /\ d = c /\ ~Claim(c)
    <3>1. pc'[c] \in Owning => pc[c] \in Owning \/ Key(c) = NoKey
      BY <1>4, <2>1, <2>4 DEF Guarded, Begin, Lookup, LostClaimAnswers, Enqueue, Complete,
                              Release, Crash, Goto, Owning, Places, Resting
    <3>2. pc'[c] \in {"claim", "lookup"} => Key(c) # NoKey
      BY <1>4, <2>1, <2>4 DEF Guarded, Begin, Lookup, LostClaimAnswers, Enqueue, Complete,
                              Release, Crash, Goto
    <3> QED  BY <1>1, <1>2, <2>1, <2>2, <2>b, <2>4, <3>1, <3>2 DEF Owned
  <2>5. CASE Claim(c)
    <3>1. Key(c) \in Keys /\ pc[c] = "claim" /\ pc'[c] \in {"check", "lookup"} /\ status[c] = "none"
      BY <1>1, <2>1, <2>5, RequestFacts DEF Owned, Placed, Progress, Rowless, Claim, Goto
    <3>2. CASE ClaimKey(c, Key(c), Body(c))
      <4>1. d # c /\ Holds(d) => Holds(d)' \/ d \in lapsed
        BY <1>1, <2>2, <3>2 DEF Typed, ClaimKey, Free, Holds
      <4>2. Holds(c)'
        <5>1. [owner |-> c, hash |-> Body(c), status |-> "processing"] # NoRecord
          BY <1>1, RequestFacts, RecordAssumption DEF RecordAssumption
        <5> QED  BY <1>1, <2>2, <3>1, <3>2, <5>1 DEF Typed, ClaimKey, Holds
      <4>3. CASE d # c  BY <1>1, <2>1, <2>2, <4>1, <4>3, OwnedStays
      <4>4. CASE d = c  BY <2>1, <2>2, <2>b, <3>1, <4>2, <4>4 DEF Owned
      <4> QED  BY <4>3, <4>4
    <3>3. CASE UNCHANGED idem /\ Goto(c, "lookup")
      <4>1. pc'[c] = "lookup"  BY <2>1, <3>3 DEF Goto
      <4> QED  BY <1>1, <2>1, <2>2, <2>b, <2>3, <3>1, <3>3, <4>1 DEF Owned, Succeeded, Owning, Places
    <3> QED  BY <2>5, <3>2, <3>3 DEF Claim
  <2>6. CASE Complete(c) /\ CompleteKey(Key(c), Body(c))
    <3>1. Holds(d) => Holds(d)'
      <4>1. \A r \in Records : /\ [r EXCEPT !.status = "success"] \in Records
                               /\ [r EXCEPT !.status = "success"].owner = r.owner
        BY DEF Records
      <4>2. NoRecord \notin Records
        BY RecordAssumption DEF RecordAssumption, Records
      <4>3. CASE idem' = idem  BY <2>2, <4>3 DEF Holds
      <4>4. CASE /\ Key(c) \in Keys /\ idem[Key(c)] # NoRecord
                 /\ idem' = [idem EXCEPT ![Key(c)] = [@ EXCEPT !.status = "success"]]
        BY <1>1, <2>2, <4>1, <4>2, <4>4 DEF Typed, Holds
      <4> QED  BY <2>6, <4>3, <4>4 DEF CompleteKey
    <3>2. d = c => pc'[d] = "ok" /\ pc[d] \in Owning
      BY <2>1, <2>6 DEF Complete, Goto, Owning
    <3>3. CASE d # c  BY <1>1, <2>1, <2>2, <3>1, <3>3, OwnedStays
    <3>4. CASE d = c  BY <1>1, <2>1, <2>2, <2>b, <3>1, <3>2, <3>4 DEF Owned
    <3> QED  BY <3>3, <3>4
  <2>7. CASE Release(c) /\ ReleaseKey(Key(c), Body(c))
    <3>1. pc[c] = "release" /\ pc'[c] = "error" /\ ~Succeeded(c)
      BY <2>1, <2>7 DEF Release, Goto, Placed, Final
    <3>2. Key(c) # NoKey => Holds(c)
      BY <2>1, <3>1 DEF Owned, Owning
    <3>3. ASSUME d # c, Key(d) # NoKey PROVE Holds(d) => Holds(d)'
      BY <1>1, <2>2, <2>7, <3>2, <3>3, RequestFacts DEF Typed, ReleaseKey, Holds
    <3>4. CASE d # c  BY <1>1, <2>1, <2>2, <3>3, <3>4 DEF Owned
    <3>5. CASE d = c  BY <2>1, <2>2, <2>b, <3>1, <3>5 DEF Owned, Owning, Places
    <3> QED  BY <3>4, <3>5
  <2> QED
    BY <1>4, <2>3, <2>4, <2>5, <2>6, <2>7
    DEF Guarded, Begin, Lookup, Enqueue, Complete, Release, Crash, Others
<1>5. ASSUME UNCHANGED <<request, idem, lapsed, pc>>, Succeeded(d)' => Succeeded(d)
      PROVE  Owned(d)'
  BY <1>1, <1>2, <1>5, OwnedStays
<1>6. CASE \/ ((\E e \in inflight : ArriveLate(e)) \/ Admin) /\ UNCHANGED own
           \/ ListStuck \/ UNCHANGED vars
  BY <1>5, <1>6 DEF ArriveLate, Others, Admin, TrashRow, RestoreRows, DeleteRows, ListStuck,
                    vars, own, command, Succeeded
<1>7. ASSUME NEW c \in Calls, NEW s \in Statuses, Recover(c, s) PROVE Owned(d)'
  BY <1>1, <1>5, <1>7 DEF Typed, Recover, SetStatus, Others, Succeeded
<1>8. ASSUME NEW c \in Amendable, NEW s \in {"success", "failed"}, Amend(c, s) PROVE Owned(d)'
  BY <1>1, <1>5, <1>8 DEF Typed, Amend, SetStatus, Others, Succeeded
<1>9. ASSUME NEW c \in Expiring, Expire(c), UNCHANGED own PROVE Owned(d)'
  <2>1. /\ UNCHANGED <<request, idem, pc, status, amended>> /\ lapsed' = lapsed \cup {c}
        /\ pc[c] \in Resting \ {"idle"}
    BY <1>9 DEF Expire, own
  <2> QED  BY <1>1, <1>2, <1>a, <2>1 DEF Owned
<1> QED
  BY <1>3, <1>4, <1>6, <1>7, <1>8, <1>9
  DEF Next, CommonStep, UpdateSucceeds, MarkTransactionAsFailed

\* The invariant is inductive.
LEMMA InvNext == Inv /\ [Next]_vars => Inv'
<1>1. Inv => Typed /\ Resolved
  BY DEF Inv, Placed, Progress, Resolved
<1> QED  BY <1>1, NextType, PlacedNext, OwnedNext DEF Inv

\* Inv holds in every behaviour.
LEMMA Invariance == Spec => []Inv
BY InvInit, InvNext, PTL DEF Spec

-----------------------------------------------------------------------------

\* Every variable keeps its type; no balance is ever negative, no leg is ever
\* booked on a card that does not exist, and the merchant is only credited on
\* a card that was found.
THEOREM TypeCorrect == Spec => []TypeOK
<1>1. Inv => TypeOK  BY TypedIsTypeOK DEF Inv
<1> QED  BY <1>1, Invariance, PTL

\* What is announced as a success has debited the user and credited the
\* merchant, and nothing of it is or will be reversed.
THEOREM SuccessSettled == Spec => []SuccessIsSettled
<1>1. Inv => SuccessIsSettled
  BY DEF Inv, Placed, Progress, Final, Succeeded, SuccessIsSettled, Told, Emitted, Stored, Paid, Pending, Both
<1> QED  BY <1>1, Invariance, PTL

\* A compensated row has every leg that was booked reversed.
THEOREM CompensatedReversed == Spec => []CompensatedIsReversed
<1>1. Inv => CompensatedIsReversed
  BY DEF Inv, Placed, Final, CompensatedIsReversed, Paid, Pending, Both
<1> QED  BY <1>1, Invariance, PTL

\* Neither a handler at work nor a worker with an old list takes back what an
\* update wrote.
THEOREM AmendmentsStand == Spec => []AmendmentStands
<1>1. Inv => AmendmentStands
  BY DEF Inv, Typed, Placed, Final, AmendmentStands
<1> QED  BY <1>1, Invariance, PTL

\* Two calls under one key never both succeed within the life of a claim: the
\* one whose row says success still holds the record of the key, which only the
\* expiry of its own claim gives to another.
THEOREM OnePaymentPerKey == Spec => []OneSuccessPerKey
<1>1. Inv => OneSuccessPerKey
  BY DEF Inv, Owned, Holds, OneSuccessPerKey
<1> QED  BY <1>1, Invariance, PTL

-----------------------------------------------------------------------------
(***************************************************************************)
(* Transaction.tla implements PaymentPromise.tla under the mapping         *)
(* booked <- PaidLegs, verdict <- Verdict.  The promise lets a booking be  *)
(* done only after certain others and only once, so the proof needs to     *)
(* know that at most one request of a payment is ever under way, and that  *)
(* the bookings it has to come after are done.                             *)
(***************************************************************************)

Ways == Promise!There \cup Promise!Back

\* A request for one leg of a payment.
Proper(e) == \E c \in Calls, leg \in Ways :
               \E card \in Promise!Owners(c, leg) : e = Leg(c, leg, card)

Single   == \A e, f \in inflight : e.op[1] = f.op[1] => e = f
Ready(c) == \A leg \in Pending(c) : Paid(c) \in Promise!Before(leg)

Trail == /\ \A e \in inflight : Proper(e)
         /\ Single
         /\ \A c \in Calls : Ready(c)

Step == Promise!Next \/ UNCHANGED Promise!vars

\* Nothing is under way before the first call.
LEMMA TrailInit == Init => Trail
BY DEF Init, CommandInit, LedgerInit, Trail, Single, Ready, Pending, Legs

\* What a request is does not depend on anything but what the calls ask for.
LEMMA ProperKept == UNCHANGED request => \A e : Proper(e)' <=> Proper(e)
BY DEF Proper, Ways, Promise!There, Promise!Back, Promise!Owners, Leg, Debit, Credit, Body

\* A step that leaves the ledger and the requests alone keeps the trail.
LEMMA TrailKept ==
  ASSUME Trail, UNCHANGED <<request, ledger>>
  PROVE  Trail'
<1>1. \A c : Pending(c)' = Pending(c) /\ Paid(c)' = Paid(c)
  BY DEF ledger, Pending, Paid, Legs
<1>2. \A e \in inflight' : Proper(e)'
  BY ProperKept DEF Trail, ledger
<1>3. Single'
  BY DEF Trail, Single, ledger
<1>4. \A c \in Calls : Ready(c)'
  BY <1>1 DEF Trail, Ready, Promise!Before
<1> QED  BY <1>2, <1>3, <1>4 DEF Trail

\* Executing a request that is ready is a move of the promise, or changes
\* nothing when it was booked before.
LEMMA ExecuteMoves ==
  ASSUME Typed, NEW c \in Calls, NEW leg \in Ways, NEW card \in Promise!Owners(c, leg),
         Executes(Leg(c, leg, card)), UNCHANGED <<request, status, amended>>,
         Paid(c) \in Promise!Before(leg),
         Verdict[c] \notin {"settled", "reversed"},
         Verdict[c] = "refused" => leg = "user-debit"
  PROVE  Step
<1> DEFINE e == Leg(c, leg, card)
<1>1. Verdict' = Verdict
  BY DEF Verdict
<1>2. CASE UNCHANGED <<balance, booked>>
  <2>1. PaidLegs' = PaidLegs  BY <1>2 DEF PaidLegs, Legs
  <2> QED  BY <1>1, <1>2, <2>1 DEF Step, Promise!vars
<1>3. CASE booked' = booked \cup {e} /\ balance' = [balance EXCEPT ![e.card] = @ + e.amount]
  <2>1. e.op = <<c, leg>> /\ e.card = card /\ e.amount = Promise!Amount(c, leg)
    BY DEF Leg, Debit, Credit, Promise!Amount, Body
  <2> HIDE DEF e
  <2>2. \A d, S : Legs(d, S \cup {e}) = IF d = c THEN Legs(d, S) \cup {leg} ELSE Legs(d, S)
    <3>1. e.op = <<c, leg>>  BY ONLY <2>1
    <3> QED  BY ONLY <3>1, LegsAdd
  <2>3. PaidLegs' = [d \in Calls |-> Legs(d, booked \cup {e})]
    BY <1>3 DEF PaidLegs, Legs
  <2>4. PaidLegs' = [PaidLegs EXCEPT ![c] = @ \cup {leg}]
    BY <2>2, <2>3 DEF PaidLegs
  <2>5. PaidLegs[c] \in Promise!Before(leg)
    BY DEF PaidLegs, Paid
  <2>6. Promise!Move(c, leg, card)
    BY <1>1, <1>3, <2>1, <2>4, <2>5 DEF Promise!Move
  <2> QED  BY <2>6 DEF Step, Promise!Next, Ways
<1> QED  BY <1>2, <1>3 DEF Executes

\* A handler that asks for a leg, with nothing under way, moves it, leaves it
\* under way, or does nothing.
LEMMA RequestMoves ==
  ASSUME Inv, Trail, NEW c \in Calls, NEW leg \in Ways, NEW card \in Promise!Owners(c, leg),
         NEW done, NEW failed, Rpc(c, Leg(c, leg, card), done, failed),
         UNCHANGED <<request, status, amended>>,
         pc[c] \in {"debit", "credit", "refund", "recall"},
         Paid(c) \in Promise!Before(leg), Pending(c) = {}
  PROVE  Step /\ Trail'
<1> DEFINE e == Leg(c, leg, card)
<1>1. Verdict[c] \notin {"settled", "reversed", "refused"}
  BY DEF Inv, Placed, Final, Succeeded, Gone, Verdict, VerdictOf
<1>2. e.op = <<c, leg>> /\ Proper(e)
  BY DEF Leg, Debit, Credit, Proper
<1>3. Typed  BY DEF Inv
<1>4. /\ Asked(c, leg, done, failed)
      /\ \A d \in Calls \ {c} : Paid(d)' = Paid(d) /\ Pending(d)' = Pending(d)
  BY <1>2, <1>3, RpcMoves
<1>5. \A d \in Calls : Ready(d)'
  <2>1. Ready(c)'
    BY <1>4 DEF Asked, Ready, Promise!Before
  <2>2. \A d \in Calls \ {c} : Ready(d)'
    BY <1>4 DEF Trail, Ready, Promise!Before
  <2> QED  BY <2>1, <2>2
<1>6. inflight' \subseteq inflight \cup {e}
  BY DEF Rpc, Succeeds, Fails, ledger
<1>7. \A f \in inflight : f.op[1] # c
  BY DEF Pending, Legs
<1>8. Single'
  BY <1>2, <1>6, <1>7 DEF Trail, Single
<1>9. \A f \in inflight' : Proper(f)'
  BY <1>2, <1>6, ProperKept DEF Trail
<1>10. Step
  <2>1. CASE Executes(e)
    BY <1>1, <1>3, <2>1, ExecuteMoves
  <2>2. CASE UNCHANGED <<balance, booked>>
    <3>1. PaidLegs' = PaidLegs /\ Verdict' = Verdict
      BY <2>2 DEF PaidLegs, Legs, Verdict
    <3> QED  BY <2>2, <3>1 DEF Step, Promise!vars
  <2> QED  BY <2>1, <2>2 DEF Rpc, Succeeds, Fails, ledger
<1> QED  BY <1>5, <1>8, <1>9, <1>10 DEF Trail

\* A request that arrives late is a move or nothing, and its payment has no
\* other request under way.
LEMMA ArriveMoves ==
  ASSUME Inv, Trail, NEW e \in inflight, ArriveLate(e), UNCHANGED own
  PROVE  Step /\ Trail'
<1>1. /\ UNCHANGED <<request, status, amended>> /\ inflight' = inflight \ {e}
      /\ Executes(e) \/ UNCHANGED <<balance, booked>>
  BY DEF ArriveLate, Arrive, Others, own
<1>2. PICK c \in Calls, leg \in Ways : \E card \in Promise!Owners(c, leg) : e = Leg(c, leg, card)
  BY DEF Trail, Proper
<1>3. PICK card \in Promise!Owners(c, leg) : e = Leg(c, leg, card)
  BY <1>2
<1>4. e.op = <<c, leg>> /\ leg \in Pending(c)
  BY <1>3 DEF Leg, Debit, Credit, Pending, Legs
<1>5. Paid(c) \in Promise!Before(leg)
  BY <1>4 DEF Trail, Ready
<1>6. Verdict[c] \notin {"settled", "reversed"} /\ (Verdict[c] = "refused" => leg = "user-debit")
  BY <1>4 DEF Inv, Placed, Final, Succeeded, Verdict, VerdictOf
<1>7. Step
  <2>1. CASE Executes(e)
    BY <1>1, <1>3, <1>5, <1>6, <2>1, ExecuteMoves DEF Inv
  <2>2. CASE UNCHANGED <<balance, booked>>
    <3>1. PaidLegs' = PaidLegs /\ Verdict' = Verdict
      BY <1>1, <2>2 DEF PaidLegs, Legs, Verdict
    <3> QED  BY <1>1, <2>2, <3>1 DEF Step, Promise!vars
  <2> QED  BY <1>1, <2>1, <2>2
<1>8. \A d \in Calls : Ready(d)'
  <2>1. Pending(c)' = {}
    <3>1. \A f \in inflight' : f.op[1] # c
      BY <1>1, <1>4 DEF Trail, Single
    <3> QED  BY <3>1 DEF Pending, Legs
  <2>2. ASSUME NEW d \in Calls \ {c} PROVE Pending(d)' = Pending(d) /\ Paid(d)' = Paid(d)
    <3>1. booked' \in {booked, booked \cup {e}}
      BY <1>1 DEF Executes
    <3>2. e.op[1] # d
      BY <1>4
    <3>3. Legs(d, booked \cup {e}) = Legs(d, booked) /\ Legs(d, inflight \ {e}) = Legs(d, inflight)
      BY <3>2 DEF Legs
    <3>4. Paid(d)' = Legs(d, booked') /\ Pending(d)' = Legs(d, inflight')
      BY DEF Paid, Pending, Legs
    <3> QED  BY <1>1, <3>1, <3>3, <3>4 DEF Paid, Pending
  <2> QED  BY <2>1, <2>2 DEF Trail, Ready, Promise!Before
<1>9. (\A f \in inflight' : Proper(f)') /\ Single'
  BY <1>1, ProperKept DEF Trail, Single
<1> QED  BY <1>7, <1>8, <1>9 DEF Trail

\* A status write either keeps the verdict or decides an open one, and what it
\* decides is warranted by the bookings.
LEMMA WriteDecides ==
  ASSUME Typed, NEW c \in Calls, \A d \in Calls \ {c} : status'[d] = status[d],
         status' \in [Calls -> RowType], UNCHANGED <<request, balance, booked, amended>>,
         VerdictOf(status'[c]) # VerdictOf(status[c])
           => /\ c \notin amended /\ VerdictOf(status[c]) = "open"
              /\ VerdictOf(status'[c]) \in {"settled", "refused", "reversed", "doubt"}
              /\ Promise!Warrants(Paid(c), VerdictOf(status'[c]))
  PROVE  Step
<1>1. c \notin amended => Verdict' = [Verdict EXCEPT ![c] = VerdictOf(status'[c])]
  BY DEF Verdict, VerdictOf
<1>2. (c \notin amended => Verdict[c] = VerdictOf(status[c])) /\ PaidLegs[c] = Paid(c)
  BY DEF Verdict, PaidLegs, Paid
<1>3. PaidLegs' = PaidLegs
  BY DEF PaidLegs, Legs
<1>4. CASE VerdictOf(status'[c]) = VerdictOf(status[c])
  <2>1. Verdict' = Verdict  BY <1>4 DEF Verdict
  <2> QED  BY <1>3, <2>1 DEF Step, Promise!vars
<1>5. CASE VerdictOf(status'[c]) # VerdictOf(status[c])
  <2> DEFINE v == VerdictOf(status'[c])
  <2>1. Promise!Decide(c, v)  BY <1>1, <1>2, <1>3, <1>5 DEF Promise!Decide
  <2>2. v \in Promise!Outcomes  BY <1>5 DEF Promise!Outcomes
  <2> QED  BY <2>1, <2>2 DEF Step, Promise!Next
<1> QED  BY <1>4, <1>5

\* Each step of Create is one move, one decision or nothing.
LEMMA CreateRefines ==
  ASSUME Inv, Trail, NEW c \in Calls, Create(c)
  PROVE  Step /\ Trail'
<1>1. Typed /\ Resolved /\ Progress(c) /\ Body(c).card \in Cards
  BY RequestFacts DEF Inv, Placed, Progress, Resolved
<1>2. /\ UNCHANGED <<request, amended>>
      /\ \A d \in Calls \ {c} : status'[d] = status[d]
  BY <1>1, CreateIsLocal
<1>3. status' \in [Calls -> RowType]
  BY <1>1, CreateType DEF Typed
<1>4. ASSUME UNCHANGED ledger,
             VerdictOf(status'[c]) # VerdictOf(status[c])
               => /\ status[c] \in {"processing", "compensating"}
                  /\ VerdictOf(status'[c]) \in {"settled", "refused", "reversed", "doubt"}
                  /\ Promise!Warrants(Paid(c), VerdictOf(status'[c]))
      PROVE  Step /\ Trail'
  <2>1. VerdictOf(status'[c]) # VerdictOf(status[c])
          => c \notin amended /\ VerdictOf(status[c]) = "open"
    BY <1>4 DEF Inv, Placed, Final, VerdictOf
  <2>2. Step
    BY <1>1, <1>2, <1>3, <1>4, <2>1, WriteDecides DEF ledger
  <2> QED  BY <1>2, <1>4, <2>2, TrailKept
<1>5. CASE Check(c) \/ CreateRow(c) \/ ResolveMerchantCard(c)
  <2>1. UNCHANGED ledger /\ VerdictOf(status'[c]) = VerdictOf(status[c])
    BY <1>1, <1>5 DEF Typed, Check, CreateRow, ResolveMerchantCard, SetStatus, VerdictOf,
                      Progress, Rowless
  <2> QED  BY <1>4, <2>1
<1>6. CASE BeginProcessing(c)
  <2>1. Wrote(c, "pending", "processing", "debit", "release") /\ UNCHANGED ledger
    BY <1>1, <1>6, GuardStatusMoves DEF BeginProcessing
  <2>2. VerdictOf(status'[c]) = VerdictOf(status[c])
    BY <2>1 DEF Wrote, VerdictOf
  <2> QED  BY <1>4, <2>1, <2>2
<1>7. CASE MarkFailed(c)
  <2>1. Wrote(c, "processing", "failed", "release", "release") /\ UNCHANGED ledger
    BY <1>1, <1>7, GuardStatusMoves DEF MarkFailed
  <2>2. Paid(c) \subseteq {"user-debit"}
    BY <1>1, <1>7 DEF MarkFailed, Progress
  <2>3. Promise!Warrants(Paid(c), "refused")
    BY <2>2 DEF Promise!Warrants
  <2> QED  BY <1>4, <2>1, <2>3 DEF Wrote, VerdictOf
<1>8. CASE Quarantine(c)
  <2>1. Wrote(c, "processing", "unknown", "release", "release") /\ UNCHANGED ledger
    BY <1>1, <1>8, GuardStatusMoves DEF Quarantine
  <2>2. Promise!Warrants(Paid(c), "doubt")
    BY DEF Promise!Warrants
  <2> QED  BY <1>4, <2>1, <2>2 DEF Wrote, VerdictOf
<1>9. CASE Settle(c)
  <2>1. Wrote(c, "processing", "success", "enqueue", "compensate") /\ UNCHANGED ledger
    BY <1>1, <1>9, GuardStatusMoves DEF Settle
  <2>2. Promise!Warrants(Paid(c), "settled")
    BY <1>1, <1>9 DEF Settle, Progress, Both, Promise!Warrants, Promise!There
  <2> QED  BY <1>4, <2>1, <2>2 DEF Wrote, VerdictOf
<1>10. CASE StartCompensation(c)
  <2>1. Wrote(c, "processing", "compensating", "refund", Exit(c)) /\ UNCHANGED ledger
    BY <1>1, <1>10, GuardStatusMoves DEF StartCompensation
  <2>2. VerdictOf(status'[c]) = VerdictOf(status[c])
    BY <2>1 DEF Wrote, VerdictOf
  <2> QED  BY <1>4, <2>1, <2>2
<1>11. CASE MarkCompensated(c)
  <2>1. Wrote(c, "compensating", "compensated", Exit(c), Exit(c)) /\ UNCHANGED ledger
    BY <1>1, <1>11, GuardStatusMoves DEF MarkCompensated
  <2>2. Paid(c) \in {{"user-debit", "user-compensation"},
                     Both \cup {"user-compensation", "merchant-compensation"}}
    BY <1>1, <1>11 DEF MarkCompensated, Progress
  <2>3. Promise!Warrants(Paid(c), "reversed")
    BY <2>2 DEF Both, Promise!Warrants, Promise!There, Promise!Back
  <2> QED  BY <1>4, <2>1, <2>3 DEF Wrote, VerdictOf
<1>12. CASE QuarantineCompensation(c)
  <2>1. Wrote(c, "compensating", "unknown", Exit(c), Exit(c)) /\ UNCHANGED ledger
    BY <1>1, <1>12, GuardStatusMoves DEF QuarantineCompensation
  <2>2. Promise!Warrants(Paid(c), "doubt")
    BY DEF Promise!Warrants
  <2> QED  BY <1>4, <2>1, <2>2 DEF Wrote, VerdictOf
<1> DEFINE Owner(leg, card) == leg \in Ways /\ card \in Promise!Owners(c, leg)
<1>13. Owner("user-debit", Body(c).card) /\ Owner("user-compensation", Body(c).card)
  BY DEF Ways, Promise!There, Promise!Back, Promise!Owners, Body
<1>14. \A card \in MerchantCards : Owner("merchant-credit", card) /\ Owner("merchant-compensation", card)
  BY DEF Ways, Promise!There, Promise!Back, Promise!Owners
<1>15. CASE DebitUser(c)
  <2>1. pc[c] = "debit" /\ UNCHANGED <<request, status, amended>>
        /\ Rpc(c, Leg(c, "user-debit", Body(c).card), "resolve", "fail")
    BY <1>2, <1>15 DEF DebitUser, Others
  <2>2. Paid(c) \in Promise!Before("user-debit") /\ Pending(c) = {}
    BY <1>1, <2>1 DEF Progress, Unsent, Promise!Before
  <2> QED  BY <1>13, <2>1, <2>2, RequestMoves
<1>16. CASE CreditMerchant(c)
  <2>1. pc[c] = "credit" /\ UNCHANGED <<request, status, amended>>
        /\ Rpc(c, Leg(c, "merchant-credit", merchantCard[c]), "settle", "quarantine")
    BY <1>2, <1>16 DEF CreditMerchant, Others
  <2>2. Paid(c) \in Promise!Before("merchant-credit") /\ Pending(c) = {}
    BY <1>1, <2>1 DEF Progress, Promise!Before
  <2>3. merchantCard[c] \in MerchantCards
    BY <1>1, <2>1 DEF Typed, Resolved
  <2> QED  BY <1>14, <2>1, <2>2, <2>3, RequestMoves
<1>17. CASE RefundUser(c)
  <2>1. PICK done : pc[c] = "refund" /\ UNCHANGED <<request, status, amended>>
                    /\ Rpc(c, Leg(c, "user-compensation", Body(c).card), done, "compUnknown")
    BY <1>2, <1>17 DEF RefundUser, Others
  <2>2. Paid(c) \in Promise!Before("user-compensation") /\ Pending(c) = {}
    BY <1>1, <2>1 DEF Progress, Both, Promise!Before, Promise!There
  <2> QED  BY <1>13, <2>1, <2>2, RequestMoves
<1>18. CASE DebitMerchant(c)
  <2>1. pc[c] = "recall" /\ UNCHANGED <<request, status, amended>>
    BY <1>2, <1>18 DEF DebitMerchant, Others
  <2>2. Paid(c) \in Promise!Before("merchant-compensation") /\ Pending(c) = {}
    BY <1>1, <2>1 DEF Progress, Both, Promise!Before, Promise!There
  <2>3. CASE UNCHANGED ledger
    BY <1>4, <2>1, <2>3
  <2>4. ASSUME NEW card \in MerchantCards,
               Rpc(c, Leg(c, "merchant-compensation", card), "compDone", "compUnknown")
        PROVE  Step /\ Trail'
    BY <1>14, <2>1, <2>2, <2>4, RequestMoves
  <2> QED  BY <1>18, <2>3, <2>4 DEF DebitMerchant
<1> QED
  BY <1>5, <1>6, <1>7, <1>8, <1>9, <1>10, <1>11, <1>12, <1>15, <1>16, <1>17, <1>18 DEF Create

\* Every step of the transaction service is an abstract step or a stutter.
LEMMA StepRefines == Inv /\ Trail /\ [Next]_vars => Step /\ Trail'
<1> SUFFICES ASSUME Inv, Trail, [Next]_vars PROVE Step /\ Trail'
  OBVIOUS
<1>1. ASSUME UNCHANGED <<request, status, amended, ledger>> PROVE Step /\ Trail'
  <2>1. PaidLegs' = PaidLegs /\ Verdict' = Verdict
    BY <1>1 DEF PaidLegs, Legs, Verdict, ledger
  <2> QED  BY <1>1, <2>1, TrailKept DEF Step, Promise!vars, ledger
<1>2. ASSUME NEW c \in Calls, Create(c) PROVE Step /\ Trail'
  BY <1>2, CreateRefines
<1>3. ASSUME NEW e \in inflight, ArriveLate(e), UNCHANGED own PROVE Step /\ Trail'
  BY <1>3, ArriveMoves
<1>4. ASSUME NEW c \in Calls, Guarded(c), UNCHANGED own PROVE Step /\ Trail'
  BY <1>1, <1>4 DEF Guarded, Begin, Claim, Lookup, Enqueue, Complete, Release, Crash, Others, own
<1>5. ASSUME NEW S \in SUBSET trashed, DeleteRows(S), UNCHANGED own PROVE Step /\ Trail'
  <2>1. S \in SUBSET Calls /\ UNCHANGED <<request, amended, ledger>>
    BY <1>5 DEF Inv, Typed, DeleteRows, own
  <2>2. Verdict' = [c \in Calls |-> IF c \in S THEN "open" ELSE Verdict[c]]
    BY <1>5, <2>1 DEF DeleteRows, Verdict, VerdictOf
  <2>3. PaidLegs' = PaidLegs /\ UNCHANGED <<request, balance>>
    BY <2>1 DEF PaidLegs, Legs, ledger
  <2>4. Promise!Forget(S)
    BY <2>2, <2>3 DEF Promise!Forget
  <2> QED  BY <2>1, <2>4, TrailKept DEF Step, Promise!Next
<1>6. CASE (Admin \/ \E c \in Expiring : Expire(c)) /\ UNCHANGED own
  BY <1>1, <1>5, <1>6 DEF Admin, TrashRow, RestoreRows, Expire, own
<1>7. CASE ListStuck
  BY <1>1, <1>7 DEF ListStuck, Others
<1>8. ASSUME NEW c \in Calls, NEW s \in Statuses, Recover(c, s) PROVE Step /\ Trail'
  <2>1. UNCHANGED <<request, amended, ledger>> /\ UNCHANGED <<balance, booked>>
    BY <1>8 DEF Recover, Others, ledger
  <2>2. CASE UNCHANGED status
    BY <1>1, <2>1, <2>2
  <2>3. CASE Matches(c, s, "unknown") /\ SetStatus(c, "unknown")
    <3>1. /\ status[c] \in {"processing", "compensating"} /\ status'[c] = "unknown" /\ c \notin amended
          /\ \A d \in Calls \ {c} : status'[d] = status[d]
          /\ status' \in [Calls -> RowType]
      BY <2>3 DEF Inv, Typed, Placed, Final, Matches, SetStatus, CanTransition, AllowedTransitions, RowType, Statuses
    <3>2. Promise!Warrants(Paid(c), "doubt")
      BY DEF Promise!Warrants
    <3>3. Step
      BY <2>1, <3>1, <3>2, WriteDecides DEF Inv, VerdictOf
    <3> QED  BY <2>1, <3>3, TrailKept
  <2> QED  BY <1>8, <2>2, <2>3 DEF Recover
<1>9. ASSUME NEW c \in Amendable, NEW s \in {"success", "failed"}, Amend(c, s) PROVE Step /\ Trail'
  <2>1. UNCHANGED <<request, ledger>> /\ status' = [status EXCEPT ![c] = s]
        /\ amended' = amended \cup {c} /\ c \in Calls
    BY <1>9, AmendAssumption DEF AmendAssumption, Amend, SetStatus, Others
  <2>2. Verdict' = [d \in Calls |-> IF d \in {c} THEN "open" ELSE Verdict[d]]
    BY <2>1 DEF Inv, Typed, Verdict
  <2>3. PaidLegs' = PaidLegs /\ UNCHANGED <<request, balance>>
    BY <2>1 DEF PaidLegs, Legs, ledger
  <2>4. Promise!Forget({c})
    BY <2>2, <2>3 DEF Promise!Forget
  <2> QED  BY <2>1, <2>4, TrailKept DEF Step, Promise!Next
<1>10. CASE UNCHANGED vars
  BY <1>1, <1>10 DEF vars, own, command
<1> QED
  BY <1>2, <1>3, <1>4, <1>6, <1>7, <1>8, <1>9, <1>10
  DEF Next, CommonStep, UpdateSucceeds, MarkTransactionAsFailed

\* Create, with its timeouts, crashes, recovery, trash and updates of its rows,
\* implements the promise: a payment moves each leg at most once and in order, is reversed as
\* far as it went, and nothing moves after a success or a reversal.
THEOREM PromiseKept == Spec => KeepsPromise
<1>1. Init => Promise!Init
  BY DEF Init, CommandInit, LedgerInit, Promise!Init, Verdict, VerdictOf, PaidLegs, Legs
<1>2. Inv /\ Trail /\ [Next]_vars => [Promise!Next]_(Promise!vars)
  BY StepRefines DEF Step
<1>3. Inv /\ Trail /\ [Next]_vars => Trail'
  BY StepRefines
<1> QED  BY <1>1, <1>2, <1>3, InvInit, InvNext, TrailInit, PTL DEF Spec, KeepsPromise, Promise!Spec
=============================================================================
