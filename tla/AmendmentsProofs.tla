--------------------------- MODULE AmendmentsProofs ---------------------------
(***************************************************************************)
(* Theorems about Amendments.tla, for any number of amendments, amounts    *)
(* and services: a reversal is booked only of a leg that is booked, and    *)
(* amendments that all succeed, one after the other, add up.               *)
(***************************************************************************)
EXTENDS Amendments, SumTheorems, TLAPS

Undoing == {"undoLeg", "undoRow", "undoStatus"}

AmendTypeOK ==
  /\ service \in Services
  /\ target \in [Amends -> Amounts]
  /\ original \in Amounts /\ amount \in Amounts
  /\ pc \in [Amends -> Places \cup Over]
  /\ old \in [Amends -> Amounts]
  /\ done \in [Amends -> Nat]

\* The booking that the reversal e takes back.
Undone(e) == [op |-> <<e.op[1], "book">>, card |-> e.card, amount |-> -e.amount]

\* What a handler counts as booked is booked; it starts to undo with something
\* to undo; and what it has asked to be taken back was booked.
UndoInv ==
  /\ \A a \in Amends : /\ done[a] <= Len(Legs(a))
                       /\ \A i \in 1..done[a] : Legs(a)[i] \in booked
                       /\ pc[a] = "idle" => done[a] = 0
                       /\ pc[a] \in Undoing => done[a] > 0
  /\ \A e \in booked \cup inflight : e.op[2] # "book" => Undone(e) \in booked

-----------------------------------------------------------------------------
(***************************************************************************)
(* Legs and their reversals.                                               *)
(***************************************************************************)

\* What the assumptions say of the constants.
LEMMA Facts ==
  /\ Services \subseteq {"withdraw", "topup", "transaction", "transfer"}
  /\ Amounts \subseteq Int
BY AmendAssumption DEF AmendAssumption

\* An amendment has at most two legs.
LEMMA LegsAreSequence ==
  ASSUME AmendTypeOK, NEW a \in Amends PROVE Len(Legs(a)) \in Nat
<1>1. service \in {"withdraw", "topup", "transaction", "transfer"}
  BY Facts DEF AmendTypeOK
<1> QED
  BY <1>1 DEF Legs

\* Every leg is a booking under the operation id of its amendment.
LEMMA LegIsBooking ==
  ASSUME AmendTypeOK, NEW a \in Amends, NEW i \in 1..Len(Legs(a))
  PROVE  \E card, m : /\ m \in Int
                      /\ Legs(a)[i] = [op |-> <<Name(a), "book">>, card |-> card, amount |-> m]
<1>1. service \in {"withdraw", "topup", "transaction", "transfer"}
  BY Facts DEF AmendTypeOK
<1>2. old[a] \in Int /\ target[a] \in Int
  BY Facts DEF AmendTypeOK
<1> DEFINE n == Diff(a)
           B(card, m) == [op |-> <<Name(a), "book">>, card |-> card, amount |-> m]
<1>3. n \in Int /\ -n \in Int /\ -target[a] \in Int
  BY <1>2 DEF Diff
<1>4. \/ Legs(a) = << >>
      \/ Legs(a) = <<B(Payer, old[a]), B(Payer, -target[a])>>
      \/ Legs(a) = <<B(Payer, -n)>>
      \/ Legs(a) = <<B(Payer, n)>>
      \/ Legs(a) = <<B(Payer, -n), B(Receiver, n)>>
  BY <1>1 DEF Legs, Credit
<1> DEFINE Booking(e) == \E card, m : m \in Int /\ e = B(card, m)
<1>5. \A card, m : m \in Int => Booking(B(card, m))
  OBVIOUS
<1> HIDE DEF n, B, Booking
<1>6. \E x, y : /\ Booking(x) /\ Booking(y)
                /\ Legs(a) = << >> \/ Legs(a) = <<x>> \/ Legs(a) = <<x, y>>
  BY <1>2, <1>3, <1>4, <1>5
<1>7. Booking(Legs(a)[i])
  BY <1>6
<1> QED
  BY <1>7 DEF Booking, B

\* A leg is no reversal, and the reversal of a leg takes back that leg.
LEMMA UndoOfLeg ==
  ASSUME AmendTypeOK, NEW a \in Amends, NEW i \in 1..Len(Legs(a)), pc[a] \in Undoing
  PROVE  /\ Legs(a)[i].op[2] = "book"
         /\ Undone(Undo(a, Legs(a)[i])) = Legs(a)[i]
<1>1. PICK card, m :
        m \in Int /\ Legs(a)[i] = [op |-> <<Name(a), "book">>, card |-> card, amount |-> m]
  BY LegIsBooking
<1>2. -(-m) = m
  BY <1>1
<1> QED
  BY <1>1, <1>2 DEF Undo, Undone

\* Nothing has been undone before the first step.
LEMMA InitUndo == Init => AmendTypeOK /\ UndoInv
<1> SUFFICES ASSUME Init PROVE AmendTypeOK /\ UndoInv
  OBVIOUS
<1>1. AmendTypeOK
  BY DEF Init, AmendTypeOK, Places
<1>2. booked = {} /\ inflight = {}
  BY DEF Init, LedgerInit
<1>3. \A a \in Amends : done[a] = 0 /\ pc[a] = "idle" /\ Len(Legs(a)) \in Nat
  BY <1>1, LegsAreSequence DEF Init
<1> QED
  BY <1>1, <1>2, <1>3 DEF UndoInv, Undoing

-----------------------------------------------------------------------------
(***************************************************************************)
(* Steps.                                                                  *)
(***************************************************************************)

\* Every step of an amendment, its marker or an operator keeps the types.
LEMMA NextAmendType == AmendTypeOK /\ UndoInv /\ [Next]_vars => AmendTypeOK'
<1> SUFFICES ASSUME AmendTypeOK, UndoInv, [Next]_vars PROVE AmendTypeOK'
  OBVIOUS
<1> USE DEF AmendTypeOK
<1>1. CASE UNCHANGED vars
  BY <1>1 DEF vars, row
<1>2. ASSUME NEW a \in Amends, Read(a) PROVE AmendTypeOK'
  BY <1>2 DEF Read, Goto, OldAmount, row, Places, Over
<1>3. ASSUME NEW a \in Amends, BookLeg(a) PROVE AmendTypeOK'
  <2>1. done' \in [Amends -> Nat]
    BY <1>3 DEF BookLeg
  <2>2. \E place \in Places : pc' = [pc EXCEPT ![a] = place]
    BY <1>3, Zenon DEF BookLeg, Goto, AfterLegs, Places
  <2> QED
    BY <1>3, <2>1, <2>2 DEF BookLeg, row
<1>4. ASSUME NEW a \in Amends, SkipLegs(a) PROVE AmendTypeOK'
  BY <1>4 DEF SkipLegs, Goto, AfterLegs, row, Places, Over
<1>5. ASSUME NEW a \in Amends, WriteRow(a) PROVE AmendTypeOK'
  BY <1>5 DEF WriteRow, Unwind, Goto, Places, Over
<1>6. ASSUME NEW a \in Amends, WriteSuccess(a) PROVE AmendTypeOK'
  BY <1>6 DEF WriteSuccess, Unwind, Goto, Places, Over
<1>7. ASSUME NEW a \in Amends, UndoLegs(a) PROVE AmendTypeOK'
  <2>1. done[a] > 0
    BY <1>7 DEF UndoLegs, UndoInv, Undoing
  <2>2. done' \in [Amends -> Nat]
    BY <1>7, <2>1 DEF UndoLegs
  <2>3. \E place \in Places \cup Over : pc' = [pc EXCEPT ![a] = place]
    BY <1>7, Zenon DEF UndoLegs, Goto, AfterUndo, Places, Over
  <2> QED
    BY <1>7, <2>2, <2>3 DEF UndoLegs, row
<1>8. ASSUME NEW a \in Amends, RestoreAmount(a) PROVE AmendTypeOK'
  BY <1>8 DEF RestoreAmount, Goto, Places, Over
<1>9. ASSUME NEW a \in Amends, LaunchMarker(a) \/ RunMarker(a) \/ Crash(a) PROVE AmendTypeOK'
  BY <1>9 DEF LaunchMarker, RunMarker, Crash, Goto, row, Places, Over
<1>10. CASE Trash \/ Restore \/ Delete
  BY <1>10 DEF Trash, Restore, Delete
<1>11. ASSUME NEW e \in inflight, ArriveLate(e) PROVE AmendTypeOK'
  BY <1>11 DEF ArriveLate, row
<1> QED
  BY <1>1, <1>2, <1>3, <1>4, <1>5, <1>6, <1>7, <1>8, <1>9, <1>10, <1>11 DEF Next

\* What can be booked or left in flight by one call of the saldo service.
LEMMA Booking ==
  ASSUME NEW e, Succeeds(e) \/ Fails(e) \/ Arrive(e)
  PROVE  /\ booked \subseteq booked' /\ booked' \subseteq booked \cup {e}
         /\ inflight' \subseteq inflight \cup {e}
         /\ Succeeds(e) => e \in booked'
         /\ Arrive(e) => e \in inflight
BY DEF Succeeds, Fails, Arrive, Executes, ledger

\* What an amendment undoes it has booked before, step by step.
LEMMA NextUndo == AmendTypeOK /\ UndoInv /\ [Next]_vars => UndoInv'
<1> SUFFICES ASSUME AmendTypeOK, UndoInv, [Next]_vars PROVE UndoInv'
  OBVIOUS
<1> DEFINE Handler(b) == /\ done[b] <= Len(Legs(b))
                         /\ \A i \in 1..done[b] : Legs(b)[i] \in booked
                         /\ pc[b] = "idle" => done[b] = 0
                         /\ pc[b] \in Undoing => done[b] > 0
           Reversals == \A e \in booked \cup inflight :
                          e.op[2] # "book" => Undone(e) \in booked
           Kept(b) == /\ done'[b] = done[b] /\ old'[b] = old[b]
                      /\ pc'[b] = "idle" => pc[b] = "idle"
                      /\ pc'[b] \in Undoing => pc[b] \in Undoing \/ done[b] > 0
<1>1. Reversals /\ \A b \in Amends : Handler(b)
  BY DEF UndoInv
<1>2. Reversals' /\ (\A b \in Amends : Handler(b)') => UndoInv'
  BY DEF UndoInv
<1>3. UNCHANGED <<service, target>>
  BY DEF Next, vars, Read, BookLeg, SkipLegs, WriteRow, WriteSuccess, UndoLegs, RestoreAmount,
         LaunchMarker, RunMarker, Crash, Trash, Restore, Delete, ArriveLate
<1>4. \A b \in Amends : old'[b] = old[b] => Legs(b)' = Legs(b)
  BY <1>3 DEF Legs, Name, Diff
<1>5. ASSUME NEW b \in Amends, Kept(b), booked \subseteq booked' PROVE Handler(b)'
  BY <1>1, <1>4, <1>5
<1>6. ASSUME NEW e, e \in inflight \/ e.op[2] = "book" \/ Undone(e) \in booked,
             booked \subseteq booked', booked' \subseteq booked \cup {e},
             inflight' \subseteq inflight \cup {e}
      PROVE  Reversals'
  <2>1. Undone(e)' = Undone(e) /\ \A f : Undone(f)' = Undone(f)
    BY DEF Undone
  <2> QED
    BY <1>1, <1>6, <2>1
<1> HIDE DEF Handler, Reversals
<1>7. CASE UNCHANGED <<pc, old, done, ledger>>
  <2>1. \A b \in Amends : Handler(b)'
    BY <1>5, <1>7 DEF ledger
  <2>2. Reversals'
    BY <1>1, <1>7 DEF Reversals, ledger, Undone
  <2> QED
    BY <1>2, <2>1, <2>2
<1>8. ASSUME NEW a \in Amends, Read(a) PROVE UndoInv'
  <2>1. service' \in {"withdraw", "topup", "transaction", "transfer"}
    BY <1>3, Facts DEF AmendTypeOK
  <2>2. Len(Legs(a)') \in Nat
    BY <2>1 DEF Legs
  <2>3. /\ UNCHANGED <<done, booked, inflight>> /\ done[a] = 0
        /\ pc'[a] \notin Undoing
        /\ \A b \in Amends \ {a} : pc'[b] = pc[b] /\ old'[b] = old[b]
    BY <1>1, <1>8 DEF Read, Goto, Handler, Undoing, AmendTypeOK, ledger
  <2>4. Handler(a)'
    BY <2>2, <2>3 DEF Handler
  <2>5. \A b \in Amends \ {a} : Handler(b)'
    BY <1>5, <2>3
  <2>6. Reversals'
    BY <1>1, <2>3 DEF Reversals, Undone
  <2> QED
    BY <1>2, <2>4, <2>5, <2>6
<1>9. ASSUME NEW a \in Amends, BookLeg(a) PROVE UndoInv'
  <2> DEFINE e == Legs(a)[done[a] + 1]
  <2>1. /\ done[a] + 1 \in 1..Len(Legs(a)) /\ done[a] \in Nat
        /\ UNCHANGED old /\ pc[a] = "legs"
        /\ \A b \in Amends \ {a} : pc'[b] = pc[b] /\ done'[b] = done[b]
        /\ Succeeds(e) \/ Fails(e)
    BY <1>9, LegsAreSequence DEF BookLeg, Goto, AmendTypeOK
  <2>2. e.op[2] = "book"
    <3>1. PICK card, m : e = [op |-> <<Name(a), "book">>, card |-> card, amount |-> m]
      BY <2>1, LegIsBooking
    <3> QED
      BY <3>1
  <2>3. /\ booked \subseteq booked' /\ booked' \subseteq booked \cup {e}
        /\ inflight' \subseteq inflight \cup {e} /\ (Succeeds(e) => e \in booked')
    BY <2>1, Booking
  <2>4. Reversals'
    BY <1>6, <2>2, <2>3
  <2>5. \A b \in Amends \ {a} : Handler(b)'
    BY <1>5, <2>1, <2>3
  <2>6. ASSUME Succeeds(e), done' = [done EXCEPT ![a] = @ + 1],
               pc' = [pc EXCEPT ![a] = AfterLegs(a, done[a] + 1)]
        PROVE  Handler(a)'
    <3>1. e \in booked' /\ done'[a] = done[a] + 1 /\ pc'[a] \in {"legs", "status", "row"}
      BY <2>3, <2>6 DEF AmendTypeOK, AfterLegs
    <3>2. Legs(a)' = Legs(a) /\ \A i \in 1..done[a] : Legs(a)[i] \in booked'
      BY <1>1, <1>4, <2>1, <2>3 DEF Handler
    <3>3. \A i \in 1..(done[a] + 1) : i \in 1..done[a] \/ i = done[a] + 1
      BY <2>1
    <3>4. \A i \in 1..(done[a] + 1) : Legs(a)[i] \in booked'
      BY <3>1, <3>2, <3>3
    <3>5. done'[a] <= Len(Legs(a)')
      BY <2>1, <3>1, <3>2
    <3> QED
      BY <3>1, <3>2, <3>4, <3>5 DEF Handler, Undoing
  <2>7. ASSUME UNCHANGED done, Goto(a, IF RowFirst THEN "restore"
                                       ELSE IF done[a] = 0 THEN "mark" ELSE "undoLeg")
        PROVE  Handler(a)'
    <3>1. pc'[a] # "idle" /\ (pc'[a] \in Undoing => done[a] > 0)
      BY <2>1, <2>7 DEF Goto, AmendTypeOK, Undoing
    <3>2. Kept(a)
      BY <2>1, <2>7, <3>1
    <3> QED
      BY <1>5, <2>3, <3>2
  <2>8. Handler(a)'
    <3>1. \/ /\ Succeeds(e) /\ done' = [done EXCEPT ![a] = @ + 1]
             /\ Goto(a, AfterLegs(a, done[a] + 1))
          \/ UNCHANGED done /\ Goto(a, IF RowFirst THEN "restore"
                                       ELSE IF done[a] = 0 THEN "mark" ELSE "undoLeg")
      BY <1>9, Zenon DEF BookLeg
    <3> QED
      BY <2>6, <2>7, <3>1, Zenon DEF Goto
  <2> QED
    BY <1>2, <2>4, <2>5, <2>8
<1>10. ASSUME NEW a \in Amends, UndoLegs(a) PROVE UndoInv'
  <2> DEFINE e == Legs(a)[done[a]]
  <2>1. /\ done[a] \in 1..Len(Legs(a)) /\ done[a] \in Nat
        /\ UNCHANGED old /\ pc[a] \in Undoing
        /\ done' = [done EXCEPT ![a] = @ - 1]
        /\ Succeeds(Undo(a, e)) \/ Fails(Undo(a, e))
    BY <1>1, <1>10, LegsAreSequence DEF UndoLegs, LegToUndo, Handler, Undoing, AmendTypeOK
  <2>2. \A b \in Amends \ {a} : pc'[b] = pc[b] /\ done'[b] = done[b]
    BY <1>10 DEF UndoLegs, Goto, AmendTypeOK
  <2>3. Undone(Undo(a, e)) \in booked
    BY <1>1, <2>1, UndoOfLeg DEF Handler
  <2>4. /\ booked \subseteq booked' /\ booked' \subseteq booked \cup {Undo(a, e)}
        /\ inflight' \subseteq inflight \cup {Undo(a, e)}
    BY <2>1, Booking
  <2>5. Reversals'
    BY <1>6, <2>3, <2>4
  <2>6. \A b \in Amends \ {a} : Handler(b)'
    BY <1>5, <2>1, <2>2, <2>4
  <2>7. pc'[a] # "idle" /\ (pc'[a] \in Undoing => done[a] > 1)
    BY <1>10, <2>1 DEF UndoLegs, Goto, AfterUndo, AmendTypeOK, Undoing
  <2>8. Handler(a)'
    <3>1. done'[a] = done[a] - 1 /\ Legs(a)' = Legs(a)
      BY <1>4, <2>1 DEF AmendTypeOK
    <3> QED
      BY <1>1, <2>1, <2>4, <2>7, <3>1 DEF Handler
  <2> QED
    BY <1>2, <2>5, <2>6, <2>8
<1>11. ASSUME NEW a \in Amends,
              \/ SkipLegs(a) \/ WriteRow(a) \/ WriteSuccess(a) \/ RestoreAmount(a)
              \/ LaunchMarker(a) \/ Crash(a)
       PROVE  UndoInv'
  <2>1. UNCHANGED <<done, old, booked, inflight>>
    BY <1>11 DEF SkipLegs, WriteRow, WriteSuccess, RestoreAmount, LaunchMarker, Crash, ledger
  <2>2. \A b \in Amends \ {a} : pc'[b] = pc[b]
    BY <1>11 DEF SkipLegs, WriteRow, WriteSuccess, RestoreAmount, LaunchMarker, Crash,
                 Goto, Unwind, AmendTypeOK
  <2>3. pc'[a] # "idle" /\ (pc'[a] \in Undoing => done[a] > 0)
    BY <1>11 DEF SkipLegs, WriteRow, WriteSuccess, RestoreAmount, LaunchMarker, Crash,
                 Goto, Unwind, AfterLegs, AmendTypeOK, Undoing
  <2>4. \A b \in Amends : Handler(b)'
    BY <1>5, <2>1, <2>2, <2>3
  <2>5. Reversals'
    BY <1>1, <2>1 DEF Reversals, Undone
  <2> QED
    BY <1>2, <2>4, <2>5
<1>12. ASSUME NEW e \in inflight, ArriveLate(e) PROVE UndoInv'
  <2>1. /\ UNCHANGED <<pc, old, done>>
        /\ booked \subseteq booked' /\ booked' \subseteq booked \cup {e}
        /\ inflight' \subseteq inflight \cup {e}
    BY <1>12, Booking DEF ArriveLate
  <2>2. \A b \in Amends : Handler(b)'
    BY <1>5, <2>1
  <2>3. Reversals'
    BY <1>6, <2>1
  <2> QED
    BY <1>2, <2>2, <2>3
<1>13. ASSUME NEW a \in Amends, RunMarker(a) PROVE UNCHANGED <<pc, old, done, ledger>>
  BY <1>13 DEF RunMarker
<1>14. (Trash \/ Restore \/ Delete \/ UNCHANGED vars) => UNCHANGED <<pc, old, done, ledger>>
  BY DEF Trash, Restore, Delete, vars
<1> QED
  BY <1>7, <1>8, <1>9, <1>10, <1>11, <1>12, <1>13, <1>14 DEF Next

-----------------------------------------------------------------------------

\* Whatever fails, is late or is amended at the same time, an amendment takes
\* back only what is booked: UndoLegs is entered with something to undo, and
\* what a handler counts as booked never leaves the ledger.
THEOREM OnlyBookedUndone == Spec => []OnlyBookedIsUndone
<1>1. UndoInv => OnlyBookedIsUndone
  BY DEF UndoInv, Undone, OnlyBookedIsUndone
<1> QED
  BY <1>1, InitUndo, NextAmendType, NextUndo, PTL DEF Spec
-----------------------------------------------------------------------------
(***************************************************************************)
(* Amendments that add up.                                                 *)
(***************************************************************************)

Going == {"legs", "row", "status", "ok"}

\* So far every amendment goes on, with operation ids and an old amount of its own.
Clean == /\ \A a \in Ran : pc[a] \in Going /\ Fresh(a)
         /\ \A a, b \in Ran : a # b => old[a] # old[b]

\* An amendment that is still to write its row or to book its legs.
Open(a) == pc[a] \in {"legs", "row"}

\* What the first n legs of an amendment take from the payer.
Taken(a, n) == IF n = 0 THEN 0
               ELSE IF service = "transaction" /\ n = 1 THEN -old[a] ELSE Diff(a)

\* A topup's row is written before its leg is booked.
Early(a) == RowFirst /\ pc[a] = "legs"

Shape(a) ==
  /\ pc[a] = "legs" => (done[a] = 0 /\ Legs(a) = << >>) \/ done[a] < Len(Legs(a))
  /\ pc[a] \in {"row", "status", "ok"} =>
       done[a] = IF RowFirst /\ pc[a] = "row" THEN 0 ELSE Len(Legs(a))

\* The one open amendment is as far ahead of the row as its legs have taken.
OpenRow(a) ==
  /\ \A b \in Ran : Open(b) => b = a
  /\ amount = IF Early(a) THEN target[a] ELSE old[a]
  /\ Paid = amount - original + Taken(a, done[a]) - (IF Early(a) THEN Diff(a) ELSE 0)

CleanInv ==
  Clean => /\ inflight = {} /\ IsFiniteSet(booked)
           /\ \A e \in booked : \E a \in Ran : \E i \in 1..done[a] : e = Legs(a)[i]
           /\ \A a \in Ran : Shape(a)
           /\ \A a \in Ran : Open(a) => OpenRow(a)
           /\ (\A a \in Ran : ~Open(a)) => Paid = amount - original

\* The legs of an amendment, service by service.
LEMMA LegsAre ==
  ASSUME AmendTypeOK, NEW a \in Amends
  PROVE  LET B(card, m) == [op |-> <<Name(a), "book">>, card |-> card, amount |-> m]
             n == Diff(a)
         IN /\ old[a] \in Nat \ {0} /\ target[a] \in Nat \ {0} /\ n \in Int
            /\ n = target[a] - old[a]
            /\ \/ service = "transaction" /\ Legs(a) = <<B(Payer, old[a]), B(Payer, -target[a])>>
               \/ service # "transaction" /\ n = 0 /\ Legs(a) = << >>
               \/ service = "withdraw" /\ n # 0 /\ Legs(a) = <<B(Payer, -n)>>
               \/ service = "topup" /\ n # 0 /\ Legs(a) = <<B(Payer, n)>>
               \/ service = "transfer" /\ n # 0 /\ Legs(a) = <<B(Payer, -n), B(Receiver, n)>>
<1>1. service \in {"withdraw", "topup", "transaction", "transfer"}
  BY Facts DEF AmendTypeOK
<1>2. old[a] \in Nat \ {0} /\ target[a] \in Nat \ {0}
  BY AmendAssumption DEF AmendTypeOK, AmendAssumption
<1> QED
  BY <1>1, <1>2 DEF Legs, Credit, Diff

\* How much a leg takes from the payer.
Part(e) == IF e.card # Payer THEN 0 ELSE IF service = "topup" THEN e.amount ELSE -e.amount

\* The next leg of an amendment is none of its earlier ones and takes the next
\* part of the difference; all legs together take the difference.
LEMMA NextLeg ==
  ASSUME AmendTypeOK, NEW a \in Amends
  PROVE  /\ Len(Legs(a)) \in Nat
         /\ Taken(a, Len(Legs(a))) = Diff(a)
         /\ RowFirst => Len(Legs(a)) <= 1
         /\ \A n \in Nat : n < Len(Legs(a)) =>
              LET e == Legs(a)[n + 1]
              IN /\ e.op = <<Name(a), "book">> /\ e.amount \in Int
                 /\ \A i \in 1..n : Legs(a)[i] # e
                 /\ Taken(a, n + 1) = Taken(a, n) + Part(e) /\ Taken(a, n) \in Int
<1> DEFINE B(card, m) == [op |-> <<Name(a), "book">>, card |-> card, amount |-> m]
           d == Diff(a)
<1>1. old[a] \in Nat \ {0} /\ target[a] \in Nat \ {0} /\ d \in Int /\ d = target[a] - old[a]
  BY LegsAre
<1>2. CASE service = "transaction" /\ Legs(a) = <<B(Payer, old[a]), B(Payer, -target[a])>>
  <2>1. /\ Len(Legs(a)) = 2
        /\ Legs(a)[1] = B(Payer, old[a]) /\ Legs(a)[2] = B(Payer, -target[a])
    BY <1>2
  <2>2. \A n \in Nat : n < 2 => n \in {0, 1}
    OBVIOUS
  <2>3. Legs(a)[1] # Legs(a)[2]
    BY <1>1, <2>1
  <2>4. Part(Legs(a)[1]) = -old[a] /\ Part(Legs(a)[2]) = target[a]
    BY <1>1, <1>2, <2>1 DEF Part
  <2>5. Taken(a, 0) = 0 /\ Taken(a, 1) = -old[a] /\ Taken(a, 2) = d
    BY <1>2 DEF Taken
  <2> HIDE DEF d
  <2> QED
    BY <1>1, <1>2, <2>1, <2>2, <2>3, <2>4, <2>5 DEF RowFirst, d
<1>3. CASE service # "transaction" /\ d = 0 /\ Legs(a) = << >>
  BY <1>3 DEF Taken
<1>4. CASE service = "withdraw" /\ d # 0 /\ Legs(a) = <<B(Payer, -d)>>
  <2>1. Len(Legs(a)) = 1 /\ Legs(a)[1] = B(Payer, -d)
    BY <1>4
  <2>2. \A n \in Nat : n < 1 => n = 0
    OBVIOUS
  <2>3. Part(Legs(a)[1]) = d
    BY <1>1, <1>4, <2>1 DEF Part
  <2>4. Taken(a, 0) = 0 /\ Taken(a, 1) = d
    BY <1>4 DEF Taken
  <2> QED
    BY <1>1, <1>4, <2>1, <2>2, <2>3, <2>4 DEF RowFirst
<1>5. CASE service = "topup" /\ d # 0 /\ Legs(a) = <<B(Payer, d)>>
  <2>1. Len(Legs(a)) = 1 /\ Legs(a)[1] = B(Payer, d)
    BY <1>5
  <2>2. \A n \in Nat : n < 1 => n = 0
    OBVIOUS
  <2>3. Part(Legs(a)[1]) = d
    BY <1>1, <1>5, <2>1 DEF Part
  <2>4. Taken(a, 0) = 0 /\ Taken(a, 1) = d
    BY <1>5 DEF Taken
  <2> QED
    BY <1>1, <1>5, <2>1, <2>2, <2>3, <2>4 DEF RowFirst
<1>6. CASE service = "transfer" /\ d # 0 /\ Legs(a) = <<B(Payer, -d), B(Receiver, d)>>
  <2>1. Len(Legs(a)) = 2 /\ Legs(a)[1] = B(Payer, -d) /\ Legs(a)[2] = B(Receiver, d)
    BY <1>6
  <2>2. \A n \in Nat : n < 2 => n \in {0, 1}
    OBVIOUS
  <2>3. Legs(a)[1] # Legs(a)[2] /\ Receiver # Payer
    BY <2>1, AmendAssumption DEF AmendAssumption
  <2>4. Part(Legs(a)[1]) = d /\ Part(Legs(a)[2]) = 0
    BY <1>1, <1>6, <2>1, <2>3 DEF Part
  <2>5. Taken(a, 0) = 0 /\ Taken(a, 1) = d /\ Taken(a, 2) = d
    BY <1>6 DEF Taken
  <2> QED
    BY <1>1, <1>6, <2>1, <2>2, <2>3, <2>4, <2>5 DEF RowFirst
<1> QED
  BY <1>2, <1>3, <1>4, <1>5, <1>6, LegsAre

\* A new booking changes what the payer has paid by its part.
LEMMA PaidGrows ==
  ASSUME IsFiniteSet(booked), \A e \in booked : e.amount \in Int, UNCHANGED service,
         NEW e, e.amount \in Int, e \notin booked, booked' = booked \cup {e}
  PROVE  IsFiniteSet(booked') /\ Paid \in Int /\ Paid' = Paid + Part(e)
<1> DEFINE f == [x \in booked |-> x.amount]
           g == [x \in booked' |-> x.amount]
           S == {x \in booked : x.card = Payer}
           T == {x \in booked' : x.card = Payer}
<1>1. \A x \in S : f[x] \in Int /\ g[x] = f[x]
  OBVIOUS
<1>2. \A x \in T : g[x] \in Int
  OBVIOUS
<1>3. e \in T => g[e] = e.amount
  OBVIOUS
<1>4. S \subseteq booked /\ e \notin S
  OBVIOUS
<1>5. T = IF e.card = Payer THEN S \cup {e} ELSE S
  OBVIOUS
<1>6. /\ Paid = IF service = "topup" THEN SumFunctionOnSet(f, S) ELSE -SumFunctionOnSet(f, S)
      /\ Paid' = IF service = "topup" THEN SumFunctionOnSet(g, T) ELSE -SumFunctionOnSet(g, T)
  BY DEF Paid
<1>7. IsFiniteSet(booked') /\ IsFiniteSet(S)
  BY <1>4, FS_AddElement, FS_Subset
<1> HIDE DEF f, g, S, T
<1>8. SumFunctionOnSet(f, S) \in Int /\ SumFunctionOnSet(g, S) = SumFunctionOnSet(f, S)
  BY <1>1, <1>7, SumType, SumCongruent
<1>9. CASE e.card = Payer
  <2>1. \A x \in S \cup {e} : g[x] \in Int
    BY <1>2, <1>5, <1>9
  <2>2. SumFunctionOnSet(g, S \cup {e}) = g[e] + SumFunctionOnSet(g, S)
    BY <1>4, <1>7, <2>1, SumAdd
  <2>3. g[e] = e.amount /\ SumFunctionOnSet(g, T) = e.amount + SumFunctionOnSet(f, S)
    BY <1>3, <1>5, <1>8, <1>9, <2>2
  <2> QED
    BY <1>6, <1>7, <1>8, <1>9, <2>3 DEF Part
<1>10. CASE e.card # Payer
  BY <1>5, <1>6, <1>7, <1>8, <1>10 DEF Part
<1> QED
  BY <1>9, <1>10

\* An amendment that has started never starts again, keeps the amount it read,
\* and one that has failed does not go on.
LEMMA Steady ==
  ASSUME AmendTypeOK, [Next]_vars, NEW b \in Amends, pc[b] # "idle"
  PROVE  pc'[b] # "idle" /\ old'[b] = old[b] /\ (pc'[b] \in Going => pc[b] \in Going)
<1> USE DEF Going, AmendTypeOK
<1>1. ASSUME UNCHANGED <<pc, old>>
      PROVE  pc'[b] # "idle" /\ old'[b] = old[b] /\ (pc'[b] \in Going => pc[b] \in Going)
  BY <1>1
<1>2. ASSUME NEW a \in Amends, Read(a)
      PROVE  pc'[b] # "idle" /\ old'[b] = old[b] /\ (pc'[b] \in Going => pc[b] \in Going)
  BY <1>2 DEF Read, Goto
<1>3. ASSUME NEW a \in Amends, BookLeg(a) \/ SkipLegs(a)
      PROVE  pc'[b] # "idle" /\ old'[b] = old[b] /\ (pc'[b] \in Going => pc[b] \in Going)
  <2>1. UNCHANGED old /\ pc[a] = "legs"
    BY <1>3 DEF BookLeg, SkipLegs
  <2>2. \E place \in Places \ {"idle"} : pc' = [pc EXCEPT ![a] = place]
    BY <1>3, Zenon DEF BookLeg, SkipLegs, Goto, AfterLegs, Places
  <2> QED
    BY <2>1, <2>2
<1>4. ASSUME NEW a \in Amends, WriteRow(a) \/ WriteSuccess(a)
      PROVE  pc'[b] # "idle" /\ old'[b] = old[b] /\ (pc'[b] \in Going => pc[b] \in Going)
  BY <1>4 DEF WriteRow, WriteSuccess, Unwind, Goto
<1>5. ASSUME NEW a \in Amends, UndoLegs(a)
      PROVE  pc'[b] # "idle" /\ old'[b] = old[b] /\ (pc'[b] \in Going => pc[b] \in Going)
  BY <1>5 DEF UndoLegs, AfterUndo, Goto
<1>6. ASSUME NEW a \in Amends, RestoreAmount(a) \/ LaunchMarker(a) \/ Crash(a)
      PROVE  pc'[b] # "idle" /\ old'[b] = old[b] /\ (pc'[b] \in Going => pc[b] \in Going)
  BY <1>6 DEF RestoreAmount, LaunchMarker, Crash, Goto
<1>7. ASSUME NEW a \in Amends, RunMarker(a) PROVE UNCHANGED <<pc, old>>
  BY <1>7 DEF RunMarker
<1>8. ASSUME NEW e \in inflight, ArriveLate(e) PROVE UNCHANGED <<pc, old>>
  BY <1>8 DEF ArriveLate
<1>9. (Trash \/ Restore \/ Delete \/ UNCHANGED vars) => UNCHANGED <<pc, old>>
  BY DEF Trash, Restore, Delete, vars
<1> QED
  BY <1>1, <1>2, <1>3, <1>4, <1>5, <1>6, <1>7, <1>8, <1>9 DEF Next

\* The row's service and what is asked of it never change.
LEMMA Fixed == [Next]_vars => UNCHANGED <<service, target, original>>
BY DEF Next, vars, Read, BookLeg, SkipLegs, WriteRow, WriteSuccess, UndoLegs, RestoreAmount,
       LaunchMarker, RunMarker, Crash, Trash, Restore, Delete, ArriveLate

\* What went wrong once stays so: a run that is clean has always been.
LEMMA CleanBack ==
  ASSUME AmendTypeOK, [Next]_vars, Clean'
  PROVE  Clean
<1>1. Ran \subseteq Ran' /\ \A b \in Amends : Name(b)' = Name(b)
  BY Fixed, Steady DEF Ran, Name
<1>2. \A b \in Ran : b \in Amends /\ old'[b] = old[b] /\ (pc'[b] \in Going => pc[b] \in Going)
  BY Steady DEF Ran
<1>3. \A b \in Ran : pc[b] \in Going
  BY <1>1, <1>2 DEF Clean
<1>4. ASSUME NEW a \in Ran PROVE Fresh(a)
  <2>1. Fresh(a)'
    BY <1>1, <1>4 DEF Clean
  <2>2. \A b \in Ran' \ {a} : Name(b)' # Name(a)'
    BY <2>1 DEF Fresh
  <2> QED
    BY <1>1, <1>2, <2>2 DEF Fresh
<1>5. \A a, b \in Ran : a # b => old[a] # old[b]
  BY <1>1, <1>2 DEF Clean
<1> QED
  BY <1>3, <1>4, <1>5 DEF Clean
\* The entries of a clean run are legs, so their amounts are integers, and the
\* next leg of an amendment is not one of them.
LEMMA LegIsNew ==
  ASSUME AmendTypeOK, Clean, NEW a \in Ran, NEW n \in Nat, n = done[a], n < Len(Legs(a)),
         \A b \in Ran : done[b] <= Len(Legs(b)),
         \A e \in booked : \E b \in Ran : \E i \in 1..done[b] : e = Legs(b)[i]
  PROVE  Legs(a)[n + 1] \notin booked /\ \A e \in booked : e.amount \in Int
<1> DEFINE l == Legs(a)[n + 1]
<1>1. a \in Amends /\ \A b \in Ran : b \in Amends
  BY DEF Ran
<1>2. l.op = <<Name(a), "book">> /\ \A i \in 1..n : Legs(a)[i] # l
  BY <1>1, NextLeg
<1>3. ASSUME NEW b \in Ran, NEW i \in 1..done[b]
      PROVE  /\ Legs(b)[i].amount \in Int /\ Legs(b)[i].op = <<Name(b), "book">>
  <2>1. Len(Legs(b)) \in Nat /\ done[b] <= Len(Legs(b)) /\ done[b] \in Nat
    BY <1>1, LegsAreSequence DEF AmendTypeOK
  <2>2. i \in 1..Len(Legs(b)) /\ b \in Amends
    BY <1>1, <2>1
  <2>3. PICK card, m :
          m \in Int /\ Legs(b)[i] = [op |-> <<Name(b), "book">>, card |-> card, amount |-> m]
    BY <2>2, LegIsBooking
  <2> QED
    BY <2>3
<1>4. \A b \in Ran : b # a => Name(b) # Name(a)
  BY DEF Clean, Fresh
<1> HIDE DEF l
<1>5. ASSUME NEW e \in booked PROVE e.amount \in Int /\ e # l
  <2>1. PICK b \in Ran : \E i \in 1..done[b] : e = Legs(b)[i]
    BY <1>5
  <2>2. PICK i \in 1..done[b] : e = Legs(b)[i]
    BY <2>1
  <2>3. e.amount \in Int /\ e.op = <<Name(b), "book">>
    BY <1>3, <2>2
  <2>4. CASE b = a
    BY <1>2, <2>2, <2>3, <2>4
  <2>5. CASE b # a
    BY <1>2, <1>4, <2>3, <2>5
  <2> QED
    BY <2>3, <2>4, <2>5
<1> QED
  BY <1>5 DEF l

\* The parts of CleanInv for a clean state.
CleanFacts ==
  /\ inflight = {} /\ IsFiniteSet(booked)
  /\ \A e \in booked : \E a \in Ran : \E i \in 1..done[a] : e = Legs(a)[i]
  /\ \A a \in Ran : Shape(a)
  /\ \A a \in Ran : Open(a) => OpenRow(a)
  /\ (\A a \in Ran : ~Open(a)) => Paid = amount - original

\* A step of an amendment that leaves the ledger and every old amount alone
\* keeps the entries where they are.
LEMMA EntriesStay ==
  ASSUME CleanFacts, UNCHANGED <<service, target, original, ledger, done>>,
         Ran \subseteq Ran', \A b \in Ran : old'[b] = old[b]
  PROVE  /\ inflight' = {} /\ IsFiniteSet(booked') /\ Paid' = Paid
         /\ \A b \in Ran : Legs(b)' = Legs(b) /\ \A n : Taken(b, n)' = Taken(b, n)
         /\ \A b \in Ran : Diff(b)' = Diff(b)
         /\ (\A e \in booked : \E a \in Ran : \E i \in 1..done[a] : e = Legs(a)[i])'
<1>1. inflight' = {} /\ IsFiniteSet(booked') /\ Paid' = Paid
  BY DEF CleanFacts, ledger, Paid
<1>2. \A b \in Ran : Diff(b)' = Diff(b) /\ Name(b)' = Name(b)
  BY DEF Diff, Name
<1>3. \A b \in Ran : Legs(b)' = Legs(b)
  BY <1>2 DEF Legs
<1>4. \A b \in Ran : \A n : Taken(b, n)' = Taken(b, n)
  BY <1>2 DEF Taken
<1>5. ASSUME NEW e \in booked'
      PROVE  \E a \in Ran' : \E i \in 1..done'[a] : e = Legs(a)'[i]
  <2>1. PICK a \in Ran : \E i \in 1..done[a] : e = Legs(a)[i]
    BY <1>5 DEF CleanFacts, ledger
  <2> QED
    BY <1>3, <2>1
<1> QED
  BY <1>1, <1>2, <1>3, <1>4, <1>5

\* An amendment that starts reads an amount no other has read, so none is open.
LEMMA ReadClean ==
  ASSUME AmendTypeOK, UndoInv, Clean, Clean', CleanFacts, NEW a \in Amends, Read(a)
  PROVE  CleanFacts'
<1>1. pc[a] = "idle" /\ a \notin Ran /\ done[a] = 0
  BY DEF Read, Ran, UndoInv
<1>2. \/ /\ old' = [old EXCEPT ![a] = amount]
         /\ pc' = [pc EXCEPT ![a] = IF RowFirst THEN "row" ELSE "legs"]
      \/ pc' = [pc EXCEPT ![a] = "mark"] \/ pc' = [pc EXCEPT ![a] = "error"]
  BY DEF Read, Goto, OldAmount
<1>3. UNCHANGED <<service, target, original, ledger, done, amount>>
  BY DEF Read, row
<1>4. Ran' = Ran \cup {a} /\ \A b \in Ran : b # a /\ pc'[b] = pc[b]
  BY <1>1, <1>2 DEF Ran, AmendTypeOK
<1>5. pc'[a] \in Going
  BY <1>4 DEF Clean
<1>6. /\ old' = [old EXCEPT ![a] = amount]
      /\ pc'[a] = IF RowFirst THEN "row" ELSE "legs"
  BY <1>2, <1>5 DEF Going, AmendTypeOK
<1>7. old'[a] = amount /\ \A b \in Ran : old'[b] = old[b]
  BY <1>4, <1>6 DEF AmendTypeOK
<1>8. ASSUME NEW b \in Ran, Open(b) PROVE FALSE
  <2>1. OpenRow(b)
    BY <1>8 DEF CleanFacts
  <2>2. CASE RowFirst
    <3>1. Name(b)' = Name(a)' /\ a # b
      BY <1>3, <1>4, <2>2 DEF Name, RowFirst
    <3>2. Fresh(a)' /\ b \in Ran'
      BY <1>4 DEF Clean
    <3> QED
      BY <3>1, <3>2 DEF Fresh
  <2>3. CASE ~RowFirst
    <3>1. old'[a] = old'[b]
      BY <1>7, <1>8, <2>1, <2>3 DEF OpenRow, Early
    <3> QED
      BY <1>4, <3>1 DEF Clean
  <2> QED
    BY <2>2, <2>3
<1>9. Paid = amount - original
  BY <1>8 DEF CleanFacts
<1>10. /\ inflight' = {} /\ IsFiniteSet(booked') /\ Paid' = Paid
       /\ \A b \in Ran : Legs(b)' = Legs(b)
       /\ (\A e \in booked : \E b \in Ran : \E i \in 1..done[b] : e = Legs(b)[i])'
  BY <1>3, <1>4, <1>7, EntriesStay
<1>11. RowFirst' = RowFirst /\ done' = done
  BY <1>3 DEF RowFirst
<1>12. \A b \in Ran : Shape(b)'
  BY <1>4, <1>10, <1>11 DEF CleanFacts, Shape
<1>13. Shape(a)'
  <2>1. service' \in {"withdraw", "topup", "transaction", "transfer"}
    BY <1>3, Facts DEF AmendTypeOK
  <2>2. Legs(a)' = << >> \/ Len(Legs(a)') > 0
    BY <2>1 DEF Legs
  <2> QED
    BY <1>1, <1>6, <1>11, <2>2 DEF Shape
<1>14. OpenRow(a)'
  <2>1. \A b \in Ran' : Open(b)' => b = a
    BY <1>4, <1>8 DEF Open
  <2>2. ~Early(a)'
    BY <1>6, <1>11 DEF Early
  <2>3. Taken(a, done[a])' = 0
    BY <1>1, <1>11 DEF Taken
  <2>4. amount' = old'[a] /\ amount' - original' \in Int
    BY <1>3, <1>7, Facts DEF AmendTypeOK
  <2>5. Paid' = amount' - original' + 0 - 0
    BY <1>3, <1>9, <1>10, <2>4
  <2> QED
    BY <2>1, <2>2, <2>3, <2>4, <2>5 DEF OpenRow
<1>15. \A b \in Ran' : Open(b)' => OpenRow(b)'
  BY <1>4, <1>8, <1>14 DEF Open
<1>16. Open(a)' /\ a \in Ran'
  BY <1>4, <1>6 DEF Open
<1> QED
  BY <1>4, <1>10, <1>12, <1>13, <1>15, <1>16 DEF CleanFacts

\* An amendment that goes on without booking: SkipLegs, WriteRow, WriteSuccess.
LEMMA MoveClean ==
  ASSUME AmendTypeOK, Clean, CleanFacts, NEW a \in Ran,
         UNCHANGED <<service, target, original, ledger, done, old>>,
         pc' = [pc EXCEPT ![a] = pc'[a]], pc'[a] \in Going, Shape(a)',
         Open(a)' => Open(a) /\ OpenRow(a)',
         ~Open(a)' /\ Open(a) => Paid = amount' - original,
         ~Open(a) => amount' = amount
  PROVE  CleanFacts'
<1>1. Ran' = Ran /\ a \in Amends
  BY DEF Ran, Going, AmendTypeOK
<1>2. \A b \in Ran \ {a} : pc'[b] = pc[b]
  BY DEF Ran, AmendTypeOK
<1>3. /\ inflight' = {} /\ IsFiniteSet(booked') /\ Paid' = Paid
      /\ \A b \in Ran : Legs(b)' = Legs(b) /\ \A n : Taken(b, n)' = Taken(b, n)
      /\ \A b \in Ran : Diff(b)' = Diff(b)
      /\ (\A e \in booked : \E b \in Ran : \E i \in 1..done[b] : e = Legs(b)[i])'
  BY <1>1, EntriesStay
<1>4. RowFirst' = RowFirst /\ done' = done
  BY DEF RowFirst
<1>5. \A b \in Ran' : Shape(b)'
  BY <1>1, <1>2, <1>3, <1>4 DEF CleanFacts, Shape
<1>6. ASSUME NEW b \in Ran', Open(b)' PROVE OpenRow(b)'
  <2>1. CASE b = a
    BY <1>6, <2>1
  <2>2. CASE b # a
    <3>1. Open(b) /\ OpenRow(b)
      BY <1>1, <1>2, <1>6, <2>2 DEF Open, CleanFacts
    <3>2. ~Open(a) /\ ~Open(a)' /\ amount' = amount
      BY <2>2, <3>1 DEF OpenRow
    <3>3. \A x \in Ran' : Open(x)' => x = b
      BY <1>1, <1>2, <3>1, <3>2 DEF OpenRow, Open
    <3>4. Early(b)' = Early(b)
      BY <1>1, <1>2, <1>4, <2>2 DEF Early
    <3>5. /\ amount = IF Early(b) THEN target[b] ELSE old[b]
          /\ Paid = amount - original + Taken(b, done[b]) - (IF Early(b) THEN Diff(b) ELSE 0)
      BY <3>1 DEF OpenRow
    <3>6. Taken(b, done[b])' = Taken(b, done[b]) /\ Diff(b)' = Diff(b)
      BY <1>1, <1>3
    <3>7. /\ amount' = IF Early(b)' THEN target'[b] ELSE old'[b]
          /\ Paid' = amount' - original' + Taken(b, done[b])' - (IF Early(b)' THEN Diff(b)' ELSE 0)
      BY <1>3, <3>2, <3>4, <3>5, <3>6
    <3> QED
      BY <3>3, <3>7 DEF OpenRow
  <2> QED
    BY <2>1, <2>2
<1>7. ASSUME \A b \in Ran' : ~Open(b)' PROVE Paid' = amount' - original'
  <2>1. ~Open(a)' /\ \A b \in Ran \ {a} : ~Open(b)
    BY <1>1, <1>2, <1>7 DEF Open
  <2>2. CASE Open(a)
    BY <1>3, <2>1, <2>2
  <2>3. CASE ~Open(a)
    BY <1>3, <2>1, <2>3 DEF CleanFacts
  <2> QED
    BY <2>2, <2>3
<1> QED
  BY <1>3, <1>5, <1>6, <1>7 DEF CleanFacts
\* A booked leg brings the payer's money as far as the amendment's legs have come.
LEMMA BookClean ==
  ASSUME AmendTypeOK, UndoInv, Clean, Clean', CleanFacts, NEW a \in Amends, BookLeg(a)
  PROVE  CleanFacts'
<1> DEFINE n == done[a]
           e == Legs(a)[n + 1]
<1>1. /\ pc[a] = "legs" /\ n \in Nat /\ n < Len(Legs(a)) /\ a \in Ran
      /\ UNCHANGED <<service, target, original, amount, old>>
  BY DEF BookLeg, Ran, row, AmendTypeOK
<1>2. \/ /\ Succeeds(e) /\ done' = [done EXCEPT ![a] = @ + 1]
         /\ pc' = [pc EXCEPT ![a] = AfterLegs(a, n + 1)]
      \/ pc' = [pc EXCEPT ![a] = IF RowFirst THEN "restore"
                                 ELSE IF done[a] = 0 THEN "mark" ELSE "undoLeg"]
  BY Zenon DEF BookLeg, Goto
<1>3. /\ Succeeds(e) /\ done' = [done EXCEPT ![a] = @ + 1]
      /\ pc' = [pc EXCEPT ![a] = AfterLegs(a, n + 1)]
  <2>1. pc'[a] # "idle" => pc'[a] \in Going
    BY DEF Clean, Ran
  <2> QED
    BY <1>1, <1>2, <2>1 DEF Going, AmendTypeOK
<1>4. /\ done'[a] = n + 1 /\ pc'[a] = AfterLegs(a, n + 1) /\ pc'[a] \in {"legs", "row", "status"}
      /\ \A b \in Ran \ {a} : done'[b] = done[b] /\ pc'[b] = pc[b]
      /\ Ran' = Ran
  BY <1>1, <1>3 DEF AfterLegs, Ran, AmendTypeOK
<1>5. /\ Taken(a, n + 1) = Taken(a, n) + Part(e) /\ Taken(a, n) \in Int /\ e.amount \in Int
      /\ Taken(a, Len(Legs(a))) = Diff(a) /\ Len(Legs(a)) \in Nat
      /\ RowFirst => Len(Legs(a)) <= 1
  BY <1>1, NextLeg
<1>6. e \notin booked /\ \A x \in booked : x.amount \in Int
  <2>1. \A b \in Ran : done[b] <= Len(Legs(b))
    BY DEF UndoInv, Ran
  <2> QED
    BY <1>1, <2>1, LegIsNew DEF CleanFacts
<1>7. booked' = booked \cup {e} /\ inflight' = inflight
  BY <1>3, <1>6 DEF Succeeds, Executes
<1>8. IsFiniteSet(booked') /\ Paid \in Int /\ Paid' = Paid + Part(e) /\ inflight' = {}
  <2>1. IsFiniteSet(booked) /\ inflight = {} /\ service' = service
    BY <1>1 DEF CleanFacts
  <2> HIDE DEF e
  <2> QED
    BY <1>5, <1>6, <1>7, <2>1, PaidGrows
<1>9. /\ \A b \in Amends : Legs(b)' = Legs(b) /\ Diff(b)' = Diff(b)
      /\ RowFirst' = RowFirst /\ \A b \in Amends : \A m : Taken(b, m)' = Taken(b, m)
  <2>1. \A b \in Amends : Diff(b)' = Diff(b) /\ Name(b)' = Name(b)
    BY <1>1 DEF Diff, Name
  <2>2. \A b \in Amends : Legs(b)' = Legs(b)
    BY <1>1, <2>1 DEF Legs
  <2>3. \A b \in Amends : \A m : Taken(b, m)' = Taken(b, m)
    BY <1>1, <2>1 DEF Taken
  <2> QED
    BY <1>1, <2>1, <2>2, <2>3 DEF RowFirst
<1> HIDE DEF e
<1>10. ASSUME NEW x \in booked'
       PROVE  \E b \in Ran' : \E i \in 1..done'[b] : x = Legs(b)'[i]
  <2>1. CASE x = e
    <3>1. n + 1 \in 1..done'[a] /\ x = Legs(a)'[n + 1]
      BY <1>1, <1>4, <1>9, <2>1 DEF e
    <3> QED
      BY <1>1, <1>4, <3>1
  <2>2. CASE x \in booked
    <3>1. PICK b \in Ran : \E i \in 1..done[b] : x = Legs(b)[i]
      BY <2>2 DEF CleanFacts
    <3>2. 1..done[b] \subseteq 1..done'[b] /\ b \in Amends
      BY <1>1, <1>4 DEF Ran
    <3> QED
      BY <1>4, <1>9, <3>1, <3>2
  <2> QED
    BY <1>7, <2>1, <2>2
<1>11. \A b \in Ran' : Shape(b)'
  <2>1. \A b \in Ran \ {a} : Shape(b)'
    <3>1. \A b \in Ran \ {a} : Shape(b) /\ b \in Amends
      BY DEF CleanFacts, Ran
    <3> QED
      BY <1>4, <1>9, <3>1 DEF Shape
  <2>2. Shape(a)'
    <3>1. Legs(a)' = Legs(a) /\ RowFirst' = RowFirst
      BY <1>9
    <3>2. pc'[a] = "legs" => n + 1 < Len(Legs(a))
      BY <1>4 DEF AfterLegs
    <3>3. pc'[a] # "legs" => n + 1 = Len(Legs(a)) /\ (RowFirst => pc'[a] # "row")
      BY <1>1, <1>4, <1>5 DEF AfterLegs
    <3> QED
      BY <1>4, <3>1, <3>2, <3>3 DEF Shape
  <2> QED
    BY <1>4, <2>1, <2>2
<1>12. /\ \A b \in Ran : Open(b) => b = a
       /\ amount = IF Early(a) THEN target[a] ELSE old[a]
       /\ Paid = amount - original + Taken(a, n) - (IF Early(a) THEN Diff(a) ELSE 0)
  <2>1. Open(a)
    BY <1>1 DEF Open
  <2> QED
    BY <1>1, <2>1 DEF CleanFacts, OpenRow
<1>13. /\ amount \in Int /\ original \in Int /\ Diff(a) \in Int /\ Part(e) \in Int
       /\ Diff(a) = target[a] - old[a] /\ target[a] \in Int /\ old[a] \in Int
  <2>1. /\ amount \in Int /\ original \in Int /\ target[a] \in Int /\ old[a] \in Int
    BY Facts DEF AmendTypeOK
  <2>2. Diff(a) \in Int /\ Diff(a) = target[a] - old[a]
    BY <2>1 DEF Diff
  <2>3. -e.amount \in Int /\ e.amount \in Int
    BY <1>5
  <2>4. Part(e) \in Int
    BY <2>3 DEF Part
  <2> QED
    BY <2>1, <2>2, <2>4
<1>14. ASSUME NEW b \in Ran', Open(b)' PROVE OpenRow(b)'
  <2>1. b = a
    BY <1>4, <1>12, <1>14 DEF Open
  <2>2. \A x \in Ran' : Open(x)' => x = a
    BY <1>4, <1>12 DEF Open
  <2>3. ~RowFirst
    BY <1>1, <1>4, <1>5, <1>14, <2>1 DEF Open, AfterLegs
  <2>4. ~Early(a) /\ ~Early(a)'
    BY <1>9, <2>3 DEF Early
  <2>5. Taken(a, done[a])' = Taken(a, n) + Part(e)
    BY <1>1, <1>4, <1>5, <1>9
  <2>6. amount' = old'[a] /\ amount' = amount /\ original' = original /\ Paid' = Paid + Part(e)
    BY <1>1, <1>8, <1>12, <2>4
  <2>7. Paid = amount - original + Taken(a, n)
    BY <1>5, <1>12, <1>13, <2>4
  <2>8. Paid' = amount' - original' + Taken(a, done[a])' - 0
    BY <1>5, <1>13, <2>5, <2>6, <2>7
  <2> QED
    BY <2>1, <2>2, <2>4, <2>6, <2>8 DEF OpenRow
<1>15. ASSUME \A b \in Ran' : ~Open(b)' PROVE Paid' = amount' - original'
  <2>1. pc'[a] = "status" /\ RowFirst /\ n + 1 = Len(Legs(a))
    BY <1>1, <1>4, <1>5, <1>15 DEF Open, AfterLegs
  <2>2. Early(a) /\ Taken(a, n) + Part(e) = Diff(a)
    BY <1>1, <1>5, <2>1 DEF Early
  <2>3. Paid = amount - original + Taken(a, n) - Diff(a)
    BY <1>12, <2>2
  <2>4. Paid' = Paid + Part(e) /\ amount' = amount /\ original' = original
    BY <1>1, <1>8
  <2>5. Taken(a, n) \in Int /\ Diff(a) \in Int /\ Part(e) \in Int
    BY <1>5, <1>13
  <2> HIDE DEF n
  <2>6. Paid + Part(e) = amount - original
    BY <1>13, <2>2, <2>3, <2>5
  <2> QED
    BY <2>4, <2>6
<1> QED
  BY <1>8, <1>10, <1>11, <1>14, <1>15 DEF CleanFacts

\* A step that touches neither an amendment, nor the row's amount, nor a saldo.
LEMMA QuietClean ==
  ASSUME Clean, CleanFacts, UNCHANGED <<service, target, original, amount, pc, old, done, ledger>>
  PROVE  CleanFacts'
<1>1. Ran' = Ran /\ RowFirst' = RowFirst
  BY DEF Ran, RowFirst
<1>2. /\ inflight' = {} /\ IsFiniteSet(booked') /\ Paid' = Paid
      /\ \A b \in Ran : Legs(b)' = Legs(b) /\ \A n : Taken(b, n)' = Taken(b, n)
      /\ \A b \in Ran : Diff(b)' = Diff(b)
      /\ (\A e \in booked : \E b \in Ran : \E i \in 1..done[b] : e = Legs(b)[i])'
  BY <1>1, EntriesStay
<1>3. \A b \in Ran' : Shape(b)'
  BY <1>1, <1>2 DEF CleanFacts, Shape
<1>4. \A b \in Ran' : Open(b)' => OpenRow(b)'
  <2> SUFFICES ASSUME NEW b \in Ran, Open(b)' PROVE OpenRow(b)'
    BY <1>1
  <2>1. Open(b) /\ OpenRow(b)
    BY DEF CleanFacts, Open
  <2>2. Early(b)' = Early(b) /\ \A x \in Ran' : Open(x)' => x = b
    BY <1>1, <2>1 DEF Early, OpenRow, Open
  <2>3. Taken(b, done[b])' = Taken(b, done[b]) /\ Diff(b)' = Diff(b)
    BY <1>2
  <2>4. /\ amount = IF Early(b) THEN target[b] ELSE old[b]
        /\ Paid = amount - original + Taken(b, done[b]) - (IF Early(b) THEN Diff(b) ELSE 0)
    BY <2>1 DEF OpenRow
  <2>5. /\ amount' = IF Early(b)' THEN target'[b] ELSE old'[b]
        /\ Paid' = amount' - original' + Taken(b, done[b])' - (IF Early(b)' THEN Diff(b)' ELSE 0)
    BY <1>2, <2>2, <2>3, <2>4
  <2> QED
    BY <2>2, <2>5 DEF OpenRow
<1>5. (\A b \in Ran' : ~Open(b)') => Paid' = amount' - original'
  BY <1>1, <1>2 DEF CleanFacts, Open
<1> QED
  BY <1>2, <1>3, <1>4, <1>5 DEF CleanFacts

\* The row of a topup is written before its leg is booked, that of the others after.
LEMMA WriteClean ==
  ASSUME AmendTypeOK, Clean, Clean', CleanFacts, NEW a \in Amends, WriteRow(a)
  PROVE  CleanFacts'
<1>1. /\ pc[a] = "row" /\ a \in Ran /\ Open(a)
      /\ UNCHANGED <<service, target, original, old, done, ledger>>
  BY DEF WriteRow, Ran, Open
<1>2. pc' = [pc EXCEPT ![a] = pc'[a]]
  BY DEF WriteRow, Goto, Unwind, AmendTypeOK
<1>3. pc'[a] # "idle" => pc'[a] \in Going
  BY DEF Clean, Ran
<1>4. amount' = target[a] /\ pc'[a] = IF RowFirst THEN "legs" ELSE "status"
  BY <1>3 DEF WriteRow, Goto, Unwind, AmendTypeOK, Going
<1>5. /\ Len(Legs(a)) \in Nat /\ Taken(a, Len(Legs(a))) = Diff(a) /\ Taken(a, 0) = 0
      /\ Diff(a) \in Int /\ Diff(a) = target[a] - old[a] /\ old[a] \in Int /\ target[a] \in Int
      /\ original \in Int
  BY NextLeg, LegsAre, Facts DEF Taken, AmendTypeOK
<1>6. /\ done[a] = IF RowFirst THEN 0 ELSE Len(Legs(a))
      /\ amount = old[a] /\ \A b \in Ran : Open(b) => b = a
      /\ Paid = amount - original + Taken(a, done[a]) - 0
  BY <1>1 DEF CleanFacts, Shape, OpenRow, Early
<1>7. RowFirst' = RowFirst /\ Legs(a)' = Legs(a) /\ Diff(a)' = Diff(a)
      /\ \A n : Taken(a, n)' = Taken(a, n)
  <2>1. Ran' = Ran
    BY <1>1, <1>2, <1>4 DEF Ran, AmendTypeOK
  <2> QED
    BY <1>1, <2>1, EntriesStay DEF RowFirst
<1>8. Shape(a)'
  <2>1. Legs(a) = << >> \/ 0 < Len(Legs(a))
    BY LegsAre
  <2> QED
    BY <1>1, <1>4, <1>6, <1>7, <2>1 DEF Shape
<1>9. CASE RowFirst
  <2>1. Early(a)' /\ amount' = target'[a]
    BY <1>1, <1>4, <1>7, <1>9 DEF Early
  <2>2. Paid' = Paid /\ Taken(a, done[a])' = 0
    BY <1>1, <1>5, <1>6, <1>7, <1>9 DEF Paid, ledger
  <2>3. Paid' = amount' - original' + Taken(a, done[a])' - Diff(a)'
    BY <1>1, <1>4, <1>5, <1>6, <1>7, <1>9, <2>2
  <2>4. \A b \in Ran' : Open(b)' => b = a
    BY <1>2, <1>6 DEF Ran, Open, AmendTypeOK
  <2>5. OpenRow(a)'
    BY <2>1, <2>3, <2>4 DEF OpenRow
  <2>6. Open(a)' /\ pc'[a] \in Going
    BY <1>4, <1>9 DEF Open, Going
  <2> QED
    BY <1>1, <1>2, <1>8, <2>5, <2>6, MoveClean
<1>10. CASE ~RowFirst
  <2>1. Paid = amount' - original
    BY <1>4, <1>5, <1>6, <1>10
  <2>2. ~Open(a)' /\ pc'[a] \in Going
    BY <1>4, <1>10 DEF Open, Going
  <2> QED
    BY <1>1, <1>2, <1>8, <2>1, <2>2, MoveClean
<1> QED
  BY <1>9, <1>10

\* An unchanged amount leaves the money where it is.
LEMMA SkipClean ==
  ASSUME AmendTypeOK, Clean, CleanFacts, NEW a \in Amends, SkipLegs(a)
  PROVE  CleanFacts'
<1>1. /\ pc[a] = "legs" /\ a \in Ran /\ Open(a) /\ Legs(a) = << >>
      /\ UNCHANGED <<service, target, original, amount, old, done, ledger>>
      /\ pc' = [pc EXCEPT ![a] = AfterLegs(a, 0)]
  BY DEF SkipLegs, Ran, Open, Goto, row
<1>2. pc'[a] = IF RowFirst THEN "status" ELSE "row"
  BY <1>1 DEF AfterLegs, AmendTypeOK
<1>3. /\ done[a] = 0 /\ Len(Legs(a)) = 0
      /\ \A b \in Ran : Open(b) => b = a
      /\ amount = IF RowFirst THEN target[a] ELSE old[a]
      /\ Paid = amount - original + Taken(a, 0) - (IF RowFirst THEN Diff(a) ELSE 0)
  <2>1. done[a] \in Nat /\ Shape(a) /\ OpenRow(a)
    BY <1>1 DEF CleanFacts, AmendTypeOK
  <2>2. done[a] = 0 /\ Len(Legs(a)) = 0
    BY <1>1, <2>1 DEF Shape
  <2> QED
    BY <1>1, <2>1, <2>2 DEF OpenRow, Early
<1>4. /\ Taken(a, 0) = 0 /\ Diff(a) = 0 /\ original \in Int /\ amount \in Int
      /\ target[a] = old[a]
  BY <1>3, NextLeg, LegsAre, Facts DEF Taken, AmendTypeOK
<1>5. Paid = amount - original
  BY <1>3, <1>4
<1>6. /\ RowFirst' = RowFirst /\ Legs(a)' = Legs(a) /\ Taken(a, done[a])' = 0 /\ Paid' = Paid
  <2>1. Ran' = Ran
    BY <1>1, <1>2 DEF Ran, AmendTypeOK
  <2> QED
    BY <1>1, <1>3, <1>4, <2>1, EntriesStay DEF RowFirst
<1>7. Shape(a)'
  BY <1>1, <1>2, <1>3, <1>6 DEF Shape
<1>8. OpenRow(a)' \/ ~Open(a)'
  <2>1. CASE RowFirst
    BY <1>2, <2>1 DEF Open
  <2>2. CASE ~RowFirst
    <3>1. ~Early(a)' /\ \A b \in Ran' : Open(b)' => b = a
      BY <1>1, <1>2, <1>3, <1>6, <2>2 DEF Early, Ran, Open, AmendTypeOK
    <3>2. amount' = old'[a] /\ Paid' = amount' - original' + Taken(a, done[a])' - 0
      BY <1>1, <1>3, <1>4, <1>5, <1>6, <2>2
    <3> QED
      BY <3>1, <3>2 DEF OpenRow
  <2> QED
    BY <2>1, <2>2
<1>9. pc' = [pc EXCEPT ![a] = pc'[a]] /\ pc'[a] \in Going
  BY <1>1, <1>2 DEF Going, AmendTypeOK
<1>10. Paid = amount' - original
  BY <1>1, <1>5
<1> QED
  BY <1>1, <1>7, <1>8, <1>9, <1>10, MoveClean

\* CleanInv is inductive: only a step of an amendment that goes on keeps the run
\* clean, and each such step moves the money with the row.
LEMMA NextClean == AmendTypeOK /\ UndoInv /\ CleanInv /\ [Next]_vars => CleanInv'
<1> SUFFICES ASSUME AmendTypeOK, UndoInv, CleanInv, [Next]_vars, Clean' PROVE CleanFacts'
  BY DEF CleanInv, CleanFacts
<1>1. Clean /\ CleanFacts
  BY CleanBack DEF CleanInv, CleanFacts
<1>2. \A a \in Amends : pc[a] # "idle" => pc[a] \in Going
  BY <1>1 DEF Clean, Ran
<1>3. \A a \in Amends : pc'[a] # "idle" => pc'[a] \in Going
  BY DEF Clean, Ran
<1>4. ASSUME NEW a \in Amends, Read(a) PROVE CleanFacts'
  BY <1>1, <1>4, ReadClean
<1>5. ASSUME NEW a \in Amends, BookLeg(a) PROVE CleanFacts'
  BY <1>1, <1>5, BookClean
<1>6. ASSUME NEW a \in Amends, SkipLegs(a) PROVE CleanFacts'
  BY <1>1, <1>6, SkipClean
<1>7. ASSUME NEW a \in Amends, WriteRow(a) PROVE CleanFacts'
  BY <1>1, <1>7, WriteClean
<1>8. ASSUME NEW a \in Amends, WriteSuccess(a) PROVE CleanFacts'
  <2>1. /\ pc[a] = "status" /\ a \in Ran /\ ~Open(a)
        /\ UNCHANGED <<service, target, original, amount, old, done, ledger>>
        /\ pc' = [pc EXCEPT ![a] = pc'[a]]
    BY <1>8 DEF WriteSuccess, Ran, Open, Goto, Unwind, AmendTypeOK
  <2>2. pc'[a] = "ok"
    BY <1>3, <1>8 DEF WriteSuccess, Goto, Unwind, AmendTypeOK, Going
  <2>3. RowFirst' = RowFirst /\ Legs(a)' = Legs(a)
    <3>1. Ran' = Ran
      BY <2>1, <2>2 DEF Ran, AmendTypeOK
    <3> QED
      BY <1>1, <2>1, <3>1, EntriesStay DEF RowFirst
  <2>4. Shape(a)'
    BY <1>1, <2>1, <2>2, <2>3 DEF CleanFacts, Shape
  <2> QED
    BY <1>1, <2>1, <2>2, <2>4, MoveClean DEF Open, Going
<1>9. ASSUME NEW a \in Amends, UndoLegs(a) \/ RestoreAmount(a) \/ LaunchMarker(a) PROVE FALSE
  BY <1>2, <1>9 DEF UndoLegs, RestoreAmount, LaunchMarker, Going
<1>10. ASSUME NEW a \in Amends, Crash(a) PROVE FALSE
  BY <1>3, <1>10 DEF Crash, Goto, Going, AmendTypeOK
<1>11. ASSUME NEW e \in inflight, ArriveLate(e) PROVE FALSE
  BY <1>1, <1>11 DEF CleanFacts
<1>12. ASSUME NEW a \in Amends, RunMarker(a)
       PROVE  UNCHANGED <<service, target, original, amount, pc, old, done, ledger>>
  BY <1>12 DEF RunMarker
<1>13. (Trash \/ Restore \/ Delete \/ UNCHANGED vars)
         => UNCHANGED <<service, target, original, amount, pc, old, done, ledger>>
  BY DEF Trash, Restore, Delete, vars, row
<1>14. ASSUME UNCHANGED <<service, target, original, amount, pc, old, done, ledger>>
       PROVE  CleanFacts'
  BY <1>1, <1>14, QuietClean
<1> QED
  BY <1>4, <1>5, <1>6, <1>7, <1>8, <1>9, <1>10, <1>11, <1>12, <1>13, <1>14 DEF Next

\* However the amendments of a row interleave: if all have succeeded, with
\* operation ids of their own and no two from the same old amount, then what the
\* payer paid for them is what the row's amount has changed by.
THEOREM AmendmentsSumUp == Spec => []AmendmentsAddUp
<1>1. Init => CleanInv
  <2> SUFFICES ASSUME Init PROVE CleanInv
    OBVIOUS
  <2>1. Ran = {} /\ booked = {} /\ inflight = {} /\ amount = original /\ original \in Int
    BY Facts DEF Init, Ran, LedgerInit
  <2>2. SumFunctionOnSet([e \in booked |-> e.amount], {e \in booked : e.card = Payer}) = 0
    <3>1. {e \in booked : e.card = Payer} = {}
      BY <2>1
    <3> QED
      BY <3>1, SumEmpty
  <2>3. Paid = amount - original /\ IsFiniteSet(booked)
    BY <2>1, <2>2, FS_EmptySet DEF Paid
  <2> QED
    BY <2>1, <2>3 DEF CleanInv
<1>2. AmendTypeOK /\ CleanInv => AmendmentsAddUp
  <2> SUFFICES ASSUME AmendTypeOK, CleanInv, \A a \in Ran : pc[a] = "ok" /\ Fresh(a),
                      \A a, b \in Ran : a # b => old[a] # old[b]
               PROVE  Paid = amount - original
    BY DEF AmendmentsAddUp
  <2>1. Clean /\ \A a \in Ran : ~Open(a)
    BY DEF Clean, Going, Open
  <2> QED
    BY <2>1 DEF CleanInv
<1> QED
  BY <1>1, <1>2, InitUndo, NextAmendType, NextUndo, NextClean, PTL DEF Spec
=============================================================================
