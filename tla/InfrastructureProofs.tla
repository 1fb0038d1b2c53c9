------------------------ MODULE InfrastructureProofs ------------------------
(***************************************************************************)
(* Theorems about the libraries every service is built with.               *)
(*                                                                         *)
(* EventPipeline.tla, for any events, any number of publishers and any     *)
(* limits: what the outbox calls published is in the topic, the topic      *)
(* holds no more copies than the attempts allow, and the stats writer      *)
(* never commits ahead of what it was handed.                              *)
(*                                                                         *)
(* DependencyGuard.tla, for any callers and any limits: the bulkhead never *)
(* has more permits out than it was made with.                             *)
(***************************************************************************)
EXTENDS EventPipeline, DependencyGuard, FiniteSetTheorems, TLAPS

(***************************************************************************)
(* The outbox, the topic and the stats writer.                             *)
(***************************************************************************)

\* A status "published" that is still to be written is true already.
WritesAreTrue ==
  \A p \in Publishers, e \in Routed : write[p] = <<e, "published">> => Logged(e)

\* An event in the batch of a publisher is one claim that has not been used.
Claimants(e) == {p \in Publishers : e \in held[p]}
Budget(e) == Copies(e) + MaxCopies * Cardinality(Claimants(e)) <= MaxCopies * attempts[e]

OutboxInv == OutboxTypeOK /\ WritesAreTrue /\ PublishedIsLogged /\ \A e \in Events : Budget(e)

WriterInv == WriterTypeOK /\ OffsetsInOrder

-----------------------------------------------------------------------------
(***************************************************************************)
(* The log.                                                                *)
(***************************************************************************)

\* Appending n copies of an event keeps the messages where they are.
LEMMA Appended ==
  ASSUME log \in Seq(Routed), NEW e \in Routed, NEW n \in Nat,
         log' = log \o [i \in 1..n |-> e]
  PROVE  /\ log' \in Seq(Routed)
         /\ Len(log') = Len(log) + n
         /\ \A i \in Positions : i \in Positions' /\ log'[i] = log[i]
         /\ \A i \in Positions' \ Positions : log'[i] = e
         /\ n > 0 => Logged(e)'
<1>1. [i \in 1..n |-> e] \in Seq(Routed) /\ Len([i \in 1..n |-> e]) = n
  OBVIOUS
<1>2. log' \in Seq(Routed) /\ Len(log') = Len(log) + n
  BY <1>1
<1>3. \A i \in 1..(Len(log) + n) : log'[i] = IF i <= Len(log) THEN log[i] ELSE e
  BY <1>1
<1>4. /\ \A i \in Positions : i \in Positions' /\ log'[i] = log[i]
      /\ \A i \in Positions' \ Positions : log'[i] = e
  BY <1>2, <1>3 DEF Positions
<1>5. n > 0 => Len(log) + n \in Positions' \ Positions
  BY <1>2 DEF Positions
<1> QED  BY <1>2, <1>4, <1>5 DEF Logged

\* The copies of an event are finitely many.
LEMMA CopiesFinite ==
  ASSUME log \in Seq(Routed), NEW e
  PROVE  IsFiniteSet({i \in Positions : log[i] = e}) /\ Copies(e) \in Nat
<1>1. IsFiniteSet(Positions)
  BY FS_Interval DEF Positions
<1> QED  BY <1>1, FS_Subset, FS_CardinalityType DEF Copies

\* Appending n copies of e adds at most n copies of e and none of another event.
LEMMA CopiesAppended ==
  ASSUME log \in Seq(Routed), NEW e \in Routed, NEW n \in Nat, NEW f \in Events,
         log' = log \o [i \in 1..n |-> e]
  PROVE  Copies(f)' <= Copies(f) + (IF f = e THEN n ELSE 0)
<1> DEFINE Old == {i \in Positions : log[i] = f}
           New == {i \in Positions' : log'[i] = f}
           Added == (Len(log) + 1)..(Len(log) + n)
<1>1. IsFiniteSet(Old) /\ Cardinality(Old) \in Nat
  BY CopiesFinite DEF Copies
<1>2. IsFiniteSet(Added) /\ Cardinality(Added) = n
  BY FS_Interval
<1>3. IsFiniteSet(Old \cup Added) /\ Cardinality(Old \cup Added) <= Cardinality(Old) + n
  <2>1. /\ IsFiniteSet(Old \cup Added)
        /\ Cardinality(Old \cup Added) = Cardinality(Old) + n - Cardinality(Old \cap Added)
    BY <1>1, <1>2, FS_Union
  <2>2. IsFiniteSet(Old \cap Added)
    BY <1>1, FS_Subset
  <2>3. Cardinality(Old \cap Added) \in Nat
    BY <2>2, FS_CardinalityType
  <2> QED  BY <1>1, <2>1, <2>3
<1>0. Copies(f) = Cardinality(Old) /\ Copies(f)' = Cardinality(New)
  BY DEF Copies
<1>4. CASE f = e
  <2>1. New \subseteq Old \cup Added
    BY Appended DEF Positions
  <2>2. Cardinality(New) <= Cardinality(Old \cup Added) /\ Cardinality(New) \in Nat
    BY <1>3, <2>1, FS_Subset, FS_CardinalityType
  <2>3. Cardinality(Old \cup Added) \in Nat
    BY <1>3, FS_CardinalityType
  <2> HIDE DEF Old, New, Added
  <2> QED  BY <1>0, <1>1, <1>3, <1>4, <2>2, <2>3
<1>5. CASE f # e
  <2>1. New = Old
    BY <1>5, Appended
  <2> HIDE DEF Old, New, Added
  <2> QED  BY <1>0, <1>1, <1>5, <2>1
<1> QED  BY <1>4, <1>5

-----------------------------------------------------------------------------
(***************************************************************************)
(* The outbox.                                                             *)
(***************************************************************************)

\* The publishers that hold an event are finitely many, and giving up a batch
\* or taking one changes them by at most one publisher.
LEMMA ClaimantsFinite ==
  ASSUME NEW e
  PROVE  IsFiniteSet(Claimants(e)) /\ Cardinality(Claimants(e)) \in Nat
BY PublishersAssumption, FS_Subset, FS_CardinalityType DEF Claimants

\* Fewer holders, and no new copies, keep the budget.
LEMMA BudgetKept ==
  ASSUME NEW e \in Events, OutboxTypeOK, Budget(e),
         Claimants(e)' \subseteq Claimants(e),
         attempts' = attempts, log' = log
  PROVE  Budget(e)'
<1>1. Cardinality(Claimants(e)') <= Cardinality(Claimants(e)) /\ Cardinality(Claimants(e)') \in Nat
  BY ClaimantsFinite, FS_Subset, FS_CardinalityType
<1>2. Copies(e)' = Copies(e) /\ Copies(e) \in Nat
  BY CopiesFinite DEF Copies, Positions, OutboxTypeOK
<1>3. attempts[e] \in Nat /\ MaxCopies \in Nat
  BY LimitsAssumption DEF OutboxTypeOK
<1>4. MaxCopies * Cardinality(Claimants(e)') <= MaxCopies * Cardinality(Claimants(e))
  BY <1>1, <1>3, ClaimantsFinite
<1> QED  BY <1>1, <1>2, <1>3, <1>4, ClaimantsFinite DEF Budget

\* Inserts, elapsed waits, status writes and stops: no event is claimed or sent.
LEMMA QuietStep ==
  ASSUME OutboxInv, OutboxTypeOK', UNCHANGED <<attempts, log>>,
         \A e \in Events : Claimants(e)' \subseteq Claimants(e),
         \A p \in Publishers : write'[p] \in {write[p], Nothing},
         \A e \in Events : row'[e] = "published" =>
           row[e] = "published" \/ \E p \in Publishers : write[p] = <<e, "published">>
  PROVE  OutboxInv'
<1>1. \A e : Logged(e)' <=> Logged(e)
  BY DEF Logged, Positions
<1>2. WritesAreTrue'
  <2> SUFFICES ASSUME NEW p \in Publishers, NEW e \in Routed, write'[p] = <<e, "published">>
               PROVE  Logged(e)'
    BY DEF WritesAreTrue
  <2>1. <<e, "published">> \in Events \X {"published", "failed"}
    BY RoutedAssumption
  <2>2. write'[p] = write[p]
    BY <2>1, NothingAssumption
  <2> QED  BY <1>1, <2>2 DEF WritesAreTrue, OutboxInv
<1>3. PublishedIsLogged'
  BY <1>1, RoutedAssumption DEF PublishedIsLogged, WritesAreTrue, OutboxInv
<1>4. \A e \in Events : Budget(e)'
  BY BudgetKept DEF OutboxInv
<1> QED  BY <1>2, <1>3, <1>4 DEF OutboxInv

\* A claim counts an attempt for each row it takes.
LEMMA ClaimStep ==
  ASSUME OutboxInv, NEW p \in Publishers, ClaimPendingOutbox(p)
  PROVE  OutboxInv'
<1> USE DEF OutboxInv
<1>1. PICK S \in SUBSET Claimable \ {{}} : Mark(S) /\ (held' = [held EXCEPT ![p] = S] \/ UNCHANGED held)
  BY DEF ClaimPendingOutbox
<1>2. UNCHANGED <<write, log>> /\ held[p] = {}
  BY DEF ClaimPendingOutbox
<1>3. S \subseteq Events /\ \A e \in S : attempts[e] < MaxAttempts
  BY <1>1 DEF Claimable, OutboxTypeOK
<1>4. \A e \in Events : attempts'[e] = IF e \in S THEN attempts[e] + 1 ELSE attempts[e]
  BY <1>1 DEF Mark, OutboxTypeOK
<1>5. OutboxTypeOK'
  <2>1. attempts' \in [Events -> 0..MaxAttempts]
    BY <1>1, <1>3, LimitsAssumption DEF Mark, OutboxTypeOK
  <2>2. row' \in [Events -> RowStatuses] /\ ripe' \subseteq Events
    BY <1>1 DEF Mark, OutboxTypeOK, RowStatuses
  <2>3. held' \in [Publishers -> SUBSET Events]
    BY <1>1, <1>3 DEF OutboxTypeOK
  <2> QED  BY <1>2, <2>1, <2>2, <2>3 DEF OutboxTypeOK
<1>6. \A e : Logged(e)' <=> Logged(e)
  BY <1>2 DEF Logged, Positions
<1>7. WritesAreTrue'
  BY <1>2, <1>6 DEF WritesAreTrue
<1>8. PublishedIsLogged'
  <2>1. \A e \in Events : row'[e] = "published" => row[e] = "published"
    BY <1>1 DEF Mark
  <2> QED  BY <1>6, <2>1, RoutedAssumption DEF PublishedIsLogged
<1>9. ASSUME NEW e \in Events PROVE Budget(e)'
  <2>1. CASE e \notin S
    <3>1. Claimants(e)' \subseteq Claimants(e)
      BY <1>1, <2>1 DEF Claimants, OutboxTypeOK
    <3>2. Copies(e)' = Copies(e) /\ Copies(e) \in Nat
      BY <1>2, CopiesFinite DEF Copies, Positions, OutboxTypeOK
    <3>3. Cardinality(Claimants(e)') <= Cardinality(Claimants(e)) /\ Cardinality(Claimants(e)') \in Nat
      BY <3>1, ClaimantsFinite, FS_Subset, FS_CardinalityType
    <3>4. attempts'[e] = attempts[e] /\ attempts[e] \in Nat /\ MaxCopies \in Nat
      BY <1>4, <2>1, LimitsAssumption DEF OutboxTypeOK
    <3>5. MaxCopies * Cardinality(Claimants(e)') <= MaxCopies * Cardinality(Claimants(e))
      BY <3>3, <3>4, ClaimantsFinite
    <3> QED  BY <3>2, <3>3, <3>4, <3>5, ClaimantsFinite DEF Budget
  <2>2. CASE e \in S
    <3> DEFINE h == Cardinality(Claimants(e))
    <3>1. Claimants(e)' \subseteq Claimants(e) \cup {p}
      BY <1>1 DEF Claimants, OutboxTypeOK
    <3>2. /\ IsFiniteSet(Claimants(e) \cup {p})
          /\ Cardinality(Claimants(e) \cup {p}) \in Nat
          /\ Cardinality(Claimants(e) \cup {p}) <= h + 1
          /\ h \in Nat
      <4>1. IsFiniteSet(Claimants(e)) /\ h \in Nat
        BY ClaimantsFinite
      <4>2. /\ IsFiniteSet(Claimants(e) \cup {p})
            /\ Cardinality(Claimants(e) \cup {p}) =
                 IF p \in Claimants(e) THEN Cardinality(Claimants(e)) ELSE Cardinality(Claimants(e)) + 1
        BY <4>1, FS_AddElement
      <4> QED  BY <4>1, <4>2
    <3>3. Cardinality(Claimants(e)') \in Nat /\ Cardinality(Claimants(e)') <= h + 1
      BY <3>1, <3>2, FS_Subset, FS_CardinalityType
    <3>4. Copies(e)' = Copies(e) /\ Copies(e) \in Nat
      BY <1>2, CopiesFinite DEF Copies, Positions, OutboxTypeOK
    <3>5. attempts'[e] = attempts[e] + 1 /\ attempts[e] \in Nat /\ MaxCopies \in Nat
      BY <1>4, <2>2, LimitsAssumption DEF OutboxTypeOK
    <3>6. Copies(e) + MaxCopies * h <= MaxCopies * attempts[e]
      BY DEF Budget
    <3>7. MaxCopies * Cardinality(Claimants(e)') <= MaxCopies * (h + 1)
      BY <3>2, <3>3, <3>5
    <3>8. /\ MaxCopies * (h + 1) = MaxCopies * h + MaxCopies
          /\ MaxCopies * (attempts[e] + 1) = MaxCopies * attempts[e] + MaxCopies
      BY <3>2, <3>5
    <3> HIDE DEF h
    <3> QED  BY <3>2, <3>3, <3>4, <3>5, <3>6, <3>7, <3>8 DEF Budget
  <2> QED  BY <2>1, <2>2
<1> QED  BY <1>5, <1>7, <1>8, <1>9

\* A send uses up the claim of the publisher that held the row.
LEMMA PublishStep ==
  ASSUME OutboxInv, NEW p \in Publishers, NEW e \in Events, Publish(p, e)
  PROVE  OutboxInv'
<1> USE DEF OutboxInv
<1>1. /\ e \in held[p]
      /\ held' = [held EXCEPT ![p] = @ \ {e}]
      /\ UNCHANGED <<row, attempts, ripe>>
  BY DEF Publish
<1>2. held' \in [Publishers -> SUBSET Events]
  BY <1>1 DEF OutboxTypeOK
<1>3. CASE e \notin Routed
  <2>1. write' = [write EXCEPT ![p] = <<e, "published">>] /\ log' = log
    BY <1>3 DEF Publish
  <2>2. OutboxTypeOK'
    BY <1>1, <1>2, <2>1 DEF OutboxTypeOK
  <2>3. \A f : Logged(f)' <=> Logged(f)
    BY <2>1 DEF Logged, Positions
  <2>4. WritesAreTrue'
    BY <1>3, <2>1, <2>3 DEF WritesAreTrue, OutboxTypeOK
  <2>5. PublishedIsLogged'
    BY <1>1, <2>3 DEF PublishedIsLogged
  <2>6. \A f \in Events : Claimants(f)' \subseteq Claimants(f)
    BY <1>1 DEF Claimants, OutboxTypeOK
  <2>7. \A f \in Events : Budget(f)'
    BY <1>1, <2>1, <2>6, BudgetKept
  <2> QED  BY <2>2, <2>4, <2>5, <2>7
<1>4. CASE e \in Routed
  <2>1. PICK n \in 0..MaxCopies, s \in {"published", "failed"} :
          /\ s = "published" => n > 0
          /\ log' = log \o [i \in 1..n |-> e]
          /\ write' = [write EXCEPT ![p] = <<e, s>>]
    BY <1>4 DEF Publish
  <2>2. n \in Nat /\ n <= MaxCopies /\ MaxCopies \in Nat
    BY LimitsAssumption
  <2>3. log \in Seq(Routed)
    BY DEF OutboxTypeOK
  <2>4. /\ log' \in Seq(Routed)
        /\ \A i \in Positions : i \in Positions' /\ log'[i] = log[i]
        /\ n > 0 => Logged(e)'
    BY <1>4, <2>1, <2>2, <2>3, Appended
  <2>5. \A f : Logged(f) => Logged(f)'
    BY <2>4 DEF Logged
  <2>6. OutboxTypeOK'
    BY <1>1, <1>2, <2>1, <2>4 DEF OutboxTypeOK
  <2>7. WritesAreTrue'
    <3> SUFFICES ASSUME NEW q \in Publishers, NEW f \in Routed, write'[q] = <<f, "published">>
                 PROVE  Logged(f)'
      BY DEF WritesAreTrue
    <3>1. CASE q = p
      BY <2>1, <2>4, <3>1 DEF OutboxTypeOK
    <3>2. CASE q # p
      BY <2>1, <2>5, <3>2 DEF WritesAreTrue, OutboxTypeOK
    <3> QED  BY <3>1, <3>2
  <2>8. PublishedIsLogged'
    BY <1>1, <2>5 DEF PublishedIsLogged
  <2>9. ASSUME NEW f \in Events PROVE Budget(f)'
    <3>1. Copies(f)' <= Copies(f) + (IF f = e THEN n ELSE 0)
      BY <1>4, <2>1, <2>2, <2>3, CopiesAppended
    <3>2. Copies(f) \in Nat /\ Copies(f)' \in Nat
      <4>1. Copies(f) \in Nat
        BY <2>3, CopiesFinite
      <4>2. IsFiniteSet(Positions')
        BY <2>4, FS_Interval DEF Positions
      <4>3. Copies(f)' \in Nat
        BY <4>2, FS_Subset, FS_CardinalityType DEF Copies
      <4> QED  BY <4>1, <4>3
    <3>3. attempts'[f] = attempts[f] /\ attempts[f] \in Nat
      BY <1>1 DEF OutboxTypeOK
    <3>4. Copies(f) + MaxCopies * Cardinality(Claimants(f)) <= MaxCopies * attempts[f]
      BY DEF Budget
    <3>5. CASE f # e
      <4>1. Claimants(f)' = Claimants(f)
        BY <1>1, <3>5 DEF Claimants, OutboxTypeOK
      <4> QED  BY <2>2, <3>1, <3>2, <3>3, <3>4, <3>5, <4>1, ClaimantsFinite DEF Budget
    <3>6. CASE f = e
      <4> DEFINE h == Cardinality(Claimants(e))
      <4>1. Claimants(e)' = Claimants(e) \ {p} /\ p \in Claimants(e)
        BY <1>1 DEF Claimants, OutboxTypeOK
      <4>2. h \in Nat /\ Cardinality(Claimants(e)') = h - 1
        BY <4>1, ClaimantsFinite, FS_RemoveElement
      <4>3. MaxCopies * (h - 1) = MaxCopies * h - MaxCopies
        BY <2>2, <4>2
      <4>4. Copies(e)' <= Copies(e) + n /\ Copies(e) + MaxCopies * h <= MaxCopies * attempts[e]
        BY <3>1, <3>4, <3>6
      <4> HIDE DEF h
      <4>5. Copies(e)' + MaxCopies * (h - 1) <= MaxCopies * attempts[e]
        BY <2>2, <3>2, <3>3, <3>6, <4>2, <4>3, <4>4
      <4> QED  BY <3>3, <3>6, <4>2, <4>5 DEF Budget
    <3> QED  BY <3>5, <3>6
  <2> QED  BY <2>6, <2>7, <2>8, <2>9
<1> QED  BY <1>3, <1>4

\* Every step of the outbox preserves its invariant.
LEMMA OutboxPreserved ==
  ASSUME OutboxInv, OutboxNext
  PROVE  OutboxInv'
<1>1. ASSUME NEW e \in Events, InsertOutbox(e) PROVE OutboxInv'
  <2>1. OutboxTypeOK'
    BY <1>1 DEF OutboxInv, OutboxTypeOK, InsertOutbox, RowStatuses
  <2> QED  BY <1>1, <2>1, QuietStep DEF InsertOutbox, OutboxInv, OutboxTypeOK, Claimants
<1>2. ASSUME NEW e \in Events, Elapse(e) PROVE OutboxInv'
  <2>1. OutboxTypeOK'
    BY <1>2 DEF OutboxInv, OutboxTypeOK, Elapse
  <2> QED  BY <1>2, <2>1, QuietStep DEF Elapse, Claimants
<1>3. ASSUME NEW p \in Publishers, WriteStatus(p) PROVE OutboxInv'
  <2>1. write[p] \in Events \X {"published", "failed"}
    BY <1>3 DEF OutboxInv, OutboxTypeOK, WriteStatus
  <2>2. PICK e \in Events, s \in {"published", "failed"} : write[p] = <<e, s>>
    BY <2>1
  <2>3. /\ \/ row' = [row EXCEPT ![e] = s] /\ ripe' \in {ripe, ripe \ {e}}
           \/ UNCHANGED <<row, ripe>>
        /\ write' = [write EXCEPT ![p] = Nothing]
        /\ UNCHANGED <<attempts, held, log>>
    BY <1>3, <2>2 DEF WriteStatus
  <2>4. OutboxTypeOK'
    BY <2>3 DEF OutboxInv, OutboxTypeOK, RowStatuses
  <2>5. \A q \in Publishers : write'[q] \in {write[q], Nothing}
    BY <2>3 DEF OutboxInv, OutboxTypeOK
  <2>6. \A f \in Events : row'[f] = "published" =>
          row[f] = "published" \/ \E q \in Publishers : write[q] = <<f, "published">>
    BY <2>2, <2>3 DEF OutboxInv, OutboxTypeOK
  <2>7. \A f \in Events : Claimants(f)' \subseteq Claimants(f)
    BY <2>3 DEF Claimants
  <2> QED  BY <2>3, <2>4, <2>5, <2>6, <2>7, QuietStep
<1>4. ASSUME NEW p \in Publishers, StopPublisher(p) PROVE OutboxInv'
  <2>1. OutboxTypeOK'
    BY <1>4 DEF OutboxInv, OutboxTypeOK, StopPublisher
  <2>2. \A e \in Events : Claimants(e)' \subseteq Claimants(e)
    BY <1>4 DEF Claimants, OutboxInv, OutboxTypeOK, StopPublisher
  <2>3. \A q \in Publishers : write'[q] \in {write[q], Nothing}
    BY <1>4 DEF OutboxInv, OutboxTypeOK, StopPublisher
  <2> QED  BY <1>4, <2>1, <2>2, <2>3, QuietStep DEF StopPublisher
<1> QED  BY <1>1, <1>2, <1>3, <1>4, ClaimStep, PublishStep DEF OutboxNext

\* An empty outbox satisfies the invariant.
LEMMA OutboxInitial == OutboxInit => OutboxInv
<1> SUFFICES ASSUME OutboxInit PROVE OutboxInv
  OBVIOUS
<1>1. OutboxTypeOK
  BY LimitsAssumption DEF OutboxInit, OutboxTypeOK, RowStatuses
<1>2. WritesAreTrue /\ PublishedIsLogged
  BY NothingAssumption, RoutedAssumption DEF OutboxInit, WritesAreTrue, PublishedIsLogged
<1>3. ASSUME NEW e \in Events PROVE Budget(e)
  <2>1. Claimants(e) = {} /\ {i \in Positions : log[i] = e} = {} /\ attempts[e] = 0
    BY DEF OutboxInit, Claimants, Positions
  <2> QED  BY <2>1, FS_EmptySet, LimitsAssumption DEF Budget, Copies
<1> QED  BY <1>1, <1>2, <1>3 DEF OutboxInv

-----------------------------------------------------------------------------
(***************************************************************************)
(* The stats writer.                                                       *)
(***************************************************************************)

\* The topic grows under the writer: its positions stay where they are.
LEMMA LogGrows ==
  ASSUME WriterInv, UNCHANGED writerVars, Len(log) \in Nat, Len(log') \in Nat,
         Len(log) <= Len(log')
  PROVE  WriterInv'
<1> USE DEF writerVars, session, rows
<1>1. WriterTypeOK'
  BY DEF WriterInv, WriterTypeOK, Offsets, Positions
<1>2. OffsetsInOrder'
  BY DEF WriterInv, WriterTypeOK, OffsetsInOrder, Offsets, NoOffset
<1> QED  BY <1>1, <1>2 DEF WriterInv

\* A step that ends the session, or finds none, leaves no offsets to compare.
LEMMA SessionEnds ==
  ASSUME WriterInv, Len(log) \in Nat, log' = log,
         ~joined', ticking' \in BOOLEAN, batch' = {}, Sent(batch) \/ Unsent(batch),
         next' = 0, marked' = NoOffset, origin' = origin,
         committed' \in {committed, marked}, retries' \in Nat, joined' \in BOOLEAN
  PROVE  WriterInv'
<1>1. stored' \subseteq Positions /\ Positions' = Positions /\ Offsets' = Offsets
  BY DEF Sent, Unsent, Positions, Offsets, WriterInv, WriterTypeOK
<1>2. next' \in 0..Len(log) /\ marked' \in Offsets /\ committed' \in Offsets
  BY DEF WriterInv, WriterTypeOK, Offsets
<1>3. WriterTypeOK'
  BY <1>1, <1>2 DEF WriterInv, WriterTypeOK
<1> QED  BY <1>3 DEF WriterInv, OffsetsInOrder

\* Every step of the writer preserves its invariant.
LEMMA WriterPreserved ==
  ASSUME WriterInv, Len(log) \in Nat, WriterStep
  PROVE  WriterInv'
<1> USE DEF session, rows
<1>1. WriterTypeOK /\ OffsetsInOrder
  BY DEF WriterInv
<1>2. log' = log
  BY DEF WriterStep, Join, ConsumeFails, ConsumeClaim, Handed, AutoCommit, Flush, Rebalance, Restart
<1>3. CASE Join
  <2>1. WriterTypeOK'
    BY <1>1, <1>2, <1>3 DEF Join, WriterTypeOK, Offsets, Positions, NoOffset
  <2>2. OffsetsInOrder'
    BY <1>1, <1>2, <1>3 DEF Join, OffsetsInOrder, WriterTypeOK, Offsets, NoOffset
  <2> QED  BY <2>1, <2>2 DEF WriterInv
<1>4. CASE ConsumeFails
  <2>1. WriterTypeOK'
    BY <1>1, <1>2, <1>4 DEF ConsumeFails, WriterTypeOK, Offsets, Positions
  <2> QED  BY <1>4, <2>1 DEF ConsumeFails, WriterInv, OffsetsInOrder
<1>5. CASE ConsumeClaim
  <2>1. /\ joined /\ joined' = joined /\ next < Len(log) /\ next' = next + 1
        /\ UNCHANGED <<origin, committed, retries, ticking>>
        /\ marked' \in {marked, next + 1}
    BY <1>5 DEF ConsumeClaim, Handed
  <2>2. stored' \cup batch' \subseteq stored \cup batch \cup {next + 1}
    BY <1>5 DEF ConsumeClaim, Handed, Sent, Unsent
  <2>3. next + 1 \in Positions /\ Positions' = Positions /\ Offsets' = Offsets
    BY <1>1, <1>2, <2>1 DEF WriterTypeOK, Positions, Offsets
  <2>4. next' \in 0..Len(log) /\ marked' \in Offsets
    BY <1>1, <2>1 DEF WriterTypeOK, Offsets
  <2>5. stored' \subseteq Positions /\ batch' \subseteq Positions
    BY <1>1, <2>2, <2>3 DEF WriterTypeOK
  <2>6. WriterTypeOK'
    BY <1>1, <1>2, <2>1, <2>3, <2>4, <2>5 DEF WriterTypeOK
  <2>7. OffsetsInOrder'
    BY <1>1, <1>2, <2>1 DEF OffsetsInOrder, WriterTypeOK, Offsets, NoOffset
  <2> QED  BY <2>6, <2>7 DEF WriterInv
<1>6. CASE AutoCommit
  <2>1. WriterTypeOK'
    BY <1>1, <1>2, <1>6 DEF AutoCommit, WriterTypeOK, Offsets, Positions
  <2>2. OffsetsInOrder'
    BY <1>1, <1>2, <1>6 DEF AutoCommit, OffsetsInOrder, WriterTypeOK, Offsets, NoOffset
  <2> QED  BY <2>1, <2>2 DEF WriterInv
<1>7. CASE Flush
  <2>1. /\ batch' = {} /\ stored' \subseteq stored \cup batch
        /\ UNCHANGED <<session, committed, ticking>>
    BY <1>7 DEF Flush, Sent, Unsent
  <2>2. WriterTypeOK'
    BY <1>1, <1>2, <2>1 DEF WriterTypeOK, Offsets, Positions
  <2> QED  BY <1>1, <1>2, <2>1, <2>2 DEF WriterInv, OffsetsInOrder
<1>8. CASE Rebalance
  <2>1. /\ ~joined' /\ joined' = FALSE /\ ticking' = FALSE /\ batch' = {}
        /\ next' = 0 /\ marked' = NoOffset /\ origin' = origin
        /\ committed' \in {committed, marked} /\ retries' \in {0, retries + 1}
    BY <1>8 DEF Rebalance
  <2>2. Sent(batch) \/ Unsent(batch)
    BY <1>8 DEF Rebalance
  <2>3. retries' \in Nat
    BY <1>1, <2>1 DEF WriterTypeOK
  <2> QED  BY <1>2, <2>1, <2>2, <2>3, SessionEnds
<1>9. CASE Restart
  BY <1>1, <1>2, <1>9, SessionEnds DEF Restart, WriterTypeOK
<1> QED  BY <1>3, <1>4, <1>5, <1>6, <1>7, <1>8, <1>9 DEF WriterStep

\* A writer that starts over an empty topic has no session.
LEMMA WriterInitial ==
  ASSUME WriterInit
  PROVE  WriterInv
<1>1. Len(log) = 0
  BY DEF WriterInit
<1>2. next \in 0..Len(log) /\ origin \in 0..Len(log) /\ marked \in Offsets /\ committed \in Offsets
  BY <1>1 DEF WriterInit, Offsets
<1> QED  BY <1>2 DEF WriterInit, WriterInv, WriterTypeOK, OffsetsInOrder

-----------------------------------------------------------------------------
(***************************************************************************)
(* The pipeline.                                                           *)
(***************************************************************************)

PipelineInv == OutboxInv /\ WriterInv

\* The outbox only appends to the log the writer reads.
LEMMA OutboxAppends ==
  ASSUME OutboxInv, OutboxNext
  PROVE  Len(log) \in Nat /\ Len(log') \in Nat /\ Len(log) <= Len(log')
<1>1. log \in Seq(Routed)
  BY DEF OutboxInv, OutboxTypeOK
<1>2. ASSUME NEW p \in Publishers, NEW e \in Events, Publish(p, e)
      PROVE  Len(log') \in Nat /\ Len(log) <= Len(log')
  <2>1. CASE e \notin Routed
    BY <1>1, <1>2, <2>1 DEF Publish
  <2>2. CASE e \in Routed
    <3>1. PICK n \in 0..MaxCopies : log' = log \o [i \in 1..n |-> e]
      BY <1>2, <2>2 DEF Publish
    <3>2. n \in Nat
      BY <3>1, LimitsAssumption
    <3>3. Len(log') = Len(log) + n
      BY <1>1, <2>2, <3>1, <3>2, Appended
    <3> QED  BY <1>1, <3>2, <3>3
  <2> QED  BY <2>1, <2>2
<1> QED  BY <1>1, <1>2 DEF OutboxNext, InsertOutbox, Elapse, ClaimPendingOutbox, WriteStatus, StopPublisher

\* The two invariants hold together: neither side disturbs the other.
THEOREM PipelineInvariant == PipelineSpec => []PipelineInv
<1>1. PipelineInit => PipelineInv
  BY OutboxInitial, WriterInitial DEF PipelineInit, PipelineInv, OutboxInit
<1>2. PipelineInv /\ [PipelineNext]_pipelineVars => PipelineInv'
  <2> SUFFICES ASSUME PipelineInv, [PipelineNext]_pipelineVars PROVE PipelineInv'
    OBVIOUS
  <2>1. CASE OutboxNext /\ UNCHANGED writerVars
    BY <2>1, OutboxPreserved, OutboxAppends, LogGrows DEF PipelineInv
  <2>2. CASE WriterStep /\ UNCHANGED outboxVars
    <3>1. log' = log
      BY <2>2 DEF WriterStep, Join, ConsumeFails, ConsumeClaim, Handed, AutoCommit, Flush,
                  Rebalance, Restart
    <3>2. Len(log) \in Nat
      BY DEF PipelineInv, OutboxInv, OutboxTypeOK
    <3>3. OutboxInv'
      BY <2>2, <3>1 DEF PipelineInv, OutboxInv, OutboxTypeOK, WritesAreTrue, PublishedIsLogged,
                        Budget, Copies, Claimants, Logged, Positions, outboxVars
    <3> QED  BY <2>2, <3>2, <3>3, WriterPreserved DEF PipelineInv
  <2>3. CASE UNCHANGED pipelineVars
    BY <2>3 DEF pipelineVars, outboxVars, writerVars, session, rows, PipelineInv, OutboxInv, OutboxTypeOK,
                WritesAreTrue, PublishedIsLogged, Budget, Copies, Claimants, Logged, Positions,
                WriterInv, WriterTypeOK, Offsets, OffsetsInOrder
  <2> QED  BY <2>1, <2>2, <2>3 DEF PipelineNext
<1> QED  BY <1>1, <1>2, PTL DEF PipelineSpec

\* The outbox, its publishers and the topic keep their types, whatever the
\* writer does at the other end of the topic.
THEOREM OutboxTypeCorrect == PipelineSpec => []OutboxTypeOK
BY PipelineInvariant, PTL DEF PipelineInv, OutboxInv

\* The stats writer keeps its types, whatever the publishers append: its offsets
\* and its rows stay within the topic.
THEOREM WriterTypeCorrect == PipelineSpec => []WriterTypeOK
BY PipelineInvariant, PTL DEF PipelineInv, WriterInv

\* What any publisher called published is in the topic.
THEOREM PublishedLogged == PipelineSpec => []PublishedIsLogged
BY PipelineInvariant, PTL DEF PipelineInv, OutboxInv

\* The topic holds at most MaxCopies copies of an event for each of its attempts.
THEOREM CopiesBounded == PipelineSpec => []CopiesWithinBudget
<1>1. PipelineInv => CopiesWithinBudget
  <2> SUFFICES ASSUME PipelineInv, NEW e \in Events
               PROVE  Copies(e) <= MaxCopies * attempts[e]
    BY DEF CopiesWithinBudget
  <2>1. Copies(e) \in Nat /\ Cardinality(Claimants(e)) \in Nat
    BY CopiesFinite, ClaimantsFinite DEF PipelineInv, OutboxInv, OutboxTypeOK
  <2>2. MaxCopies \in Nat /\ attempts[e] \in Nat
    BY LimitsAssumption DEF PipelineInv, OutboxInv, OutboxTypeOK
  <2>3. MaxCopies * Cardinality(Claimants(e)) \in Nat /\ MaxCopies * attempts[e] \in Nat
    BY <2>1, <2>2
  <2> QED  BY <2>1, <2>3 DEF PipelineInv, OutboxInv, Budget
<1> QED  BY <1>1, PipelineInvariant, PTL

\* Whatever fails, ends or restarts, the writer commits nothing it has not
\* marked in this session and marks nothing it was not handed.
THEOREM OffsetsOrdered == PipelineSpec => []OffsetsInOrder
BY PipelineInvariant, PTL DEF PipelineInv, WriterInv

(***************************************************************************)
(* The dependency guard.                                                   *)
(***************************************************************************)

\* Callers are finitely many, so the permits they hold can be counted.
LEMMA HoldersFinite == IsFiniteSet(Holders) /\ Cardinality(Holders) \in Nat
BY GuardAssumption, FS_Subset, FS_CardinalityType DEF Holders

\* The limits are positive.
LEMMA LimitFacts == {Threshold, HalfOpenMax, MaxConcurrent} \subseteq Nat \ {0}
BY GuardAssumption

\* A caller that moves on with the permit it has, or gives it back.
LEMMA MoveOn ==
  ASSUME TypeOK, NEW c \in Callers, NEW place \in Places, Goto(c, place), pc[c] # "idle"
  PROVE  pc' \in [Callers -> Places] /\ Cardinality(Holders') <= MaxConcurrent
<1>1. pc' \in [Callers -> Places]
  BY DEF Goto, TypeOK
<1>2. Holders' \subseteq Holders
  BY DEF Goto, Holders, TypeOK
<1>3. Cardinality(Holders') \in Nat /\ Cardinality(Holders') <= Cardinality(Holders)
  BY <1>2, HoldersFinite, FS_Subset, FS_CardinalityType
<1>4. Cardinality(Holders) <= MaxConcurrent /\ MaxConcurrent \in Nat
  BY LimitFacts DEF TypeOK
<1> QED  BY <1>1, <1>3, <1>4, HoldersFinite

\* A caller that gets a permit found one of them free.
LEMMA AcquireStep ==
  ASSUME TypeOK, NEW c \in Callers, Acquire(c)
  PROVE  pc' \in [Callers -> Places] /\ Cardinality(Holders') <= MaxConcurrent
<1>1. pc' \in [Callers -> Places]
  BY DEF Acquire, Goto, TypeOK, Places
<1>2. Holders' = Holders \cup {c} /\ c \notin Holders
  BY DEF Acquire, Goto, Holders, TypeOK
<1>3. Cardinality(Holders') = Cardinality(Holders) + 1
  BY <1>2, HoldersFinite, FS_AddElement
<1>4. Cardinality(Holders) < MaxConcurrent /\ MaxConcurrent \in Nat
  BY LimitFacts DEF Acquire
<1> QED  BY <1>1, <1>3, <1>4, HoldersFinite

\* A capped counter is a number.
LEMMA UpToBound ==
  ASSUME NEW bound \in Nat, NEW n \in Nat
  PROVE  UpTo(bound, n + 1) \in Nat
BY DEF UpTo

\* Every atomic step of a caller, of the clock and of the dependency.
LEMMA GuardStep == TypeOK /\ [Next]_vars => TypeOK'
<1> SUFFICES ASSUME TypeOK, [Next]_vars PROVE TypeOK'
  OBVIOUS
<1>1. CASE UNCHANGED vars \/ Tick \/ Health
  BY <1>1 DEF vars, breaker, Tick, Health, TypeOK, Holders
<1>2. ASSUME NEW c \in Callers, Step(c) PROVE TypeOK'
  <2>1. pc' \in [Callers -> Places] /\ Cardinality(Holders') <= MaxConcurrent
    <3>1. CASE Acquire(c)
      BY <3>1, AcquireStep
    <3>2. CASE ~Acquire(c)
      <4>1. pc[c] # "idle"
        BY <1>2, <3>2 DEF Step, AllowClosed, CheckTimer, CheckProbes, CallReturns, CountSuccess,
             CheckClosable, Forgive, CountFailure, CheckOpenable, StoreOpen, ResetSuccesses,
             StoreTime, StoreClosed, CloseFailures, CloseSuccesses
      <4>2. after[c] \in Places
        BY DEF TypeOK, Places
      <4>3. \E place \in Places : Goto(c, place)
        BY <1>2, <3>2, <4>2 DEF Places, Step, AllowClosed, CheckTimer, CheckProbes, CallReturns,
             CountSuccess, CheckClosable, Forgive, CountFailure, CheckOpenable, StoreOpen,
             ResetSuccesses, StoreTime, StoreClosed, CloseFailures, CloseSuccesses
      <4> QED  BY <4>1, <4>3, MoveOn
    <3> QED  BY <3>1, <3>2
  <2>2. failures' \in Nat /\ successes' \in Nat
    BY <1>2, UpToBound, LimitFacts DEF TypeOK, breaker, Step, Acquire, AllowClosed, CheckTimer,
       CheckProbes, CallReturns, CountSuccess, CheckClosable, Forgive, CountFailure, CheckOpenable,
       StoreOpen, ResetSuccesses, StoreTime, StoreClosed, CloseFailures, CloseSuccesses
  <2>3. isOpen' \in BOOLEAN /\ aged' \in BOOLEAN /\ healthy' \in BOOLEAN
    BY <1>2 DEF TypeOK, breaker, Step, Acquire, AllowClosed, CheckTimer, CheckProbes, CallReturns,
       CountSuccess, CheckClosable, Forgive, CountFailure, CheckOpenable, StoreOpen, ResetSuccesses,
       StoreTime, StoreClosed, CloseFailures, CloseSuccesses
  <2>4. after' \in [Callers -> {"call", "forgive"}]
    BY <1>2 DEF TypeOK, breaker, Step, Acquire, AllowClosed, CheckTimer, CheckProbes, CallReturns,
       CountSuccess, CheckClosable, Forgive, CountFailure, CheckOpenable, StoreOpen, ResetSuccesses,
       StoreTime, StoreClosed, CloseFailures, CloseSuccesses
  <2> QED  BY <2>1, <2>2, <2>3, <2>4 DEF TypeOK
<1> QED  BY <1>1, <1>2 DEF Next

\* For any callers that interleave the stores of the breaker, whatever fails or
\* is refused: every caller is at a place of its code, and calls under way never
\* exceed the permits of the bulkhead.
THEOREM GuardTypeCorrect == Spec => []TypeOK
<1>1. Init => TypeOK
  <2> SUFFICES ASSUME Init PROVE TypeOK
    OBVIOUS
  <2>1. Holders = {}
    BY DEF Init, Holders
  <2>2. Cardinality(Holders) <= MaxConcurrent
    BY <2>1, FS_EmptySet, LimitFacts
  <2> QED  BY <2>2 DEF Init, TypeOK, Places
<1> QED  BY <1>1, GuardStep, PTL DEF Spec
=============================================================================
