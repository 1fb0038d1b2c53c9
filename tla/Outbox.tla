------------------------------- MODULE Outbox -------------------------------
(***************************************************************************)
(* shared/outbox: the table outbox_events and the publishers that move its *)
(* rows to Kafka.  The services of the financial context share one         *)
(* database and each runs a publisher, so several of them claim from one   *)
(* table.  Every action is one SQL statement or one SendMessage.           *)
(***************************************************************************)
EXTENDS EventLog

CONSTANTS
  Publishers,   \* publisher goroutines over the table
  Routed,       \* events whose type resolveTopic knows
  BatchSize,    \* LIMIT of one claim (50)
  MaxAttempts,  \* claims of one row (10)
  MaxCopies,    \* how often one SendMessage may append: 1 + Producer.Retry.Max
  Nothing       \* a publisher that has no status to write

ASSUME PublishersAssumption == IsFiniteSet(Publishers)
ASSUME RoutedAssumption == Routed \subseteq Events
ASSUME LimitsAssumption == /\ BatchSize \in Nat \ {0}
                           /\ MaxAttempts \in Nat \ {0}
                           /\ MaxCopies \in Nat \ {0}
ASSUME NothingAssumption == Nothing \notin Events \X {"published", "failed"}

VARIABLES
  row,       \* event -> status of its outbox row, "none" before the insert
  attempts,  \* event -> attempts
  ripe,      \* rows that waited long enough for their status (available_at)
  held,      \* publisher -> rows of its batch it has not sent yet
  write      \* publisher -> the status it is about to write, <<event, status>>

outboxVars == <<row, attempts, ripe, held, write>>

RowStatuses == {"none", "pending", "processing", "published", "failed"}

\* InsertOutbox: the row may be claimed at once.
InsertOutbox(e) ==
  /\ row[e] = "none"
  /\ row' = [row EXCEPT ![e] = "pending"]
  /\ ripe' = ripe \cup {e}
  /\ UNCHANGED <<attempts, held, write, log>>

\* 30 seconds pass for a failed row, 15 minutes for a row in processing; its
\* publisher may have died, or may still be busy with the rest of its batch.
Elapse(e) ==
  /\ row[e] \in {"failed", "processing"} /\ e \notin ripe
  /\ ripe' = ripe \cup {e}
  /\ UNCHANGED <<row, attempts, held, write, log>>

\* Mutant: the attempts are not compared with their limit.
ClaimableForever == {e \in ripe : row[e] \in {"pending", "failed", "processing"}}

\* Mutant: rows left in processing are not reclaimed.
ClaimableFresh == {e \in ripe : row[e] \in {"pending", "failed"} /\ attempts[e] < MaxAttempts}

Claimable == {e \in ripe : /\ row[e] \in {"pending", "failed", "processing"}
                           /\ attempts[e] < MaxAttempts}

Mark(S) == /\ row' = [e \in Events |-> IF e \in S THEN "processing" ELSE row[e]]
           /\ attempts' = [e \in Events |-> attempts[e] + (IF e \in S THEN 1 ELSE 0)]
           /\ ripe' = ripe \ S

\* Mutant: claiming does not count the attempt.
ClaimUncounted(p) ==
  /\ held[p] = {} /\ write[p] = Nothing
  /\ \E S \in SUBSET Claimable \ {{}} :
       /\ Cardinality(S) <= BatchSize
       /\ row' = [e \in Events |-> IF e \in S THEN "processing" ELSE row[e]]
       /\ ripe' = ripe \ S
       /\ held' = [held EXCEPT ![p] = S]
  /\ UNCHANGED <<attempts, write, log>>

\* ClaimPendingOutbox.  SKIP LOCKED leaves rows of a concurrent claim out; a
\* claim that commits but whose answer is lost leaves its rows in processing.
ClaimPendingOutbox(p) ==
  /\ held[p] = {} /\ write[p] = Nothing
  /\ \E S \in SUBSET Claimable \ {{}} :
       /\ Cardinality(S) <= BatchSize
       /\ Mark(S)
       /\ held' = [held EXCEPT ![p] = S] \/ UNCHANGED held
  /\ UNCHANGED <<write, log>>

\* Mutant: an error of SendMessage is ignored.
PublishBlind(p, e) ==
  /\ e \in held[p] /\ write[p] = Nothing
  /\ held' = [held EXCEPT ![p] = @ \ {e}]
  /\ \E n \in 0..MaxCopies : log' = log \o [i \in 1..n |-> e]
  /\ write' = [write EXCEPT ![p] = <<e, "published">>]
  /\ UNCHANGED <<row, attempts, ripe>>

\* SendMessage for the next row of the batch.  The producer retries inside the
\* call, and an error does not mean that nothing was appended.  A row whose
\* type has no topic is completed without being sent.
Publish(p, e) ==
  /\ e \in held[p] /\ write[p] = Nothing
  /\ held' = [held EXCEPT ![p] = @ \ {e}]
  /\ \/ /\ e \in Routed
        /\ \E n \in 0..MaxCopies, s \in {"published", "failed"} :
             /\ s = "published" => n > 0
             /\ log' = log \o [i \in 1..n |-> e]
             /\ write' = [write EXCEPT ![p] = <<e, s>>]
     \/ /\ e \notin Routed
        /\ write' = [write EXCEPT ![p] = <<e, "published">>]
        /\ UNCHANGED log
  /\ UNCHANGED <<row, attempts, ripe>>

\* CompleteOutbox or FailOutbox, by event id whatever the row says by now; an
\* error is only logged.
WriteStatus(p) ==
  /\ write[p] # Nothing
  /\ write' = [write EXCEPT ![p] = Nothing]
  /\ LET e == write[p][1] s == write[p][2] IN
       \/ /\ row' = [row EXCEPT ![e] = s]
          /\ ripe' = IF s = "failed" THEN ripe \ {e} ELSE ripe
       \/ UNCHANGED <<row, ripe>>
  /\ UNCHANGED <<attempts, held, log>>

\* The process stops between two steps, or its context is cancelled.
StopPublisher(p) ==
  /\ held[p] # {} \/ write[p] # Nothing
  /\ held' = [held EXCEPT ![p] = {}]
  /\ write' = [write EXCEPT ![p] = Nothing]
  /\ UNCHANGED <<row, attempts, ripe, log>>

-----------------------------------------------------------------------------

OutboxInit ==
  /\ row = [e \in Events |-> "none"]
  /\ attempts = [e \in Events |-> 0]
  /\ ripe = {}
  /\ held = [p \in Publishers |-> {}]
  /\ write = [p \in Publishers |-> Nothing]
  /\ log = <<>>

OutboxNext ==
  \/ \E e \in Events : InsertOutbox(e) \/ Elapse(e)
  \/ \E p \in Publishers : ClaimPendingOutbox(p) \/ WriteStatus(p) \/ StopPublisher(p)
  \/ \E p \in Publishers, e \in Events : Publish(p, e)

OutboxSpec == OutboxInit /\ [][OutboxNext]_<<outboxVars, log>>

\* A live publisher polls every 5 seconds and claims in the order of
\* available_at, so a claimable row gets its turn.  Nothing is assumed of
\* inserts, nor of publishers not stopping.
Claimed(e) == attempts'[e] > attempts[e]
OutboxFairness ==
  /\ \A e \in Events : /\ WF_<<outboxVars, log>>(Elapse(e))
                       /\ SF_<<outboxVars, log>>(OutboxNext /\ Claimed(e))
  /\ \A p \in Publishers : /\ WF_<<outboxVars, log>>(WriteStatus(p))
                           /\ WF_<<outboxVars, log>>(\E e \in Events : Publish(p, e))

OutboxFairSpec == OutboxSpec /\ OutboxFairness

(***************************************************************************)
(* Properties.                                                             *)
(***************************************************************************)

\* Every variable keeps its type; no row is claimed more than MaxAttempts times.
OutboxTypeOK ==
  /\ row \in [Events -> RowStatuses]
  /\ attempts \in [Events -> 0..MaxAttempts]
  /\ ripe \subseteq Events
  /\ held \in [Publishers -> SUBSET Events]
  /\ write \in [Publishers -> (Events \X {"published", "failed"}) \cup {Nothing}]
  /\ log \in Seq(Routed)

\* A row is published only when Kafka has its event, whichever publisher wrote
\* it last.
PublishedIsLogged ==
  \A e \in Routed : row[e] = "published" => Logged(e)

\* Whatever is sent again by stale claims, lost status writes and late
\* failures, an event appears in the topic at most as often as its attempts
\* and the producer's own retries allow.
CopiesWithinBudget == \A e \in Events : Copies(e) <= MaxCopies * attempts[e]

\* No lost claim, failed send, lost status write or publisher that stops in the
\* middle of its batch strands an event before its attempts are used up.
EventIsDelivered ==
  \A e \in Routed : row[e] = "pending" ~> (Logged(e) \/ attempts[e] = MaxAttempts)
=============================================================================
