----------------------------- MODULE StatsWriter -----------------------------
(***************************************************************************)
(* service/stats-writer: the consumer group session, the batch of rows it  *)
(* collects for ClickHouse, the flush loop and the offsets it commits.     *)
(* Positions of the log stand for the messages and for the rows they       *)
(* become.                                                                 *)
(***************************************************************************)
EXTENDS EventLog

CONSTANTS
  BatchRows,   \* rows that fill a batch (1000)
  MaxRetries,  \* consecutive errors of Consume that stop the consumer (5)
  MaxLog       \* bound: messages a producer appends

NoOffset == -1

VARIABLES
  joined,     \* the process is in a consumer group session
  next,       \* messages the session has been handed
  marked,     \* offset the session has marked
  committed,  \* offset the group has committed, or NoOffset
  origin,     \* where the group began to read without an offset
  retries,    \* consecutive errors of Consume
  ticking,    \* the flush loop is alive
  batch,      \* rows appended and not sent
  stored      \* rows in ClickHouse

session == <<joined, next, marked, origin, retries>>
rows    == <<batch, stored>>
writerVars == <<session, committed, ticking, rows>>

\* Any producer of a stats topic: a publisher of the outbox, or the card or the
\* merchant service.
Produce(e) == /\ Len(log) < MaxLog
              /\ log' = Append(log, e)
              /\ UNCHANGED writerVars

\* batch.Send: an error may come after ClickHouse has stored the rows.
Sent(S)   == stored' = stored \cup S
Unsent(S) == Sent(S) \/ UNCHANGED stored

\* Consume starts a session at the committed offset, at the newest message
\* when there is none.
Join ==
  /\ ~joined /\ retries < MaxRetries
  /\ joined' = TRUE /\ marked' = committed
  /\ LET start == IF committed = NoOffset THEN Len(log) ELSE committed IN
       /\ next' = start
       /\ origin' = IF committed = NoOffset THEN start ELSE origin
  /\ UNCHANGED <<committed, retries, ticking, rows, log>>

\* Consume fails before a session exists; after MaxRetries in a row the
\* goroutine returns and nothing starts it again.
ConsumeFails ==
  /\ ~joined /\ retries < MaxRetries
  /\ retries' = retries + 1
  /\ UNCHANGED <<joined, next, marked, origin, committed, ticking, rows, log>>

\* A message is marked when dispatch succeeds; one whose dispatch fails is
\* left unmarked, and the loop goes on with the message after it.
Handed(ok) ==
  /\ next' = next + 1
  /\ marked' = IF ok THEN next + 1 ELSE marked
  /\ UNCHANGED <<joined, origin, retries, committed, ticking, log>>

Full == Cardinality(batch) + 1 >= BatchRows

\* ConsumeClaim and appendToBatch for one message, under the batch's mutex.
ConsumeClaim ==
  /\ joined /\ next < Len(log)
  /\ \/ Handed(FALSE) /\ UNCHANGED rows
     \/ Handed(TRUE) /\ ~Full /\ batch' = batch \cup {next + 1} /\ UNCHANGED stored
     \/ Handed(TRUE) /\ Full /\ batch' = {} /\ Sent(batch \cup {next + 1})
     \/ Handed(FALSE) /\ Full /\ batch' = {} /\ Unsent(batch \cup {next + 1})

\* The client commits the marked offset every second.
AutoCommit ==
  /\ joined /\ committed' = marked
  /\ UNCHANGED <<session, ticking, rows, log>>

\* The flush loop.  A batch is deleted whether or not it could be sent.
Flush ==
  /\ ticking /\ batch # {}
  /\ batch' = {}
  /\ Sent(batch) \/ Unsent(batch)
  /\ UNCHANGED <<session, committed, ticking, log>>

\* A rebalance ends the session.  Cleanup closes the repository, which stops
\* the flush loop for the rest of the process's life and flushes once; then
\* the marked offset is committed.  An error of either counts as a retry.
Rebalance ==
  /\ joined /\ joined' = FALSE
  /\ ticking' = FALSE
  /\ batch' = {}
  /\ \/ Sent(batch) /\ committed' = marked /\ retries' = 0
     \/ Sent(batch) /\ UNCHANGED committed /\ retries' = retries + 1
     \/ /\ batch # {} /\ Unsent(batch) /\ retries' = retries + 1
        /\ committed' \in {committed, marked}
  /\ next' = 0 /\ marked' = NoOffset
  /\ UNCHANGED <<origin, log>>

\* The process ends, with a last flush or without, and is started again.
Restart ==
  /\ joined' = FALSE /\ retries' = 0 /\ ticking' = TRUE
  /\ batch' = {}
  /\ Sent(batch) \/ Unsent(batch)
  /\ next' = 0 /\ marked' = NoOffset
  /\ UNCHANGED <<origin, committed, log>>

-----------------------------------------------------------------------------

WriterInit ==
  /\ log = <<>>
  /\ joined = FALSE /\ ticking = TRUE
  /\ next = 0 /\ marked = NoOffset /\ committed = NoOffset /\ origin = 0
  /\ retries = 0
  /\ batch = {} /\ stored = {}

WriterStep == \/ Join \/ ConsumeFails \/ ConsumeClaim \/ AutoCommit
              \/ Flush \/ Rebalance \/ Restart

WriterNext == WriterStep \/ \E e \in Events : Produce(e)

WriterSpec == WriterInit /\ [][WriterNext]_<<writerVars, log>>

(***************************************************************************)
(* Properties.                                                             *)
(***************************************************************************)

Offsets == {NoOffset} \cup (0..Len(log))

\* Every variable keeps its type; no offset is past the end of the log.
WriterTypeOK ==
  /\ joined \in BOOLEAN /\ ticking \in BOOLEAN
  /\ next \in 0..Len(log) /\ origin \in 0..Len(log)
  /\ marked \in Offsets /\ committed \in Offsets
  /\ retries \in Nat
  /\ batch \subseteq Positions /\ stored \subseteq Positions

\* Commits never run ahead of marks, nor marks of what the session was handed,
\* through rebalances, restarts and commits that fail or lag: what has not been
\* handed over is handed over to a later session.
OffsetsInOrder == joined => /\ committed <= marked /\ marked <= next
                            /\ next <= Len(log)

\* The comment in ConsumeClaim: a message that could not be processed is not
\* marked, so that Kafka sends it again and no event is lost in silence.  So
\* what the group has committed is in ClickHouse or on its way in the batch.
CommittedIsKept == \A i \in (origin + 1)..committed : i \in stored \cup batch
=============================================================================
