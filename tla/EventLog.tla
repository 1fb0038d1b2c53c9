------------------------------ MODULE EventLog ------------------------------
(***************************************************************************)
(* The Kafka topic between the publishers of the outbox and the consumers  *)
(* of its events, reduced to one partition: a log that only grows.         *)
(***************************************************************************)
EXTENDS Integers, Sequences, FiniteSets

CONSTANT Events   \* outbox events; each has its event_id

VARIABLE log      \* the messages in the partition, oldest first

Positions == 1..Len(log)

Logged(e) == \E i \in Positions : log[i] = e

\* How many copies of an event the log holds.
Copies(e) == Cardinality({i \in Positions : log[i] = e})
=============================================================================
