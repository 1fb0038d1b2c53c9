---------------------------- MODULE EventPipeline ----------------------------
(***************************************************************************)
(* The outbox with its publishers, the topic and the stats writer          *)
(* together.  The two sides share nothing but the log.                     *)
(***************************************************************************)
EXTENDS Outbox, StatsWriter

pipelineVars == <<outboxVars, writerVars, log>>

PipelineInit == OutboxInit /\ WriterInit

PipelineNext == \/ OutboxNext /\ UNCHANGED writerVars
                \/ WriterStep /\ UNCHANGED outboxVars

PipelineSpec == PipelineInit /\ [][PipelineNext]_pipelineVars
=============================================================================
