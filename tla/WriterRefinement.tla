-------------------------- MODULE WriterRefinement --------------------------
(* The writer implements the command log. *)
EXTENDS Writer

Log == INSTANCE CommandLog WITH
         log <- db.outbox,
         rows <- db.payload,
         confirmed <- {topic[m] : m \in {n \in Messages :
                                    topic[n] \in Command /\ mqtt[n] = "acked"}},
         AppliedOp <- KnownOp

\* The committed outbox, the payload table and the acknowledged commands of the
\* writer behave as the command log: batches, redeliveries and crashes of
\* WriteEngine::process_batch and main.rs are invisible through them.
ImplementsCommandLog == Log!Spec
=============================================================================
