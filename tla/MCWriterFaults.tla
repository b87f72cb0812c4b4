--------------------------- MODULE MCWriterFaults ---------------------------
(* Small instances of WriterFaults for TLC. *)
EXTENDS WriterFaults, WriterRefinement, WriterInstances
=============================================================================
