------------------------------ MODULE MCWriter ------------------------------
(* Small instances of Writer for TLC. *)
EXTENDS Writer, WriterInstances
=============================================================================
