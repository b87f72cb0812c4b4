--------------------------- MODULE MCWriteStatus ---------------------------
(* Small instances of WriteStatus for TLC. *)
EXTENDS WriteStatus, WriterInstances, TLC

CONSTANTS r1, r2

\* A delete, a second use of its key, a write under a generated key with the
\* version of the latter, and the largest version, with an unknown operation.
StatusCommands ==
  {Cmd("i1", "a", 1, "delete", 1),
   Cmd("i1", "a", 2, "patch", 2),
   Cmd("u1", "a", 2, "upsert", 3),
   Cmd("i2", "a", 3, "unknown", 4)}
StatusIdem == {"i1", "i2", "u1"}

Symmetry == Permutations({r1, r2})
=============================================================================
