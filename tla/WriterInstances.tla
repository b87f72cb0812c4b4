-------------------------- MODULE WriterInstances --------------------------
(* The small sets of commands the runs of the writer use. *)
EXTENDS Integers

Cmd(i, k, v, o, n) == [idem |-> i, key |-> k, version |-> v, op |-> o, data |-> n]

\* A write and the delete that follows it.
TwoCommands ==
  {Cmd("i1", "a", 1, "upsert", 1),
   Cmd("i2", "a", 2, "delete", 2)}

\* A delete, the write that follows it, and one of the same version under the
\* delete's key.
ThreeCommands ==
  {Cmd("i1", "a", 1, "delete", 1),
   Cmd("i2", "a", 2, "upsert", 2),
   Cmd("i1", "a", 2, "patch", 3)}

TwoIdem == {"i1", "i2"}
OneKey == {"a"}
=============================================================================
