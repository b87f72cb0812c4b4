--------------------------- MODULE MCStoreMigrate ---------------------------
(* Small instances of StoreMigrate for TLC. *)
EXTENDS StoreMigrate

Cmd(id, key, version, op, time) ==
  [id |-> id, key |-> key, version |-> version, op |-> op, time |-> time]

\* An update, a later delete and an update that reuses the delete's idempotency
\* key, an older version at a later time, and another key.
SomeCommands ==
  {Cmd("i1", "k1", 1, "upsert", 1), Cmd("i2", "k1", 2, "delete", 1), Cmd("i2", "k1", 2, "upsert", 2),
   Cmd("i3", "k1", 1, "upsert", 2), Cmd("i4", "k2", 1, "upsert", 1)}

SomeManifests ==
  {[op |-> "merge", sources |-> <<1, 2>>, targets |-> 1],
   [op |-> "merge", sources |-> <<2, 1>>, targets |-> 1],
   [op |-> "rename", sources |-> <<1>>, targets |-> 1],
   [op |-> "split", sources |-> <<1>>, targets |-> 2]}

TwoBuckets == [k \in {"k1", "k2"} |-> IF k = "k1" THEN 1 ELSE 2]
=============================================================================
