---------------------------- MODULE StoreMigrate ----------------------------
(***************************************************************************)
(* The offline migration of stores (crates/ixmati-store-migrate, lib.rs):  *)
(* rename, merge and split read the source databases, write one temporary  *)
(* database per destination and rename the temporaries into place.  The    *)
(* tool may fail or be killed between any two steps and is then run again; *)
(* in between the operator may start the writers again.  Destinations that *)
(* a failed run has put in place stay.                                     *)
(*                                                                         *)
(* An applied command stands for all it left in a source: its _idempotency *)
(* row, its outbox row and, while it is the last of its key, the row or    *)
(* tombstone.  Source stores are numbered in the order of their names.     *)
(* Event ids are random UUIDs, so the branch for one event id in two       *)
(* sources is left out, as are the order of the outbox rows, the backups,  *)
(* the report and the modes plan and verify, which write nothing.          *)
(***************************************************************************)
EXTENDS Integers, Sequences, FiniteSets, SequencesExt

CONSTANTS
  Command,     \* commands with idempotency key, key, version, time, and op: the
               \* operation with the digest of the command
  Manifest,    \* the manifests an operator may use: operation, sources, targets
  Bucket,      \* sha256-key-v1: the bucket of a key, counted from 1
  MaxApplied,  \* bound on the commands applied to the sources
  MaxFaults    \* bound on failed steps and kills

Source == UNION {ToSet(m.sources) : m \in Manifest}
Target == UNION {1..m.targets : m \in Manifest}

ASSUME MigrateConstants ==
  /\ \A c \in Command : /\ {"id", "key", "version", "op", "time"} = DOMAIN c
                         /\ c.version \in Nat /\ c.time \in Int
  /\ \A m \in Manifest : /\ m.op \in {"rename", "merge", "split"}
                         /\ m.sources \in Seq(Nat) /\ m.targets \in Nat \ {0}
                         /\ m.op = "split" => Len(m.sources) = 1 /\ m.targets >= 2
                         /\ m.op # "split" => m.targets = 1
  /\ \A m \in Manifest : m.op = "split" => \A c \in Command : Bucket[c.key] \in 1..m.targets
  /\ MaxApplied \in Nat /\ MaxFaults \in Nat

VARIABLES
  manifest,  \* the migration to be done
  applied,   \* commands applied to each source
  pending,   \* sources whose outbox has unpublished rows
  pc,        \* step of the running tool, or "idle"
  unread,    \* rows collect_states has still to merge, with their source's position
  states,    \* rows and tombstones merged so far
  temp,      \* temporary database of each target for this process id, or NoFile
  dest,      \* destination database of each target, or NoFile
  next,      \* the next target to be renamed
  faults

memory == <<unread, states>>
vars == <<manifest, applied, pending, pc, memory, temp, dest, next, faults>>

NoFile == [rows |-> {}, idempotency |-> {}, outbox |-> {}, made |-> FALSE]
Empty == [NoFile EXCEPT !.made = TRUE]
Targets == 1..manifest.targets
Positions == DOMAIN manifest.sources
Row == [cmd : Command, source : Source]

Init ==
  /\ manifest \in Manifest
  /\ applied = [s \in Source |-> {}] /\ pending = {}
  /\ pc = "idle" /\ unread = {} /\ states = {} /\ next = 1 /\ faults = 0
  /\ temp = [t \in Target |-> NoFile]
  /\ dest = [t \in Target |-> NoFile]

-----------------------------------------------------------------------------
(* What surrounds the tool *)

\* A writer applies a command to its store (module Writer), as long as no
\* destination has been put in place.  Its clock may step back.
Apply(s, c) ==
  /\ pc = "idle" /\ \A t \in Target : ~dest[t].made
  /\ Cardinality(UNION {{<<r, a>> : a \in applied[r]} : r \in Source}) < MaxApplied
  /\ \A a \in applied[s] : a.id # c.id /\ (a.key = c.key => a.version < c.version)
  /\ applied' = [applied EXCEPT ![s] = @ \cup {c}]
  /\ pending' = pending \cup {s}
  /\ UNCHANGED <<manifest, pc, memory, temp, dest, next, faults>>

Drain(s) ==
  /\ pc = "idle" /\ s \in pending
  /\ pending' = pending \ {s}
  /\ UNCHANGED <<manifest, applied, pc, memory, temp, dest, next, faults>>

-----------------------------------------------------------------------------
(* Reading the sources *)

\* The row or tombstone of a key in a source: of its last command.
Current(s, k) ==
  {c \in applied[s] : c.key = k /\ \A a \in applied[s] : a.key = k => a.version <= c.version}

\* Mutant: the younger row wins, whatever its version.
younger(a, b) ==
  \/ a.cmd.time > b.cmd.time
  \/ a.cmd.time = b.cmd.time /\ a.cmd.version > b.cmd.version
  \/ a.cmd.time = b.cmd.time /\ a.cmd.version = b.cmd.version /\ a.source < b.source

\* compare_state(a, b) is Greater.
compare_state(a, b) ==
  \/ a.cmd.version > b.cmd.version
  \/ a.cmd.version = b.cmd.version /\ a.cmd.time > b.cmd.time
  \/ a.cmd.version = b.cmd.version /\ a.cmd.time = b.cmd.time /\ a.source < b.source

\* merge_state; known holds at most one row of the candidate's key.
merge_state(known, candidate) ==
  LET current == {r \in known : r.cmd.key = candidate.cmd.key}
  IN IF \A r \in current : compare_state(candidate, r)
       THEN (known \ current) \cup {candidate}
       ELSE known

\* What collect_states selects from a source.
Rows(s) == {[cmd |-> c, source |-> s] : c \in UNION {Current(s, a.key) : a \in applied[s]}}

\* command_digest covers the name of the store, so commands that differently named
\* stores applied under one idempotency key always differ.  Here they may be
\* equal, too: the merge then has more to decide.
same_idempotency(a, b) == /\ a.key = b.key /\ a.version = b.version /\ a.op = b.op

At(i) == applied[manifest.sources[i]]

\* Mutant: of two divergent rows the first source's is kept.
never_diverges == FALSE

\* collect_idempotency returns a conflict.
diverges ==
  \E i, j \in Positions : \E a \in At(i), b \in At(j) : a.id = b.id /\ ~same_idempotency(a, b)

\* Mutant: only the newest row of each key is carried over.
collect_newest ==
  UNION {{a \in At(i) : \A j \in Positions : \A b \in At(j) : a.key = b.key => b.version <= a.version}
           : i \in Positions}

\* Otherwise the row of the first source that has the key is kept.
collect_idempotency ==
  UNION {{a \in At(i) : \A j \in 1..(i - 1) : \A b \in At(j) : a.id # b.id} : i \in Positions}

collect_outbox == UNION {{<<s, a>> : a \in applied[s]} : s \in ToSet(manifest.sources)}

target_of(c) == IF manifest.op = "split" THEN Bucket[c.key] ELSE 1

\* Mutant: retries are not carried over to the destinations.
ShareWithoutRetries(t) ==
  [rows |-> {r \in states : target_of(r.cmd) = t},
   idempotency |-> {}, outbox |-> {e \in collect_outbox : target_of(e[2]) = t}, made |-> TRUE]

\* What write_destinations inserts into target t.
Share(t) ==
  [rows |-> {r \in states : target_of(r.cmd) = t},
   idempotency |-> {a \in collect_idempotency : target_of(a) = t},
   outbox |-> {e \in collect_outbox : target_of(e[2]) = t},
   made |-> TRUE]

-----------------------------------------------------------------------------
(* execute *)

Unchanged == UNCHANGED <<manifest, applied, pending, faults>>

\* The tool ends with nothing more written; its memory goes with it.
Return == pc' = "idle" /\ unread' = {} /\ states' = {}

\* preflight_source of every source.
Start ==
  /\ pc = "idle" /\ pending \cap ToSet(manifest.sources) = {}
  /\ pc' = "collect" /\ states' = {}
  /\ unread' = UNION {{<<i, r>> : r \in Rows(manifest.sources[i])} : i \in Positions}
  /\ Unchanged /\ UNCHANGED <<temp, dest, next>>

\* One row is merged: source after source, in the order of the manifest.
collect_states ==
  /\ pc = "collect"
  /\ \E u \in unread :
       /\ \A v \in unread : u[1] <= v[1]
       /\ states' = merge_state(states, u[2])
       /\ unread' = unread \ {u}
  /\ Unchanged /\ UNCHANGED <<pc, temp, dest, next>>

\* collect_idempotency finds a conflict, or a destination exists.
Refuse ==
  /\ pc = "collect" /\ unread = {}
  /\ diverges \/ \E t \in Targets : dest[t].made
  /\ Return
  /\ Unchanged /\ UNCHANGED <<temp, dest, next>>

\* Neither.  temporary_path: under another process id, temporaries of an earlier
\* run are other files.
Accept ==
  /\ pc = "collect" /\ unread = {}
  /\ ~diverges /\ \A t \in Targets : ~dest[t].made
  /\ pc' = "open"
  /\ temp' \in {temp, [t \in Target |-> NoFile]}
  /\ Unchanged /\ UNCHANGED <<memory, dest, next>>

\* The temporaries of this process id do not exist: they get the schema.
OpenTemporaries ==
  /\ pc = "open" /\ \A t \in Targets : ~temp[t].made
  /\ temp' = [t \in Target |-> IF t \in Targets THEN Empty ELSE temp[t]]
  /\ pc' = "fill"
  /\ Unchanged /\ UNCHANGED <<memory, dest, next>>


\* A killed run with the same process id has left one: CREATE TABLE fails, and
\* all temporaries are removed.
RemoveLeftovers ==
  /\ pc = "open" /\ \E t \in Targets : temp[t].made
  /\ temp' = [t \in Target |-> NoFile]
  /\ Return
  /\ Unchanged /\ UNCHANGED <<dest, next>>

Inserted(file, share) ==
  [rows |-> file.rows \cup share.rows,
   idempotency |-> file.idempotency \cup share.idempotency,
   outbox |-> file.outbox \cup share.outbox, made |-> TRUE]

\* Every row is inserted on its own; a kill in between leaves an unfinished
\* temporary (Kill at "fill").
FillTemporaries ==
  /\ pc = "fill"
  /\ temp' = [t \in Target |-> IF t \in Targets THEN Inserted(temp[t], Share(t)) ELSE temp[t]]
  /\ pc' = "rename" /\ next' = 1 /\ states' = {}
  /\ Unchanged /\ UNCHANGED <<unread, dest>>

\* Mutant: the loop goes on after the last destination.
RenamePastEnd ==
  /\ pc = "rename"
  /\ dest' = [dest EXCEPT ![next] = temp[next]]
  /\ temp' = [temp EXCEPT ![next] = NoFile]
  /\ next' = next + 1
  /\ pc' = IF next > manifest.targets THEN "idle" ELSE "rename"
  /\ Unchanged /\ UNCHANGED memory

\* fs::rename of one temporary after the other.
RenameTemporary ==
  /\ pc = "rename"
  /\ dest' = [dest EXCEPT ![next] = temp[next]]
  /\ temp' = [temp EXCEPT ![next] = NoFile]
  /\ next' = IF next = manifest.targets THEN 1 ELSE next + 1
  /\ pc' = IF next = manifest.targets THEN "idle" ELSE "rename"
  /\ Unchanged /\ UNCHANGED memory

\* An insert fails: the temporaries are removed.
WriteFails ==
  /\ pc = "fill" /\ faults < MaxFaults
  /\ temp' = [t \in Target |-> NoFile]
  /\ Return /\ faults' = faults + 1
  /\ UNCHANGED <<manifest, applied, pending, dest, next>>

\* A rename fails, or the tool is killed: the files stay as they are.
Kill ==
  /\ pc # "idle" /\ faults < MaxFaults
  /\ Return /\ next' = 1 /\ faults' = faults + 1
  /\ UNCHANGED <<manifest, applied, pending, temp, dest>>

-----------------------------------------------------------------------------
Tool ==
  \/ Start \/ collect_states \/ Refuse \/ Accept
  \/ OpenTemporaries \/ RemoveLeftovers \/ FillTemporaries \/ RenameTemporary

Next ==
  \/ \E s \in Source, c \in Command : Apply(s, c)
  \/ \E s \in Source : Drain(s)
  \/ Tool
  \/ WriteFails
  \/ Kill

\* The operator runs the tool again and again, the tool goes on, and the publisher
\* drains the outboxes.
Spec == Init /\ [][Next]_vars /\ WF_vars(Tool) /\ \A s \in Source : WF_vars(Drain(s))

-----------------------------------------------------------------------------
(* Properties *)

\* Every variable keeps its type.
TypeOK ==
  /\ manifest \in Manifest
  /\ \A s \in Source : applied[s] \subseteq Command
  /\ pending \subseteq Source
  /\ pc \in {"idle", "collect", "open", "fill", "rename"}
  /\ unread \subseteq Positions \X Row /\ states \subseteq Row
  /\ \A t \in Target : \A f \in {temp[t], dest[t]} :
       /\ DOMAIN f = DOMAIN NoFile /\ f.made \in BOOLEAN
       /\ f.rows \subseteq Row /\ f.idempotency \subseteq Command
       /\ f.outbox \subseteq Source \X Command
  /\ next \in Targets /\ faults \in 0..MaxFaults

Placed == {t \in Targets : dest[t].made}
Applied == UNION {{[cmd |-> a, source |-> s] : a \in applied[s]} : s \in ToSet(manifest.sources)}

\* RUNBOOK-STORE-MIGRATION: for each key of a destination in place, and for no
\* other, it holds the row or tombstone of highest version, then latest time,
\* then smallest source, in whatever order the manifest lists the sources.
LatestStateWins ==
  \A t \in Placed :
    /\ \A r \in dest[t].rows : r \in Applied /\ target_of(r.cmd) = t
    /\ \A a \in Applied :
         target_of(a.cmd) = t =>
           \E r \in dest[t].rows :
             /\ r.cmd.key = a.cmd.key
             /\ r.cmd.version >= a.cmd.version
             /\ r.cmd.version = a.cmd.version =>
                  r.cmd.time >= a.cmd.time /\ (r.cmd.time = a.cmd.time => r.source <= a.source)
             /\ \A q \in dest[t].rows : q.cmd.key = r.cmd.key => q = r

\* The writer of a destination answers a retry of every command its sources have
\* applied as a duplicate: the idempotency rows come along, of the commands a
\* later one has overwritten too, and to the store that owns the key.
RetriesStayDuplicates ==
  \A t \in Placed, a \in Applied :
    target_of(a.cmd) = t =>
      \E i \in dest[t].idempotency : i.id = a.cmd.id /\ same_idempotency(i, a.cmd)

\* In a destination, as in a store, the row or tombstone of a key carries the
\* highest version of its idempotency rows: the version check goes on where
\* the sources stopped.
FloorMatchesRow ==
  \A t \in Placed :
    /\ \A i \in dest[t].idempotency : \E r \in dest[t].rows :
         r.cmd.key = i.key /\ i.version <= r.cmd.version
    /\ \A r \in dest[t].rows : \E i \in dest[t].idempotency :
         i.key = r.cmd.key /\ i.version = r.cmd.version

\* RUNBOOK-STORE-MIGRATION: sources that disagree about an idempotency key are
\* never merged, whichever of them applied its command first.
DivergentNeverMerged ==
  \A a, b \in Applied :
    a.cmd.id = b.cmd.id /\ ~same_idempotency(a.cmd, b.cmd) => Placed = {}


=============================================================================
