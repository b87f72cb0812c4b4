------------------------------- MODULE Writer -------------------------------
(***************************************************************************)
(* The writer process of one store (crates/ixmati-writer): the MQTT        *)
(* consumer thread, the bounded channel, the batching main loop, the write *)
(* thread that runs a batch in one SQLite transaction, and the             *)
(* acknowledgement of every command once that transaction has committed.   *)
(* The broker is external and is modelled by what the writer asks of it: a *)
(* persistent QoS 1 session that keeps a command until it is acknowledged  *)
(* and sends an unacknowledged one again when the session is resumed.      *)
(*                                                                         *)
(* A message is its position on the command topic.  A row of every table   *)
(* is represented by the envelope it was written from; its version column  *)
(* is AsI64 of the envelope's version.  The cache queue that is filled     *)
(* after the acknowledgements is module CacheAside, the publication of the *)
(* outbox is module EventPublisher.                                        *)
(***************************************************************************)
EXTENDS Integers, Sequences, FiniteSets

CONSTANTS
  Command,           \* the well-formed write envelopes clients may send
  IdemKey,           \* idempotency keys
  Key,               \* (entity, key) pairs of the store
  None,              \* an absent row
  Garbage,           \* messages that do not deserialize to an envelope
  I64Max,            \* the largest version SQLite's INTEGER holds
  MaxMessages,       \* bound on the messages ever published
  MaxInflight,       \* Mosquitto's max_inflight_messages
  ChannelCapacity,   \* CONSUMER_CHANNEL_CAPACITY
  BatchSize,         \* BATCH_SIZE
  WatchdogEnabled    \* MQTT_WATCHDOG_TIMEOUT_MS > 0

U64Max == 2 * I64Max + 1

KnownOp == {"upsert", "patch", "delete"}

ASSUME WriterConstants ==
  /\ I64Max \in Nat
  /\ MaxMessages \in Nat
  /\ MaxInflight \in Nat \ {0}
  /\ ChannelCapacity \in Nat \ {0}
  /\ BatchSize \in Nat \ {0}
  /\ Command \subseteq [idem : IdemKey, key : Key, version : 0..U64Max,
                        op : KnownOp \cup {"unknown"}, data : Nat]
  /\ None \notin Command
  /\ Garbage \cap Command = {}
  /\ WatchdogEnabled \in BOOLEAN

VARIABLES
  topic,      \* everything published on ixmati/cmd/{store}/#, in order
  mqtt,       \* the broker's state of each message of topic
  ackq,       \* acknowledgements handed to the MQTT client, not yet sent
  chan,       \* the bounded channel between consumer thread and main loop
  batch,      \* Batcher.current, and after a flush the batch being processed
  pc,         \* main loop: "recv", "job" (waits for the write thread), "ack"
  idx,        \* the next command of the batch
  tx,         \* the tables as the open transaction sees them (db when none)
  db,         \* the committed tables
  pending_since  \* Progress.pending_since_ms: 0, or 1 for any time

broker == <<topic, mqtt, ackq>>
vars == <<topic, mqtt, ackq, chan, batch, pc, idx, tx, db, pending_since>>

Messages == 1..Len(topic)

Row == Command \cup {None}

Tables == [idem : [IdemKey -> Row], payload : [Key -> Row],
           tomb : [Key -> Row], outbox : Seq(Command)]

EmptyTables == [idem |-> [i \in IdemKey |-> None],
                payload |-> [k \in Key |-> None],
                tomb |-> [k \in Key |-> None],
                outbox |-> <<>>]

-----------------------------------------------------------------------------
(* u64 versions are bound to INTEGER columns with `as i64` and read back   *)
(* with `as u64`: both wrap.                                               *)

AsI64(v) == IF v <= I64Max THEN v ELSE v - (U64Max + 1)
AsU64(i) == IF i >= 0 THEN i ELSE i + (U64Max + 1)

\* Mutant: another version under the same key is not a duplicate.
AlreadyAppliedVersion(d, c) ==
  d.idem[c.idem] # None /\ d.idem[c.idem].version = c.version

\* IdempotencyTracker::check: a row with this key exists.
AlreadyApplied(d, c) == d.idem[c.idem] # None

\* The versions _idempotency holds for an entity, as stored.
StoredVersions(d, k) ==
  {AsI64(d.idem[i].version) : i \in {j \in IdemKey :
                                /\ d.idem[j] # None
                                /\ d.idem[j].key = k}}

\* IdempotencyTracker::current_version: SELECT MAX(version), cast back.
current_version(d, k) ==
  AsU64(CHOOSE v \in StoredVersions(d, k) :
          \A w \in StoredVersions(d, k) : w <= v)

\* Mutant: an equal version is accepted.
StrictVersionConflict(d, c) ==
  /\ StoredVersions(d, c.key) # {}
  /\ c.version < current_version(d, c.key)

\* Mutant: versions are not compared.
NoVersionCheck(d, c) == FALSE

VersionConflict(d, c) ==
  /\ StoredVersions(d, c.key) # {}
  /\ c.version <= current_version(d, c.key)

\* Tombstones::record and Tombstones::clear_if_older on one row.
record_tombstone(row, c) ==
  IF row = None \/ AsI64(c.version) >= AsI64(row.version) THEN c ELSE row

\* Mutant: a write leaves the tombstone in place.
never_clear(row, c) == row

clear_if_older(row, c) ==
  IF row # None /\ AsI64(row.version) <= AsI64(c.version) THEN None ELSE row

\* What one accepted command does to the tables inside the transaction.
ApplyTo(d, c) ==
  [idem    |-> [d.idem EXCEPT ![c.idem] = IF @ = None THEN c ELSE @],
   payload |-> [d.payload EXCEPT ![c.key] = IF c.op = "delete" THEN None ELSE c],
   tomb    |-> [d.tomb EXCEPT ![c.key] = IF c.op = "delete"
                                           THEN record_tombstone(@, c)
                                           ELSE clear_if_older(@, c)],
   outbox  |-> Append(d.outbox, c)]

\* The engine has nothing left to do for the command: its key is recorded,
\* a version at least as new is stored, or its operation is unknown.
Settled(d, c) ==
  \/ AlreadyApplied(d, c)
  \/ VersionConflict(d, c)
  \/ c.op \notin KnownOp

-----------------------------------------------------------------------------
Init ==
  /\ topic = <<>>
  /\ mqtt = <<>>
  /\ ackq = {}
  /\ chan = <<>>
  /\ batch = <<>>
  /\ pc = "recv"
  /\ idx = 1
  /\ tx = EmptyTables
  /\ db = EmptyTables
  /\ pending_since = 0

(* The broker (external) *)

\* A client publishes; a retry publishes an equal envelope again.
Publish(c) ==
  /\ Len(topic) < MaxMessages
  /\ topic' = Append(topic, c)
  /\ mqtt' = Append(mqtt, "queued")
  /\ UNCHANGED <<ackq, chan, batch, pc, idx, tx, db, pending_since>>

\* The oldest queued message is sent if the in-flight window has room.
Send(m) ==
  /\ mqtt[m] = "queued"
  /\ \A n \in Messages : mqtt[n] = "queued" => m <= n
  /\ Cardinality({n \in Messages : mqtt[n] = "inflight"}) < MaxInflight

\* The client's event loop sends a PUBACK.
SendAck(m) ==
  /\ m \in ackq
  /\ ackq' = ackq \ {m}
  /\ mqtt' = [mqtt EXCEPT ![m] = "acked"]
  /\ UNCHANGED <<topic, chan, batch, pc, idx, tx, db, pending_since>>

\* Resuming the session queues every unacknowledged message again.
Requeued == [m \in Messages |-> IF mqtt[m] = "inflight" THEN "queued" ELSE mqtt[m]]

\* The connection breaks and the event loop reconnects after a second.
Reconnect ==
  /\ mqtt' = Requeued
  /\ ackq' = {}
  /\ UNCHANGED <<topic, chan, batch, pc, idx, tx, db, pending_since>>

(* The consumer thread *)

\* Mutant: the channel is unbounded.
EnqueueUnbounded(m) ==
  /\ Send(m)
  /\ topic[m] \in Command
  /\ chan' = Append(chan, m)
  /\ mqtt' = [mqtt EXCEPT ![m] = "inflight"]
  /\ UNCHANGED <<topic, ackq, batch, pc, idx, tx, db, pending_since>>

\* try_send accepts the command.
Enqueue(m) ==
  /\ Send(m)
  /\ topic[m] \in Command
  /\ Len(chan) < ChannelCapacity
  /\ chan' = Append(chan, m)
  /\ mqtt' = [mqtt EXCEPT ![m] = "inflight"]
  /\ UNCHANGED <<topic, ackq, batch, pc, idx, tx, db, pending_since>>

\* try_send reports Full: the command is dropped unacknowledged.
Defer(m) ==
  /\ Send(m)
  /\ topic[m] \in Command
  /\ Len(chan) >= ChannelCapacity
  /\ mqtt' = [mqtt EXCEPT ![m] = "inflight"]
  /\ UNCHANGED <<topic, ackq, chan, batch, pc, idx, tx, db, pending_since>>

\* A message that does not deserialize is acknowledged; try_ack may fail
\* because the client's request channel is full.
AckMalformed(m) ==
  /\ Send(m)
  /\ topic[m] \in Garbage
  /\ mqtt' = [mqtt EXCEPT ![m] = "inflight"]
  /\ ackq' \in {ackq, ackq \cup {m}}
  /\ UNCHANGED <<topic, chan, batch, pc, idx, tx, db, pending_since>>

(* The main loop *)

\* recv_timeout returns a command, Batcher::push keeps it.
RecvPush ==
  /\ pc = "recv"
  /\ chan # <<>>
  /\ Len(batch) + 1 < BatchSize
  /\ batch' = Append(batch, Head(chan))
  /\ chan' = Tail(chan)
  /\ pending_since' = 1
  /\ UNCHANGED <<topic, mqtt, ackq, pc, idx, tx, db>>

\* Batcher::push returns the batch: it is full or its interval has elapsed.
\* The write thread opens a BEGIN IMMEDIATE transaction for it.
RecvFlush ==
  /\ pc = "recv"
  /\ chan # <<>>
  /\ batch' = Append(batch, Head(chan))
  /\ chan' = Tail(chan)
  /\ pending_since' = 1
  /\ pc' = "job"
  /\ UNCHANGED <<topic, mqtt, ackq, idx, tx, db>>

\* recv_timeout times out with a batch waiting.
TimeoutFlush ==
  /\ pc = "recv"
  /\ chan = <<>>
  /\ batch # <<>>
  /\ pc' = "job"
  /\ UNCHANGED <<topic, mqtt, ackq, chan, batch, idx, tx, db, pending_since>>

(* The write thread: WriteEngine::process_batch *)

Processing == pc = "job" /\ idx <= Len(batch)
Current == topic[batch[idx]]

NextCommand ==
  /\ idx' = idx + 1
  /\ UNCHANGED <<topic, mqtt, ackq, chan, batch, pc, db, pending_since>>

SkipDuplicate ==
  /\ Processing
  /\ AlreadyApplied(tx, Current)
  /\ tx' = tx
  /\ NextCommand

SkipConflict ==
  /\ Processing
  /\ ~ AlreadyApplied(tx, Current)
  /\ VersionConflict(tx, Current)
  /\ tx' = tx
  /\ NextCommand

SkipUnknownOp ==
  /\ Processing
  /\ ~ AlreadyApplied(tx, Current)
  /\ ~ VersionConflict(tx, Current)
  /\ Current.op \notin KnownOp
  /\ tx' = tx
  /\ NextCommand

ApplyCommand ==
  /\ Processing
  /\ ~ AlreadyApplied(tx, Current)
  /\ ~ VersionConflict(tx, Current)
  /\ Current.op \in KnownOp
  /\ tx' = ApplyTo(tx, Current)
  /\ NextCommand

\* Mutant: each command is committed on its own.
CommitEarly ==
  /\ pc = "job"
  /\ db' = tx
  /\ UNCHANGED <<topic, mqtt, ackq, chan, batch, pc, idx, tx, pending_since>>

CommitBatch ==
  /\ pc = "job"
  /\ idx > Len(batch)
  /\ db' = tx
  /\ pc' = "ack"
  /\ idx' = 1
  /\ UNCHANGED <<topic, mqtt, ackq, chan, batch, tx, pending_since>>

\* Mutant: a failed batch is acknowledged like a committed one.
AckFailedBatch ==
  /\ pc = "job"
  /\ pc' = "ack"
  /\ idx' = 1
  /\ tx' = db
  /\ UNCHANGED <<topic, mqtt, ackq, chan, batch, db, pending_since>>

\* Any statement, BEGIN or COMMIT may fail: the transaction rolls back and
\* main drops the batch without acknowledging or retrying it.
FailBatch ==
  /\ pc = "job"
  /\ pc' = "recv"
  /\ batch' = <<>>
  /\ idx' = 1
  /\ tx' = db
  /\ UNCHANGED <<topic, mqtt, ackq, chan, db, pending_since>>

(* main::process_batch after a successful commit *)

\* Mutant: the last command of the batch is not acknowledged.
AckAllButLast ==
  /\ pc = "ack"
  /\ idx <= Len(batch)
  /\ ackq' = IF idx < Len(batch) THEN ackq \cup {batch[idx]} ELSE ackq
  /\ idx' = idx + 1
  /\ UNCHANGED <<topic, mqtt, chan, batch, pc, tx, db, pending_since>>

AckCommand ==
  /\ pc = "ack"
  /\ idx <= Len(batch)
  /\ ackq' = ackq \cup {batch[idx]}
  /\ idx' = idx + 1
  /\ UNCHANGED <<topic, mqtt, chan, batch, pc, tx, db, pending_since>>

FinishBatch ==
  /\ pc = "ack"
  /\ idx > Len(batch)
  /\ pc' = "recv"
  /\ batch' = <<>>
  /\ idx' = 1
  /\ pending_since' = 0
  /\ UNCHANGED <<topic, mqtt, ackq, chan, tx, db>>

\* kill -9 or a panic, then a restart by systemd with the same client id:
\* memory is lost and an open transaction never happened.
Restart ==
  /\ mqtt' = Requeued
  /\ ackq' = {}
  /\ chan' = <<>>
  /\ batch' = <<>>
  /\ pc' = "recv"
  /\ idx' = 1
  /\ tx' = db
  /\ pending_since' = 0
  /\ UNCHANGED <<topic, db>>

\* watchdog::spawn: commands are pending and the timeout has elapsed without
\* a committed batch; the process exits with code 42 and is restarted.
WatchdogExit ==
  /\ WatchdogEnabled
  /\ pending_since # 0
  /\ Restart

WriterStep ==
  \/ RecvPush \/ RecvFlush \/ TimeoutFlush
  \/ SkipDuplicate \/ SkipConflict \/ SkipUnknownOp \/ ApplyCommand
  \/ CommitBatch \/ FailBatch
  \/ AckCommand \/ FinishBatch

ConsumerStep == \E m \in Messages : Enqueue(m) \/ Defer(m) \/ AckMalformed(m)

Next ==
  \/ \E c \in Command \cup Garbage : Publish(c)
  \/ \E m \in Messages : SendAck(m)
  \/ ConsumerStep
  \/ WriterStep
  \/ Reconnect
  \/ Restart
  \/ WatchdogExit

Spec == Init /\ [][Next]_vars

(* Every thread of the process and the broker keep running.  Nothing makes *)
(* a connection break or a process restart, so neither is fair.            *)
Fairness ==
  /\ WF_vars(WriterStep)
  /\ WF_vars(ConsumerStep)
  /\ WF_vars(\E m \in Messages : SendAck(m))
  /\ WF_vars(WatchdogExit)

FairSpec == Spec /\ Fairness

-----------------------------------------------------------------------------
(* Properties *)

\* Every variable keeps its type; the channel and the batch never outgrow
\* CONSUMER_CHANNEL_CAPACITY and BATCH_SIZE.
TypeOK ==
  /\ topic \in Seq(Command \cup Garbage)
  /\ mqtt \in Seq({"queued", "inflight", "acked"})
  /\ Len(mqtt) = Len(topic)
  /\ ackq \subseteq Messages
  /\ chan \in Seq(Messages)
  /\ Len(chan) <= ChannelCapacity
  /\ batch \in Seq(Messages)
  /\ Len(batch) <= BatchSize
  /\ pc \in {"recv", "job", "ack"}
  /\ idx \in 1..(BatchSize + 1)
  /\ tx \in Tables
  /\ db \in Tables
  /\ pending_since \in {0, 1}

\* What the threads of the process agree on between steps.
Pipeline ==
  /\ \A i \in DOMAIN chan : topic[chan[i]] \in Command
  /\ \A i \in DOMAIN batch : topic[batch[i]] \in Command
  /\ idx <= Len(batch) + 1
  /\ pc = "recv" => idx = 1 /\ Len(batch) < BatchSize
  /\ pc # "job" => tx = db

\* No command is lost (SPEC.md RNF-1, DEC-0058): a command whose PUBACK has
\* been sent or is on its way is settled in the committed tables, whatever
\* crashes, reconnections, deferrals and failed batches came before.
AckedIsSettled ==
  \A m \in Messages :
    (topic[m] \in Command /\ (mqtt[m] = "acked" \/ m \in ackq))
      => Settled(db, topic[m])

UniqueEvents(d) ==
  \A i, j \in DOMAIN d.outbox : d.outbox[i].idem = d.outbox[j].idem => i = j

IdempotencyMatchesOutbox(d) ==
  /\ \A k \in IdemKey :
       d.idem[k] # None => \E i \in DOMAIN d.outbox : d.outbox[i] = d.idem[k]
  /\ \A i \in DOMAIN d.outbox : d.idem[d.outbox[i].idem] = d.outbox[i]

VersionsIncrease(d) ==
  \A i, j \in DOMAIN d.outbox :
    (i < j /\ d.outbox[i].key = d.outbox[j].key)
      => d.outbox[i].version < d.outbox[j].version

LastEvent(d, k, i) ==
  /\ d.outbox[i].key = k
  /\ \A j \in DOMAIN d.outbox : d.outbox[j].key = k => j <= i

RowsMatchLastEvent(d) ==
  \A k \in Key :
    /\ (\A i \in DOMAIN d.outbox : d.outbox[i].key # k)
         => d.payload[k] = None /\ d.tomb[k] = None
    /\ \A i \in DOMAIN d.outbox :
         LastEvent(d, k, i) =>
           IF d.outbox[i].op = "delete"
             THEN d.payload[k] = None /\ d.tomb[k] = d.outbox[i]
             ELSE d.payload[k] = d.outbox[i] /\ d.tomb[k] = None

\* _idempotency has a largest version per entity (what SELECT MAX returns), and
\* a tombstone is the row of some delete event of its entity.
VersionsHaveMax(d) ==
  \A k \in Key : StoredVersions(d, k) # {} =>
    \E v \in StoredVersions(d, k) : \A w \in StoredVersions(d, k) : w <= v

TombstonesAreEvents(d) ==
  \A k \in Key : d.tomb[k] # None =>
    \E i \in DOMAIN d.outbox : d.outbox[i] = d.tomb[k] /\ d.tomb[k].key = k

Consistent(d) ==
  /\ UniqueEvents(d)
  /\ IdempotencyMatchesOutbox(d)
  /\ VersionsIncrease(d)
  /\ RowsMatchLastEvent(d)
  /\ VersionsHaveMax(d)
  /\ TombstonesAreEvents(d)

\* The open transaction has only added to the committed tables, at most one
\* event per processed command, and has unsettled nothing.
TxExtendsDb ==
  /\ Len(db.outbox) <= Len(tx.outbox)
  /\ Len(tx.outbox) < Len(db.outbox) + idx
  /\ \A i \in 1..Len(db.outbox) : tx.outbox[i] = db.outbox[i]
  /\ tx # db => Len(db.outbox) < Len(tx.outbox)
  /\ \A c \in Command : Settled(db, c) => Settled(tx, c)

\* How far the batch has got: processed commands are settled in the
\* transaction, and all of them in the committed tables once it committed.
BatchProgress ==
  /\ pc = "job" => \A i \in 1..(idx - 1) : Settled(tx, topic[batch[i]])
  /\ pc = "ack" => \A i \in DOMAIN batch : Settled(db, topic[batch[i]])

\* Versions stay below 2^63, the range on which `as i64` is the identity.
VersionsFit == \A c \in Command : c.version <= I64Max

\* SPEC.md CA-4: however often a command is published, redelivered or batched,
\* its idempotency key produces one event, the one _idempotency records.
OneEventPerKey == UniqueEvents(db) /\ IdempotencyMatchesOutbox(db)

\* SPEC.md RNF-5 and CA-3: the events of one entity are in increasing version
\* order in the outbox, so no version is applied after a newer one.
NoVersionRegression == VersionsIncrease(db)

\* The payload and tombstone tables are what replaying the outbox gives: the
\* last event of an entity is its live row, or its tombstone if it deleted it.
RowsReplayOutbox == RowsMatchLastEvent(db)

\* A step that changes the committed tables commits a whole batch: every
\* command of it is settled and nothing already in the outbox is rewritten.
CommitIsAtomic ==
  [][db' # db =>
       /\ \A i \in DOMAIN batch : Settled(db', topic[batch[i]])
       /\ Len(db'.outbox) - Len(db.outbox) \in 1..Len(batch)
       /\ SubSeq(db'.outbox, 1, Len(db.outbox)) = db.outbox]_vars

\* The writer has the message in memory and has yet to acknowledge it.
Held(m) ==
  \/ \E i \in DOMAIN chan : chan[i] = m
  \/ \E i \in DOMAIN batch : batch[i] = m /\ (pc = "ack" => idx <= i)

\* The inductive invariant behind the safety properties.
IInv ==
  /\ TypeOK
  /\ Pipeline
  /\ Consistent(db)
  /\ Consistent(tx)
  /\ TxExtendsDb
  /\ BatchProgress
  /\ AckedIsSettled

Acked(m) == m \in Messages /\ mqtt[m] = "acked"

\* The broker waits for an acknowledgement that nobody is going to send.
Stranded(m) ==
  /\ m \in Messages
  /\ mqtt[m] = "inflight"
  /\ ~ Held(m)
  /\ m \notin ackq

\* The whole in-flight window consists of messages the writer has dropped, so
\* the broker may send nothing and the writer has nothing to do.
Stalled ==
  /\ Cardinality({m \in Messages : mqtt[m] = "inflight"}) = MaxInflight
  /\ \A m \in Messages : mqtt[m] = "inflight" => Stranded(m)

\* watchdog.rs, TODO.md TASK-VAL-0035: with the watchdog enabled, a writer
\* with pending traffic and no progress is restarted.
WatchdogUnblocks == Stalled ~> ~ Stalled

=============================================================================
