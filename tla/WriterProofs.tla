---------------------------- MODULE WriterProofs ----------------------------
(***************************************************************************)
(* Theorems about the writer, for every set of commands, every channel     *)
(* capacity, batch size and in-flight window.                              *)
(***************************************************************************)
EXTENDS WriterRefinement, SequenceTheorems, TLAPS

\* A sequence of indices stays one when the topic has grown.
LEMMA SeqMonotone ==
  ASSUME NEW S, NEW T, S \subseteq T, NEW s \in Seq(S)
  PROVE  s \in Seq(T)
  OBVIOUS

\* Taking the head of the consumer channel.
LEMMA PopFacts ==
  ASSUME NEW S, NEW s \in Seq(S), s # <<>>
  PROVE  /\ Len(s) \in Nat \ {0} /\ Head(s) = s[1] /\ Head(s) \in S
         /\ Tail(s) \in Seq(S) /\ Len(Tail(s)) = Len(s) - 1
         /\ \A i \in DOMAIN Tail(s) : i + 1 \in DOMAIN s /\ Tail(s)[i] = s[i + 1]
  <1>1. Len(s) \in Nat /\ DOMAIN s = 1..Len(s) /\ Len(s) # 0
    BY EmptySeq, LenProperties
  <1>2. Len(Tail(s)) = Len(s) - 1 /\ Tail(s) \in Seq(S) /\ DOMAIN Tail(s) = 1..(Len(s) - 1)
    BY HeadTailProperties, LenProperties
  <1> QED
    BY <1>1, <1>2, HeadTailProperties

\* Appending to the channel, the batch or the outbox.
LEMMA PushFacts ==
  ASSUME NEW S, NEW s \in Seq(S), NEW e \in S
  PROVE  /\ Append(s, e) \in Seq(S) /\ Len(s) \in Nat
         /\ Len(Append(s, e)) = Len(s) + 1
         /\ DOMAIN s = 1..Len(s) /\ DOMAIN Append(s, e) = 1..(Len(s) + 1)
         /\ \A i \in 1..Len(s) : Append(s, e)[i] = s[i]
         /\ Append(s, e)[Len(s) + 1] = e
  BY AppendProperties, LenProperties

\* Applying a command keeps the types of the four tables.
LEMMA TablesOK ==
  ASSUME NEW d \in Tables, NEW c \in Command
  PROVE  ApplyTo(d, c) \in Tables
  <1> USE WriterConstants
  <1>1. c \in Row /\ None \in Row /\ c.idem \in IdemKey /\ c.key \in Key
    BY DEF Row
  <1>2. ApplyTo(d, c).idem \in [IdemKey -> Row]
    BY <1>1 DEF ApplyTo, Tables
  <1>3. ApplyTo(d, c).payload \in [Key -> Row]
    BY <1>1 DEF ApplyTo, Tables
  <1>4. ApplyTo(d, c).tomb \in [Key -> Row]
    BY <1>1 DEF ApplyTo, Tables, record_tombstone, clear_if_older
  <1>5. ApplyTo(d, c).outbox \in Seq(Command)
    BY DEF ApplyTo, Tables
  <1> QED
    BY <1>2, <1>3, <1>4, <1>5 DEF ApplyTo, Tables

\* The process starts with well-typed, empty state.
LEMMA TypeInit == Init => TypeOK /\ Pipeline
  <1> SUFFICES ASSUME Init PROVE TypeOK /\ Pipeline
    OBVIOUS
  <1>1. EmptyTables \in Tables
    BY DEF EmptyTables, Tables, Row
  <1> QED
    BY <1>1, WriterConstants DEF Init, TypeOK, Pipeline, Messages

\* Every step of broker, consumer thread, main loop and write thread keeps the
\* types and the agreements between the threads.
LEMMA TypeStep == TypeOK /\ Pipeline /\ [Next]_vars => TypeOK' /\ Pipeline'
  <1> SUFFICES ASSUME TypeOK, Pipeline, [Next]_vars
               PROVE  TypeOK' /\ Pipeline'
    OBVIOUS
  <1> USE WriterConstants
  <1>1. ASSUME NEW c \in Command \cup Garbage, Publish(c)
        PROVE  TypeOK' /\ Pipeline'
    <2>1. topic' \in Seq(Command \cup Garbage) /\ Len(topic') = Len(topic) + 1
      BY <1>1 DEF Publish, TypeOK
    <2>2. mqtt' \in Seq({"queued", "inflight", "acked"}) /\ Len(mqtt') = Len(topic')
      BY <1>1, <2>1 DEF Publish, TypeOK
    <2>3. Messages \subseteq Messages'
      BY <2>1 DEF Messages, TypeOK
    <2>4. \A m \in Messages : topic'[m] = topic[m]
      BY <1>1 DEF Publish, TypeOK, Messages
    <2>5. chan' \in Seq(Messages') /\ batch' \in Seq(Messages')
      BY <1>1, <2>3, SeqMonotone DEF Publish, TypeOK
    <2>6. TypeOK'
      BY <1>1, <2>1, <2>2, <2>3, <2>5 DEF Publish, TypeOK
    <2>7. \A i \in DOMAIN chan : chan[i] \in Messages
      BY DEF TypeOK
    <2>8. \A i \in DOMAIN batch : batch[i] \in Messages
      BY DEF TypeOK
    <2>9. Pipeline'
      BY <1>1, <2>4, <2>7, <2>8 DEF Publish, Pipeline
    <2> QED
      BY <2>6, <2>9
  <1>2. ASSUME NEW m \in Messages, SendAck(m)
        PROVE  TypeOK' /\ Pipeline'
    BY <1>2 DEF SendAck, TypeOK, Pipeline, Messages
  <1>3. ASSUME NEW m \in Messages, Enqueue(m)
        PROVE  TypeOK' /\ Pipeline'
    <2>1. TypeOK'
      BY <1>3 DEF Enqueue, TypeOK, Messages
    <2>2. \A i \in DOMAIN chan' : topic[chan'[i]] \in Command
      BY <1>3, SMTT(60) DEF Enqueue, TypeOK, Pipeline
    <2> QED
      BY <1>3, <2>1, <2>2 DEF Enqueue, Pipeline
  <1>4. ASSUME NEW m \in Messages, Defer(m)
        PROVE  TypeOK' /\ Pipeline'
    BY <1>4 DEF Defer, TypeOK, Pipeline, Messages
  <1>5. ASSUME NEW m \in Messages, AckMalformed(m)
        PROVE  TypeOK' /\ Pipeline'
    BY <1>5 DEF AckMalformed, TypeOK, Pipeline, Messages
  <1>6. CASE Reconnect
    <2>1. Requeued \in Seq({"queued", "inflight", "acked"}) /\ Len(Requeued) = Len(topic)
      BY DEF Requeued, TypeOK, Messages
    <2> QED
      BY <1>6, <2>1 DEF Reconnect, TypeOK, Pipeline, Messages
  <1>7. ASSUME Restart
        PROVE  TypeOK' /\ Pipeline'
    <2>1. Requeued \in Seq({"queued", "inflight", "acked"}) /\ Len(Requeued) = Len(topic)
      BY DEF Requeued, TypeOK, Messages
    <2> QED
      BY <1>7, <2>1 DEF Restart, TypeOK, Pipeline, Messages
  <1>8. ASSUME RecvPush \/ RecvFlush
        PROVE  TypeOK' /\ Pipeline'
    <2>1. chan # <<>> /\ chan \in Seq(Messages) /\ batch \in Seq(Messages)
      BY <1>8 DEF RecvPush, RecvFlush, TypeOK
    <2>2. Head(chan) \in Messages /\ topic[Head(chan)] \in Command
      <3>1. 1 \in DOMAIN chan /\ Head(chan) = chan[1] /\ Head(chan) \in Messages
        BY <2>1, PopFacts, LenProperties
      <3> QED
        BY <3>1 DEF Pipeline
    <2>3. /\ chan' \in Seq(Messages) /\ Len(chan') <= ChannelCapacity
          /\ \A i \in DOMAIN chan' : topic[chan'[i]] \in Command
      <3>1. chan' = Tail(chan)
        BY <1>8 DEF RecvPush, RecvFlush
      <3>2. Len(chan) \in Nat /\ Len(chan) <= ChannelCapacity
        BY <2>1, LenProperties DEF TypeOK
      <3> QED
        BY <2>1, <3>1, <3>2, PopFacts DEF Pipeline
    <2>4. /\ batch' \in Seq(Messages) /\ Len(batch') = Len(batch) + 1 /\ Len(batch) \in Nat
          /\ \A i \in DOMAIN batch' : topic[batch'[i]] \in Command
      <3>1. batch' = Append(batch, Head(chan))
        BY <1>8 DEF RecvPush, RecvFlush
      <3>2. \A i \in 1..Len(batch) : topic[batch[i]] \in Command
        BY <2>1, LenProperties DEF Pipeline
      <3> QED
        BY <2>1, <2>2, <3>1, <3>2, PushFacts
    <2>5. /\ UNCHANGED <<topic, mqtt, ackq, idx, tx, db>> /\ pending_since' = 1
          /\ pc = "recv" /\ pc' \in {"recv", "job"}
          /\ pc' = "recv" => Len(batch) + 1 < BatchSize
      BY <1>8 DEF RecvPush, RecvFlush
    <2>6. TypeOK'
      BY <2>3, <2>4, <2>5 DEF TypeOK, Pipeline, Messages
    <2>7. Pipeline'
      BY <2>3, <2>4, <2>5 DEF TypeOK, Pipeline
    <2> QED
      BY <2>6, <2>7
  <1>9. CASE TimeoutFlush
    BY <1>9 DEF TimeoutFlush, TypeOK, Pipeline, Messages
  <1>10. CASE SkipDuplicate \/ SkipConflict \/ SkipUnknownOp
    <2>1. /\ idx \in Nat /\ idx <= Len(batch) /\ Len(batch) \in Nat
          /\ idx' = idx + 1 /\ tx' = tx
          /\ UNCHANGED <<topic, mqtt, ackq, chan, batch, pc, db, pending_since>>
          /\ pc = "job"
      BY <1>10 DEF SkipDuplicate, SkipConflict, SkipUnknownOp, Processing, NextCommand,
                   TypeOK
    <2> QED
      BY <2>1 DEF TypeOK, Pipeline, Messages
  <1>11. CASE ApplyCommand
    <2>1. Current \in Command
      BY <1>11 DEF ApplyCommand, Processing, Current, TypeOK, Pipeline
    <2>2. tx' \in Tables
      BY <1>11, <2>1, TablesOK DEF ApplyCommand, TypeOK
    <2> QED
      BY <1>11, <2>2, SMTT(60) DEF ApplyCommand, Processing, NextCommand, TypeOK, Pipeline, Messages
  <1>12. CASE CommitBatch
    BY <1>12 DEF CommitBatch, TypeOK, Pipeline, Messages
  <1>13. CASE FailBatch
    BY <1>13 DEF FailBatch, TypeOK, Pipeline, Messages
  <1>14. CASE AckCommand
    <2>1. idx \in Nat /\ idx <= Len(batch) /\ Len(batch) \in Nat /\ batch[idx] \in Messages
      BY <1>14 DEF AckCommand, TypeOK
    <2>2. ackq' \subseteq Messages
      BY <1>14, <2>1 DEF AckCommand, TypeOK
    <2> QED
      BY <1>14, <2>1, <2>2, SMTT(60) DEF AckCommand, TypeOK, Pipeline, Messages
  <1>15. CASE FinishBatch
    BY <1>15 DEF FinishBatch, TypeOK, Pipeline, Messages
  <1>16. CASE UNCHANGED vars
    BY <1>16 DEF vars, TypeOK, Pipeline, Messages
  <1> QED
    BY <1>1, <1>2, <1>3, <1>4, <1>5, <1>6, <1>7, <1>8, <1>9, <1>10, <1>11, <1>12,
       <1>13, <1>14, <1>15, <1>16
    DEF Next, ConsumerStep, WriterStep, WatchdogExit

\* The channel and the batch never outgrow their bounds, the tables keep their
\* types and only well-formed commands reach the write thread.
THEOREM TypeCorrect == Spec => [](TypeOK /\ Pipeline)
  BY TypeInit, TypeStep, PTL DEF Spec

-----------------------------------------------------------------------------
(* The tables: what one accepted command preserves *)

\* Below 2^63 a version survives the round trip through the INTEGER column.
LEMMA CastIsIdentity ==
  ASSUME VersionsFit, NEW c \in Command
  PROVE  /\ c.version \in Nat /\ AsI64(c.version) = c.version
         /\ AsU64(c.version) = c.version
  BY WriterConstants DEF VersionsFit, AsI64, AsU64, U64Max

\* What is in a row of well-typed tables.
LEMMA RowFacts ==
  ASSUME NEW d \in Tables
  PROVE  /\ \A i \in IdemKey : d.idem[i] = None \/ d.idem[i] \in Command
         /\ \A k \in Key : d.tomb[k] = None \/ d.tomb[k] \in Command
         /\ d.outbox \in Seq(Command) /\ Len(d.outbox) \in Nat
         /\ DOMAIN d.outbox = 1..Len(d.outbox)
         /\ \A i \in DOMAIN d.outbox : d.outbox[i] \in Command
  BY LenProperties DEF Tables, Row

\* A recorded idempotency row contributes its version to SELECT MAX(version).
LEMMA StoredIn ==
  ASSUME VersionsFit, NEW d \in Tables, NEW i \in IdemKey, d.idem[i] # None
  PROVE  d.idem[i].version \in StoredVersions(d, d.idem[i].key)
  <1>1. d.idem[i] \in Command
    BY RowFacts
  <1>2. AsI64(d.idem[i].version) = d.idem[i].version
    BY <1>1, CastIsIdentity
  <1> QED
    BY <1>2 DEF StoredVersions

\* Every stored version comes from a recorded command of the entity.
LEMMA StoredFrom ==
  ASSUME VersionsFit, NEW d \in Tables, NEW k \in Key, NEW v \in StoredVersions(d, k)
  PROVE  /\ v \in Nat
         /\ \E i \in IdemKey : d.idem[i] # None /\ d.idem[i].key = k /\ v = d.idem[i].version
  <1>1. PICK i \in IdemKey : d.idem[i] # None /\ d.idem[i].key = k
                             /\ v = AsI64(d.idem[i].version)
    BY DEF StoredVersions
  <1>2. d.idem[i] \in Command
    BY <1>1, RowFacts
  <1> QED
    BY <1>1, <1>2, CastIsIdentity

\* current_version is the largest stored version of the entity.
LEMMA CurrentVersionIsMax ==
  ASSUME VersionsFit, NEW d \in Tables, VersionsHaveMax(d), NEW k \in Key,
         StoredVersions(d, k) # {}
  PROVE  /\ current_version(d, k) \in StoredVersions(d, k)
         /\ \A w \in StoredVersions(d, k) : w <= current_version(d, k)
  <1> DEFINE S == StoredVersions(d, k)
             mx == CHOOSE v \in S : \A w \in S : w <= v
  <1>1. \E v \in S : \A w \in S : w <= v
    BY DEF VersionsHaveMax
  <1>2. mx \in S /\ \A w \in S : w <= mx
    BY <1>1
  <1>3. mx \in Nat
    BY <1>2, StoredFrom
  <1>4. current_version(d, k) = mx
    BY <1>3 DEF current_version, AsU64
  <1> QED
    BY <1>2, <1>4

\* A command that is not in conflict is newer than every recorded one.
LEMMA NewerThanStored ==
  ASSUME VersionsFit, NEW d \in Tables, VersionsHaveMax(d), NEW c \in Command,
         ~ VersionConflict(d, c)
  PROVE  \A v \in StoredVersions(d, c.key) : v < c.version
  <1> SUFFICES ASSUME NEW v \in StoredVersions(d, c.key)
               PROVE  v < c.version
    OBVIOUS
  <1>1. c.key \in Key
    BY WriterConstants
  <1>2. /\ current_version(d, c.key) \in StoredVersions(d, c.key)
        /\ v <= current_version(d, c.key)
    BY <1>1, CurrentVersionIsMax
  <1>3. current_version(d, c.key) \in Nat /\ v \in Nat
    BY <1>1, <1>2, StoredFrom
  <1>4. ~ (c.version <= current_version(d, c.key))
    BY DEF VersionConflict
  <1>5. c.version \in Nat
    BY CastIsIdentity
  <1> QED
    BY <1>2, <1>3, <1>4, <1>5

\* The tables after one accepted command, field by field.
LEMMA AppliedFields ==
  ASSUME NEW d \in Tables, NEW c \in Command, ~ AlreadyApplied(d, c)
  PROVE  /\ ApplyTo(d, c).idem[c.idem] = c
         /\ \A i \in IdemKey \ {c.idem} : ApplyTo(d, c).idem[i] = d.idem[i]
         /\ \A k \in Key \ {c.key} : /\ ApplyTo(d, c).payload[k] = d.payload[k]
                                     /\ ApplyTo(d, c).tomb[k] = d.tomb[k]
         /\ ApplyTo(d, c).payload[c.key] = IF c.op = "delete" THEN None ELSE c
         /\ ApplyTo(d, c).tomb[c.key] = IF c.op = "delete"
                                          THEN record_tombstone(d.tomb[c.key], c)
                                          ELSE clear_if_older(d.tomb[c.key], c)
         /\ DOMAIN ApplyTo(d, c).outbox = 1..(Len(d.outbox) + 1)
         /\ Len(ApplyTo(d, c).outbox) = Len(d.outbox) + 1
         /\ \A i \in 1..Len(d.outbox) : ApplyTo(d, c).outbox[i] = d.outbox[i]
         /\ ApplyTo(d, c).outbox[Len(d.outbox) + 1] = c
  <1>1. c.idem \in IdemKey /\ c.key \in Key
    BY WriterConstants
  <1>2. d.idem \in [IdemKey -> Row] /\ d.payload \in [Key -> Row] /\ d.tomb \in [Key -> Row]
        /\ d.outbox \in Seq(Command)
    BY DEF Tables
  <1>3. ApplyTo(d, c).outbox = Append(d.outbox, c)
    BY DEF ApplyTo
  <1>4. ApplyTo(d, c).idem = [d.idem EXCEPT ![c.idem] = c]
    BY <1>1, <1>2 DEF ApplyTo, AlreadyApplied
  <1>5. ApplyTo(d, c).payload = [d.payload EXCEPT ![c.key] = IF c.op = "delete" THEN None ELSE c]
    BY DEF ApplyTo
  <1>6. ApplyTo(d, c).tomb = [d.tomb EXCEPT ![c.key] =
                                IF c.op = "delete"
                                  THEN record_tombstone(d.tomb[c.key], c)
                                  ELSE clear_if_older(d.tomb[c.key], c)]
    BY <1>1, <1>2 DEF ApplyTo
  <1>7. /\ ApplyTo(d, c).idem[c.idem] = c
        /\ \A i \in IdemKey \ {c.idem} : ApplyTo(d, c).idem[i] = d.idem[i]
    BY <1>1, <1>2, <1>4
  <1>8. /\ \A k \in Key \ {c.key} : ApplyTo(d, c).payload[k] = d.payload[k]
        /\ ApplyTo(d, c).payload[c.key] = IF c.op = "delete" THEN None ELSE c
    BY <1>1, <1>2, <1>5
  <1>9. /\ \A k \in Key \ {c.key} : ApplyTo(d, c).tomb[k] = d.tomb[k]
        /\ ApplyTo(d, c).tomb[c.key] = IF c.op = "delete"
                                         THEN record_tombstone(d.tomb[c.key], c)
                                         ELSE clear_if_older(d.tomb[c.key], c)
    BY <1>1, <1>2, <1>6
  <1>10. /\ DOMAIN ApplyTo(d, c).outbox = 1..(Len(d.outbox) + 1)
         /\ Len(ApplyTo(d, c).outbox) = Len(d.outbox) + 1
         /\ \A i \in 1..Len(d.outbox) : ApplyTo(d, c).outbox[i] = d.outbox[i]
         /\ ApplyTo(d, c).outbox[Len(d.outbox) + 1] = c
    BY <1>2, <1>3, PushFacts
  <1> QED
    BY <1>7, <1>8, <1>9, <1>10

\* Every event of the outbox is recorded, so an accepted command is newer than
\* every earlier event of its entity and its key is new.
LEMMA NewerThanEvents ==
  ASSUME VersionsFit, NEW d \in Tables, Consistent(d), NEW c \in Command,
         ~ AlreadyApplied(d, c), ~ VersionConflict(d, c), NEW i \in DOMAIN d.outbox
  PROVE  /\ d.outbox[i].idem # c.idem
         /\ d.outbox[i].key = c.key => d.outbox[i].version < c.version
  <1> DEFINE o == d.outbox[i]
  <1>1. o \in Command /\ o.idem \in IdemKey
    BY RowFacts, WriterConstants
  <1>2. d.idem[o.idem] = o
    BY DEF Consistent, IdempotencyMatchesOutbox
  <1>3. o # None
    BY <1>1, WriterConstants
  <1>4. o.idem # c.idem
    BY <1>2, <1>3 DEF AlreadyApplied
  <1>5. o.version \in StoredVersions(d, o.key)
    BY <1>1, <1>2, <1>3, StoredIn
  <1>6. o.key = c.key => o.version < c.version
    BY <1>5, NewerThanStored DEF Consistent
  <1> QED
    BY <1>4, <1>6

\* The versions current_version sees after one accepted command.
LEMMA StoredVersionsAfter ==
  ASSUME VersionsFit, NEW d \in Tables, NEW c \in Command, ~ AlreadyApplied(d, c)
  PROVE  /\ StoredVersions(ApplyTo(d, c), c.key) = StoredVersions(d, c.key) \cup {c.version}
         /\ \A k \in Key \ {c.key} : StoredVersions(ApplyTo(d, c), k) = StoredVersions(d, k)
  <1> DEFINE e == ApplyTo(d, c)
  <1> HIDE DEF e
  <1>1. c.idem \in IdemKey /\ c # None /\ AsI64(c.version) = c.version
    BY WriterConstants, CastIsIdentity
  <1>2. e.idem[c.idem] = c /\ \A i \in IdemKey \ {c.idem} : e.idem[i] = d.idem[i]
    BY AppliedFields DEF e
  <1>3. d.idem[c.idem] = None
    BY DEF AlreadyApplied
  <1>4. StoredVersions(e, c.key) = StoredVersions(d, c.key) \cup {c.version}
    <2>1. ASSUME NEW v \in StoredVersions(e, c.key)
          PROVE  v \in StoredVersions(d, c.key) \cup {c.version}
      <3>1. PICK i \in IdemKey : e.idem[i] # None /\ e.idem[i].key = c.key
                                 /\ v = AsI64(e.idem[i].version)
        BY DEF StoredVersions
      <3> QED
        BY <1>1, <1>2, <3>1 DEF StoredVersions
    <2>2. ASSUME NEW v \in StoredVersions(d, c.key)
          PROVE  v \in StoredVersions(e, c.key)
      <3>1. PICK i \in IdemKey : d.idem[i] # None /\ d.idem[i].key = c.key
                                 /\ v = AsI64(d.idem[i].version)
        BY DEF StoredVersions
      <3>2. e.idem[i] = d.idem[i]
        BY <1>2, <1>3, <3>1
      <3> QED
        BY <3>1, <3>2 DEF StoredVersions
    <2>3. c.version \in StoredVersions(e, c.key)
      BY <1>1, <1>2 DEF StoredVersions
    <2> QED
      BY <2>1, <2>2, <2>3
  <1>5. ASSUME NEW k \in Key \ {c.key}
        PROVE  StoredVersions(e, k) = StoredVersions(d, k)
    <2>1. \A i \in IdemKey : (e.idem[i] # None /\ e.idem[i].key = k)
                               <=> (d.idem[i] # None /\ d.idem[i].key = k)
      BY <1>1, <1>2, <1>3
    <2>2. \A i \in IdemKey : (d.idem[i] # None /\ d.idem[i].key = k) => e.idem[i] = d.idem[i]
      BY <1>2, <1>3
    <2> QED
      BY <2>1, <2>2 DEF StoredVersions
  <1> QED
    BY <1>4, <1>5 DEF e

\* WriteEngine keeps the four tables consistent when it applies a command that is
\* neither a duplicate nor in conflict.
LEMMA ConsistentStep ==
  ASSUME VersionsFit, NEW d \in Tables, Consistent(d), NEW c \in Command,
         ~ AlreadyApplied(d, c), ~ VersionConflict(d, c)
  PROVE  Consistent(ApplyTo(d, c))
  <1> DEFINE e == ApplyTo(d, c)
             n == Len(d.outbox)
  <1>0. /\ e \in Tables /\ n \in Nat /\ c # None /\ c.key \in Key /\ c.idem \in IdemKey
        /\ DOMAIN d.outbox = 1..n
    BY TablesOK, RowFacts, WriterConstants
  <1>1. /\ DOMAIN e.outbox = 1..(n + 1) /\ e.outbox[n + 1] = c
        /\ \A i \in 1..n : e.outbox[i] = d.outbox[i]
    BY AppliedFields
  <1>2. e.idem[c.idem] = c /\ \A i \in IdemKey \ {c.idem} : e.idem[i] = d.idem[i]
    BY AppliedFields
  <1>3. \A i \in 1..n : /\ d.outbox[i].idem # c.idem
                        /\ d.outbox[i].key = c.key => d.outbox[i].version < c.version
    BY <1>0, NewerThanEvents
  <1>4. \A i \in 1..n : d.outbox[i] \in Command /\ d.outbox[i].idem \in IdemKey
    BY <1>0, RowFacts, WriterConstants
  <1>5. /\ e.payload[c.key] = IF c.op = "delete" THEN None ELSE c
        /\ e.tomb[c.key] = IF c.op = "delete" THEN c ELSE None
    <2>1. d.tomb[c.key] = None
            \/ (/\ d.tomb[c.key] \in Command
                /\ d.tomb[c.key].version < c.version)
      <3>1. SUFFICES ASSUME d.tomb[c.key] # None
                     PROVE  /\ d.tomb[c.key] \in Command
                            /\ d.tomb[c.key].version < c.version
        OBVIOUS
      <3>2. PICK i \in DOMAIN d.outbox : d.outbox[i] = d.tomb[c.key] /\ d.tomb[c.key].key = c.key
        BY <1>0, <3>1 DEF Consistent, TombstonesAreEvents
      <3> QED
        BY <1>0, <1>3, <1>4, <3>2
    <2>2. record_tombstone(d.tomb[c.key], c) = c
      BY <2>1, CastIsIdentity DEF record_tombstone
    <2>3. clear_if_older(d.tomb[c.key], c) = None
      BY <2>1, CastIsIdentity DEF clear_if_older
    <2> QED
      BY <2>2, <2>3, AppliedFields
  <1>6. \A k \in Key \ {c.key} : e.payload[k] = d.payload[k] /\ e.tomb[k] = d.tomb[k]
    BY AppliedFields
  <1> HIDE DEF e, n
  <1>7. UniqueEvents(e)
    <2> SUFFICES ASSUME NEW i \in 1..(n + 1), NEW j \in 1..(n + 1),
                        e.outbox[i].idem = e.outbox[j].idem
                 PROVE  i = j
      BY <1>1 DEF UniqueEvents
    <2>1. CASE i \in 1..n /\ j \in 1..n
      BY <1>0, <1>1, <2>1 DEF UniqueEvents, Consistent
    <2>2. CASE i \in 1..n /\ j = n + 1
      BY <1>1, <1>3, <2>2
    <2>3. CASE i = n + 1 /\ j \in 1..n
      BY <1>1, <1>3, <2>3
    <2> QED
      BY <1>0, <2>1, <2>2, <2>3
  <1>8. IdempotencyMatchesOutbox(e)
    <2>1. ASSUME NEW k \in IdemKey, e.idem[k] # None
          PROVE  \E i \in DOMAIN e.outbox : e.outbox[i] = e.idem[k]
      <3>1. CASE k = c.idem
        BY <1>0, <1>1, <1>2, <3>1
      <3>2. CASE k # c.idem
        <4>1. PICK i \in 1..n : d.outbox[i] = d.idem[k]
          BY <1>0, <1>2, <2>1, <3>2 DEF Consistent, IdempotencyMatchesOutbox
        <4> QED
          BY <1>0, <1>1, <1>2, <3>2, <4>1
      <3> QED
        BY <3>1, <3>2
    <2>2. ASSUME NEW i \in DOMAIN e.outbox
          PROVE  e.idem[e.outbox[i].idem] = e.outbox[i]
      <3>1. CASE i = n + 1
        BY <1>1, <1>2, <3>1
      <3>2. CASE i \in 1..n
        BY <1>0, <1>1, <1>2, <1>3, <1>4, <3>2 DEF Consistent, IdempotencyMatchesOutbox
      <3> QED
        BY <1>0, <1>1, <3>1, <3>2
    <2> QED
      BY <2>1, <2>2 DEF IdempotencyMatchesOutbox
  <1>9. VersionsIncrease(e)
    <2> SUFFICES ASSUME NEW i \in 1..(n + 1), NEW j \in 1..(n + 1),
                        i < j, e.outbox[i].key = e.outbox[j].key
                 PROVE  e.outbox[i].version < e.outbox[j].version
      BY <1>1 DEF VersionsIncrease
    <2>1. CASE j \in 1..n
      <3>1. i \in 1..n
        BY <1>0, <2>1
      <3> QED
        BY <1>0, <1>1, <2>1, <3>1 DEF VersionsIncrease, Consistent
    <2>2. CASE j = n + 1
      <3>1. i \in 1..n
        BY <1>0, <2>2
      <3> QED
        BY <1>1, <1>3, <2>2, <3>1
    <2> QED
      BY <1>0, <2>1, <2>2
  <1>10. RowsMatchLastEvent(e)
    <2> SUFFICES ASSUME NEW k \in Key
                 PROVE  /\ (\A i \in DOMAIN e.outbox : e.outbox[i].key # k)
                             => e.payload[k] = None /\ e.tomb[k] = None
                        /\ \A i \in DOMAIN e.outbox :
                             LastEvent(e, k, i) =>
                               IF e.outbox[i].op = "delete"
                                 THEN e.payload[k] = None /\ e.tomb[k] = e.outbox[i]
                                 ELSE e.payload[k] = e.outbox[i] /\ e.tomb[k] = None
      BY DEF RowsMatchLastEvent
    <2>1. CASE k = c.key
      <3>1. ASSUME NEW i \in DOMAIN e.outbox, LastEvent(e, k, i)
            PROVE  e.outbox[i] = c
        BY <1>0, <1>1, <2>1, <3>1 DEF LastEvent
      <3> QED
        BY <1>0, <1>1, <1>5, <2>1, <3>1
    <2>2. CASE k # c.key
      <3>1. e.payload[k] = d.payload[k] /\ e.tomb[k] = d.tomb[k]
        BY <1>6, <2>2
      <3>2. (\A i \in DOMAIN e.outbox : e.outbox[i].key # k)
              => (\A i \in DOMAIN d.outbox : d.outbox[i].key # k)
        BY <1>0, <1>1
      <3>3. ASSUME NEW i \in DOMAIN e.outbox, LastEvent(e, k, i)
            PROVE  i \in DOMAIN d.outbox /\ e.outbox[i] = d.outbox[i] /\ LastEvent(d, k, i)
        <4>1. i # n + 1
          BY <1>1, <2>2, <3>3 DEF LastEvent
        <4>2. i \in 1..n
          BY <1>0, <1>1, <4>1
        <4> QED
          BY <1>0, <1>1, <3>3, <4>2 DEF LastEvent
      <3>4. RowsMatchLastEvent(d)
        BY DEF Consistent
      <3> QED
        BY <3>1, <3>2, <3>3, <3>4 DEF RowsMatchLastEvent
    <2> QED
      BY <2>1, <2>2
  <1>11. VersionsHaveMax(e)
    <2> SUFFICES ASSUME NEW k \in Key, StoredVersions(e, k) # {}
                 PROVE  \E v \in StoredVersions(e, k) : \A w \in StoredVersions(e, k) : w <= v
      BY DEF VersionsHaveMax
    <2>1. CASE k = c.key
      <3>1. StoredVersions(e, k) = StoredVersions(d, k) \cup {c.version}
        BY <2>1, StoredVersionsAfter DEF e
      <3>2. \A w \in StoredVersions(d, k) : w \in Nat /\ w < c.version
        BY <2>1, NewerThanStored, StoredFrom DEF Consistent
      <3>3. c.version \in Nat
        BY CastIsIdentity
      <3> QED
        BY <3>1, <3>2, <3>3
    <2>2. CASE k # c.key
      BY <2>2, StoredVersionsAfter DEF e, Consistent, VersionsHaveMax
    <2> QED
      BY <2>1, <2>2
  <1>12. TombstonesAreEvents(e)
    <2> SUFFICES ASSUME NEW k \in Key, e.tomb[k] # None
                 PROVE  \E i \in DOMAIN e.outbox : e.outbox[i] = e.tomb[k] /\ e.tomb[k].key = k
      BY DEF TombstonesAreEvents
    <2>1. CASE k = c.key
      BY <1>0, <1>1, <1>5, <2>1
    <2>2. CASE k # c.key
      <3>1. PICK i \in DOMAIN d.outbox : d.outbox[i] = d.tomb[k] /\ d.tomb[k].key = k
        BY <1>6, <2>2 DEF Consistent, TombstonesAreEvents
      <3> QED
        BY <1>0, <1>1, <1>6, <2>2, <3>1
    <2> QED
      BY <2>1, <2>2
  <1>13. Consistent(e)
    BY <1>7, <1>8, <1>9, <1>10, <1>11, <1>12 DEF Consistent
  <1> QED
    BY <1>13 DEF e

\* Applying a command settles it and unsettles no other.
LEMMA SettledStep ==
  ASSUME VersionsFit, NEW d \in Tables, Consistent(d), NEW c \in Command,
         ~ AlreadyApplied(d, c), ~ VersionConflict(d, c)
  PROVE  /\ Settled(ApplyTo(d, c), c)
         /\ \A b \in Command : Settled(d, b) => Settled(ApplyTo(d, c), b)
  <1> DEFINE e == ApplyTo(d, c)
  <1>0. e \in Tables /\ c # None /\ c.key \in Key
    BY TablesOK, WriterConstants
  <1>1. e.idem[c.idem] = c /\ \A i \in IdemKey \ {c.idem} : e.idem[i] = d.idem[i]
    BY AppliedFields
  <1>2. Consistent(e)
    BY ConsistentStep
  <1>3. /\ StoredVersions(e, c.key) = StoredVersions(d, c.key) \cup {c.version}
        /\ \A k \in Key \ {c.key} : StoredVersions(e, k) = StoredVersions(d, k)
    BY StoredVersionsAfter
  <1> HIDE DEF e
  <1>4. Settled(e, c)
    BY <1>0, <1>1 DEF Settled, AlreadyApplied
  <1>5. ASSUME NEW b \in Command, Settled(d, b)
        PROVE  Settled(e, b)
    <2>0. b.key \in Key /\ b.idem \in IdemKey /\ b.version \in Nat
      BY WriterConstants, CastIsIdentity
    <2>1. CASE AlreadyApplied(d, b)
      BY <1>0, <1>1, <2>0, <2>1 DEF Settled, AlreadyApplied
    <2>2. CASE VersionConflict(d, b)
      <3>1. current_version(d, b.key) \in StoredVersions(d, b.key)
        BY <2>0, <2>2, CurrentVersionIsMax DEF VersionConflict, Consistent
      <3>2. current_version(d, b.key) \in StoredVersions(e, b.key)
        BY <1>3, <2>0, <3>1
      <3>3. current_version(d, b.key) <= current_version(e, b.key)
        BY <1>0, <1>2, <2>0, <3>2, CurrentVersionIsMax DEF Consistent
      <3>4. /\ current_version(e, b.key) \in StoredVersions(e, b.key)
            /\ current_version(e, b.key) \in Nat /\ current_version(d, b.key) \in Nat
        BY <1>0, <1>2, <2>0, <3>1, <3>2, CurrentVersionIsMax, StoredFrom DEF Consistent
      <3>5. b.version <= current_version(d, b.key)
        BY <2>2 DEF VersionConflict
      <3>6. VersionConflict(e, b)
        BY <2>0, <3>2, <3>3, <3>4, <3>5 DEF VersionConflict
      <3> QED
        BY <3>6 DEF Settled
    <2>3. CASE b.op \notin KnownOp
      BY <2>3 DEF Settled
    <2> QED
      BY <1>5, <2>1, <2>2, <2>3 DEF Settled
  <1> QED
    BY <1>4, <1>5 DEF e

-----------------------------------------------------------------------------
(* The inductive invariant *)

\* The inductive invariant holds when the store is empty.
LEMMA InvInit == Init => IInv
  <1> SUFFICES ASSUME Init PROVE IInv
    OBVIOUS
  <1>1. TypeOK /\ Pipeline
    BY TypeInit
  <1>2. db = EmptyTables /\ tx = EmptyTables /\ Len(<<>>) = 0 /\ DOMAIN <<>> = {}
    BY DEF Init
  <1>3. Consistent(EmptyTables)
    <2>1. \A k \in Key : StoredVersions(EmptyTables, k) = {}
      BY DEF StoredVersions, EmptyTables
    <2> QED
      BY <1>2, <2>1 DEF Consistent, UniqueEvents, IdempotencyMatchesOutbox, VersionsIncrease,
                        RowsMatchLastEvent, VersionsHaveMax, TombstonesAreEvents, EmptyTables
  <1>4. TxExtendsDb
    BY <1>2 DEF TxExtendsDb, Init, EmptyTables
  <1>5. BatchProgress /\ AckedIsSettled
    BY <1>2 DEF Init, BatchProgress, AckedIsSettled, Messages
  <1> QED
    BY <1>1, <1>2, <1>3, <1>4, <1>5 DEF IInv

\* Steps that leave the tables and the batch alone.
LEMMA InvIdleStep ==
  ASSUME IInv, TypeOK', Pipeline', UNCHANGED <<batch, pc, idx, tx, db>>,
         \A m \in Messages : m \in Messages' /\ topic'[m] = topic[m],
         \A m \in Messages' : (topic'[m] \in Command /\ (mqtt'[m] = "acked" \/ m \in ackq'))
                                => m \in Messages /\ (mqtt[m] = "acked" \/ m \in ackq)
  PROVE  IInv'
  <1>1. \A i \in DOMAIN batch : batch[i] \in Messages
    BY DEF IInv, TypeOK
  <1>2. Consistent(db)' /\ Consistent(tx)'
    BY DEF IInv, Consistent, UniqueEvents, IdempotencyMatchesOutbox, VersionsIncrease,
           RowsMatchLastEvent, LastEvent, VersionsHaveMax, StoredVersions, TombstonesAreEvents
  <1>3. TxExtendsDb'
    BY DEF IInv, TxExtendsDb
  <1>4. BatchProgress'
    <2>1. pc = "job" => \A i \in 1..(idx - 1) : i \in DOMAIN batch
      BY DEF IInv, TypeOK, Pipeline
    <2> QED
      BY <1>1, <2>1 DEF IInv, BatchProgress
  <1>5. AckedIsSettled'
    BY DEF IInv, AckedIsSettled
  <1> QED
    BY <1>2, <1>3, <1>4, <1>5 DEF IInv

\* Without an open transaction the transaction view adds nothing to the tables.
LEMMA EmptyTx ==
  ASSUME TypeOK
  PROVE  /\ Len(db.outbox) \in Nat
         /\ \A i \in 1..Len(db.outbox) : db.outbox[i] = db.outbox[i]
  BY RowFacts DEF TypeOK

\* Steps after which no transaction is open: main is receiving.
LEMMA InvRecvStep ==
  ASSUME IInv, TypeOK', Pipeline', pc' = "recv", UNCHANGED <<topic, db>>,
         \A m \in Messages : (mqtt'[m] = "acked" \/ m \in ackq')
                               => (mqtt[m] = "acked" \/ m \in ackq)
  PROVE  IInv'
  <1>1. tx' = db /\ idx' = 1 /\ db' = db
    BY DEF Pipeline
  <1>2. Consistent(db)' /\ Consistent(tx)'
    BY <1>1 DEF IInv, Consistent, UniqueEvents, IdempotencyMatchesOutbox, VersionsIncrease,
           RowsMatchLastEvent, LastEvent, VersionsHaveMax, StoredVersions, TombstonesAreEvents
  <1>3. TxExtendsDb'
    BY <1>1, EmptyTx DEF IInv, TxExtendsDb
  <1>4. BatchProgress'
    BY DEF BatchProgress
  <1>5. AckedIsSettled'
    BY <1>1 DEF IInv, AckedIsSettled, Messages
  <1> QED
    BY <1>2, <1>3, <1>4, <1>5 DEF IInv

\* A command of the batch that needs nothing done: the transaction is unchanged.
LEMMA InvSkipStep ==
  ASSUME IInv, TypeOK', Pipeline', Processing, tx' = tx, NextCommand, Settled(tx, Current)
  PROVE  IInv'
  <1>1. /\ UNCHANGED <<topic, mqtt, ackq, chan, batch, pc, db, pending_since>>
        /\ pc = "job" /\ idx' = idx + 1 /\ idx \in Nat \ {0} /\ idx <= Len(batch)
    BY DEF NextCommand, Processing, IInv, TypeOK
  <1>2. Consistent(db)' /\ Consistent(tx)'
    BY <1>1 DEF IInv, Consistent, UniqueEvents, IdempotencyMatchesOutbox, VersionsIncrease,
           RowsMatchLastEvent, LastEvent, VersionsHaveMax, StoredVersions, TombstonesAreEvents
  <1>3. TxExtendsDb'
    <2>1. Len(tx.outbox) \in Nat /\ Len(db.outbox) \in Nat
      BY RowFacts DEF IInv, TypeOK
    <2> QED
      BY <1>1, <2>1 DEF IInv, TxExtendsDb
  <1>4. BatchProgress'
    <2>1. \A i \in 1..(idx - 1) : Settled(tx, topic[batch[i]])
      BY <1>1 DEF IInv, BatchProgress
    <2>2. Settled(tx, topic[batch[idx]])
      BY DEF Current
    <2>3. \A i \in 1..(idx' - 1) : i = idx \/ i \in 1..(idx - 1)
      BY <1>1
    <2> QED
      BY <1>1, <2>1, <2>2, <2>3 DEF BatchProgress
  <1>5. AckedIsSettled'
    BY <1>1 DEF IInv, AckedIsSettled, Messages
  <1> QED
    BY <1>2, <1>3, <1>4, <1>5 DEF IInv

\* The write thread applies a command inside the transaction.
LEMMA InvApplyStep ==
  ASSUME VersionsFit, IInv, TypeOK', Pipeline', ApplyCommand
  PROVE  IInv'
  <1>1. /\ UNCHANGED <<topic, mqtt, ackq, chan, batch, pc, db, pending_since>>
        /\ pc = "job" /\ idx' = idx + 1 /\ idx \in Nat \ {0} /\ idx <= Len(batch)
        /\ tx' = ApplyTo(tx, Current)
        /\ ~ AlreadyApplied(tx, Current) /\ ~ VersionConflict(tx, Current)
    BY DEF ApplyCommand, NextCommand, Processing, IInv, TypeOK
  <1>2. Current \in Command /\ tx \in Tables /\ db \in Tables
    BY <1>1 DEF Current, IInv, TypeOK, Pipeline
  <1>3. Consistent(db)'
    BY <1>1 DEF IInv, Consistent, UniqueEvents, IdempotencyMatchesOutbox, VersionsIncrease,
           RowsMatchLastEvent, LastEvent, VersionsHaveMax, StoredVersions, TombstonesAreEvents
  <1>4. Consistent(tx')
    BY <1>1, <1>2, ConsistentStep DEF IInv
  <1>5. /\ Settled(tx', Current)
        /\ \A b \in Command : Settled(tx, b) => Settled(tx', b)
    BY <1>1, <1>2, SettledStep DEF IInv
  <1>6. TxExtendsDb'
    <2>1. Len(tx.outbox) \in Nat /\ Len(db.outbox) \in Nat
      BY <1>2, RowFacts
    <2>2. /\ Len(tx'.outbox) = Len(tx.outbox) + 1
          /\ \A i \in 1..Len(tx.outbox) : tx'.outbox[i] = tx.outbox[i]
      BY <1>1, <1>2, AppliedFields
    <2>3. \A b \in Command : Settled(db, b) => Settled(tx', b)
      BY <1>5 DEF IInv, TxExtendsDb
    <2>4. /\ Len(db.outbox) < Len(tx'.outbox) /\ Len(tx'.outbox) < Len(db.outbox) + idx'
          /\ \A i \in 1..Len(db.outbox) : tx'.outbox[i] = db.outbox[i]
      <3>1. /\ Len(db.outbox) <= Len(tx.outbox) /\ Len(tx.outbox) < Len(db.outbox) + idx
            /\ \A i \in 1..Len(db.outbox) : tx.outbox[i] = db.outbox[i]
        BY DEF IInv, TxExtendsDb
      <3>2. \A i \in 1..Len(db.outbox) : i \in 1..Len(tx.outbox)
        BY <2>1, <3>1
      <3>3. Len(db.outbox) < Len(tx'.outbox)
        BY <2>1, <2>2, <3>1
      <3>4. Len(tx'.outbox) < Len(db.outbox) + idx'
        <4>1. idx' = idx + 1 /\ idx \in Nat
          BY <1>1
        <4>2. \A n, m, p, i \in Nat : p = n + 1 /\ n < m + i => p < m + (i + 1)
          OBVIOUS
        <4>3. Len(tx'.outbox) \in Nat
          BY <2>1, <2>2
        <4> QED
          BY <2>1, <2>2, <3>1, <4>1, <4>2, <4>3, Zenon
      <3>5. \A i \in 1..Len(db.outbox) : tx'.outbox[i] = db.outbox[i]
        BY <2>2, <3>1, <3>2, Zenon
      <3> QED
        BY <3>3, <3>4, <3>5
    <2>5. Len(tx'.outbox) \in Nat
      BY <2>1, <2>2
    <2>6. db' = db
      BY <1>1
    <2>7. Len(db.outbox) <= Len(tx'.outbox)
      BY <2>1, <2>4, <2>5
    <2>8. /\ Len(db'.outbox) <= Len(tx'.outbox)
          /\ Len(tx'.outbox) < Len(db'.outbox) + idx'
          /\ \A i \in 1..Len(db'.outbox) : tx'.outbox[i] = db'.outbox[i]
          /\ tx' # db' => Len(db'.outbox) < Len(tx'.outbox)
      BY <2>4, <2>6, <2>7, Zenon
    <2>9. \A b \in Command : Settled(db', b) => Settled(tx', b)
      BY <2>3, <2>6, Zenon
    <2> QED
      BY <2>8, <2>9, Zenon DEF TxExtendsDb, Settled, AlreadyApplied, VersionConflict,
           current_version, StoredVersions
  <1>7. BatchProgress'
    <2>1. \A i \in 1..(idx - 1) : topic[batch[i]] \in Command /\ Settled(tx, topic[batch[i]])
      BY <1>1 DEF IInv, BatchProgress, Pipeline, TypeOK
    <2>2. \A i \in 1..(idx' - 1) : i = idx \/ i \in 1..(idx - 1)
      BY <1>1
    <2> QED
      BY <1>1, <1>5, <2>1, <2>2 DEF BatchProgress, Current
  <1>8. AckedIsSettled'
    BY <1>1 DEF IInv, AckedIsSettled, Messages
  <1> QED
    BY <1>3, <1>4, <1>6, <1>7, <1>8 DEF IInv

\* COMMIT makes what the transaction did to the tables durable.
LEMMA InvCommitStep ==
  ASSUME IInv, TypeOK', Pipeline', CommitBatch
  PROVE  IInv'
  <1>1. /\ UNCHANGED <<topic, mqtt, ackq, chan, batch, tx, pending_since>>
        /\ pc = "job" /\ pc' = "ack" /\ idx' = 1 /\ db' = tx
        /\ idx \in Nat /\ idx = Len(batch) + 1 /\ Len(batch) \in Nat
    BY DEF CommitBatch, IInv, TypeOK, Pipeline
  <1>2. Consistent(db') /\ Consistent(tx')
    BY <1>1 DEF IInv
  <1>3. TxExtendsDb'
    <2>1. Len(tx.outbox) \in Nat
      BY RowFacts DEF IInv, TypeOK
    <2> QED
      BY <1>1, <2>1 DEF TxExtendsDb
  <1>4. BatchProgress'
    <2>1. DOMAIN batch = 1..(idx - 1)
      BY <1>1, LenProperties DEF IInv, TypeOK
    <2> QED
      BY <1>1, <2>1 DEF IInv, BatchProgress
  <1>5. AckedIsSettled'
    BY <1>1 DEF IInv, AckedIsSettled, TxExtendsDb, Messages
  <1> QED
    BY <1>2, <1>3, <1>4, <1>5 DEF IInv

\* main.rs acknowledges a command of the committed batch.
LEMMA InvAckStep ==
  ASSUME IInv, TypeOK', Pipeline', AckCommand
  PROVE  IInv'
  <1>1. /\ UNCHANGED <<topic, mqtt, chan, batch, pc, tx, db, pending_since>>
        /\ pc = "ack" /\ idx' = idx + 1 /\ idx \in Nat \ {0} /\ idx \in DOMAIN batch
        /\ ackq' = ackq \cup {batch[idx]} /\ tx = db
    BY DEF AckCommand, IInv, TypeOK, Pipeline
  <1>2. Consistent(db)' /\ Consistent(tx)'
    BY <1>1 DEF IInv, Consistent, UniqueEvents, IdempotencyMatchesOutbox, VersionsIncrease,
           RowsMatchLastEvent, LastEvent, VersionsHaveMax, StoredVersions, TombstonesAreEvents
  <1>3. TxExtendsDb'
    <2>1. Len(db.outbox) \in Nat
      BY RowFacts DEF IInv, TypeOK
    <2>2. tx' = db' /\ db' = db /\ idx' \in Nat \ {0}
      BY <1>1
    <2>3. Len(tx'.outbox) < Len(db'.outbox) + idx' /\ Len(db'.outbox) <= Len(tx'.outbox)
      BY <2>1, <2>2
    <2> QED
      BY <2>2, <2>3 DEF TxExtendsDb
  <1>4. BatchProgress'
    BY <1>1 DEF IInv, BatchProgress
  <1>5. AckedIsSettled'
    BY <1>1 DEF IInv, AckedIsSettled, BatchProgress, Messages
  <1> QED
    BY <1>2, <1>3, <1>4, <1>5 DEF IInv

\* One step of any thread, of the broker, a crash or a watchdog exit keeps the invariant.
LEMMA InvStep == VersionsFit /\ IInv /\ [Next]_vars => IInv'
  <1> SUFFICES ASSUME VersionsFit, IInv, [Next]_vars PROVE IInv'
    OBVIOUS
  <1>0. TypeOK' /\ Pipeline'
    BY TypeStep DEF IInv
  <1>1. ASSUME NEW c \in Command \cup Garbage, Publish(c) PROVE IInv'
    <2>1. /\ Len(topic) \in Nat /\ Messages = 1..Len(topic) /\ Messages' = 1..(Len(topic) + 1)
          /\ \A m \in Messages : topic'[m] = topic[m] /\ mqtt'[m] = mqtt[m]
          /\ mqtt'[Len(topic) + 1] = "queued"
          /\ ackq \subseteq Messages
      BY <1>1 DEF Publish, IInv, TypeOK, Messages
    <2>2. UNCHANGED <<ackq, batch, pc, idx, tx, db>>
      BY <1>1 DEF Publish
    <2>3. \A m \in Messages' : m \in Messages \/ m = Len(topic) + 1
      BY <2>1
    <2> QED
      BY <1>0, <2>1, <2>2, <2>3, InvIdleStep
  <1>2. ASSUME NEW m \in Messages, SendAck(m) PROVE IInv'
    BY <1>0, <1>2, InvIdleStep DEF SendAck, IInv, TypeOK, Messages
  <1>3. ASSUME NEW m \in Messages, Enqueue(m) \/ Defer(m) PROVE IInv'
    BY <1>0, <1>3, InvIdleStep, SMTT(60) DEF Enqueue, Defer, IInv, TypeOK, Messages
  <1>4. ASSUME NEW m \in Messages, AckMalformed(m) PROVE IInv'
    <2>1. topic[m] \notin Command
      BY <1>4, WriterConstants DEF AckMalformed
    <2> QED
      BY <1>0, <1>4, <2>1, InvIdleStep DEF AckMalformed, IInv, TypeOK, Messages
  <1>5. CASE Reconnect
    BY <1>0, <1>5, InvIdleStep DEF Reconnect, Requeued, Messages
  <1>6. CASE Restart
    BY <1>0, <1>6, InvRecvStep DEF Restart, Requeued, Messages
  <1>7. CASE RecvPush \/ FailBatch \/ FinishBatch
    BY <1>0, <1>7, InvRecvStep DEF RecvPush, FailBatch, FinishBatch
  <1>8. CASE RecvFlush \/ TimeoutFlush
    <2>1. /\ UNCHANGED <<topic, mqtt, ackq, idx, tx, db>>
          /\ pc = "recv" /\ pc' = "job" /\ idx = 1 /\ tx = db
      BY <1>8 DEF RecvFlush, TimeoutFlush, IInv, Pipeline
    <2>2. Consistent(db)' /\ Consistent(tx)'
      BY <2>1 DEF IInv, Consistent, UniqueEvents, IdempotencyMatchesOutbox, VersionsIncrease,
             RowsMatchLastEvent, LastEvent, VersionsHaveMax, StoredVersions, TombstonesAreEvents
    <2>3. TxExtendsDb' /\ BatchProgress' /\ AckedIsSettled'
      BY <2>1 DEF IInv, TxExtendsDb, BatchProgress, AckedIsSettled, Messages
    <2> QED
      BY <1>0, <2>2, <2>3 DEF IInv
  <1>9. CASE SkipDuplicate \/ SkipConflict \/ SkipUnknownOp
    BY <1>0, <1>9, InvSkipStep DEF SkipDuplicate, SkipConflict, SkipUnknownOp, Settled
  <1>10. CASE ApplyCommand
    BY <1>0, <1>10, InvApplyStep
  <1>11. CASE CommitBatch
    BY <1>0, <1>11, InvCommitStep
  <1>12. CASE AckCommand
    BY <1>0, <1>12, InvAckStep
  <1>13. CASE UNCHANGED vars
    BY <1>0, <1>13, InvIdleStep DEF vars, Messages
  <1> QED
    BY <1>1, <1>2, <1>3, <1>4, <1>5, <1>6, <1>7, <1>8, <1>9, <1>10, <1>11, <1>12, <1>13
    DEF Next, ConsumerStep, WriterStep, WatchdogExit

\* With versions below 2^63 the inductive invariant of the writer (tables consistent,
\* transaction an extension of them, batch progress, acknowledgement after commit) always holds.
THEOREM InductiveInvariant == VersionsFit => (Spec => []IInv)
  <1> SUFFICES ASSUME VersionsFit PROVE Spec => []IInv
    OBVIOUS
  <1>1. IInv /\ [Next]_vars => IInv'
    BY InvStep
  <1> QED
    BY InvInit, <1>1, PTL DEF Spec

\* No acknowledged command is lost: the consumer's acknowledgement never
\* overtakes the commit of main.rs process_batch, for all capacities and sizes.
THEOREM NoAckedCommandLost == VersionsFit => (Spec => []AckedIsSettled)
  <1>1. IInv => AckedIsSettled
    BY DEF IInv
  <1> QED
    BY <1>1, InductiveInvariant, PTL

\* Redelivered and retried commands produce one event each.
THEOREM ExactlyOneEvent == VersionsFit => (Spec => []OneEventPerKey)
  <1>1. IInv => OneEventPerKey
    BY DEF IInv, Consistent, OneEventPerKey
  <1> QED
    BY <1>1, InductiveInvariant, PTL

\* Versions of an entity only grow in the outbox.
THEOREM VersionsNeverRegress == VersionsFit => (Spec => []NoVersionRegression)
  <1>1. IInv => NoVersionRegression
    BY DEF IInv, Consistent, NoVersionRegression
  <1> QED
    BY <1>1, InductiveInvariant, PTL

\* Payload rows and tombstones are the replay of the outbox.
THEOREM RowsAreReplay == VersionsFit => (Spec => []RowsReplayOutbox)
  <1>1. IInv => RowsReplayOutbox
    BY DEF IInv, Consistent, RowsReplayOutbox
  <1> QED
    BY <1>1, InductiveInvariant, PTL

-----------------------------------------------------------------------------
(* What a step does to the committed tables *)

\* Only COMMIT changes the committed tables.
LEMMA OnlyCommitChangesTables ==
  ASSUME [Next]_vars, db' # db
  PROVE  CommitBatch
  BY DEF Next, vars, ConsumerStep, WriterStep, WatchdogExit, Publish, SendAck, Reconnect,
         Restart, Enqueue, Defer, AckMalformed, RecvPush, RecvFlush, TimeoutFlush,
         SkipDuplicate, SkipConflict, SkipUnknownOp, ApplyCommand, NextCommand, FailBatch,
         AckCommand, FinishBatch

\* What a COMMIT that changed the tables has done: it settled the whole batch and
\* appended to the outbox, at most one event per command.
LEMMA CommitExtends ==
  ASSUME IInv, CommitBatch, db' # db
  PROVE  /\ db' = tx
         /\ \A i \in DOMAIN batch : Settled(db', topic[batch[i]])
         /\ Len(db'.outbox) - Len(db.outbox) \in 1..Len(batch)
         /\ Len(db.outbox) < Len(db'.outbox)
         /\ SubSeq(db'.outbox, 1, Len(db.outbox)) = db.outbox
  <1>1. /\ db' = tx /\ tx # db /\ pc = "job"
        /\ idx \in Nat /\ idx = Len(batch) + 1 /\ Len(batch) \in Nat
        /\ DOMAIN batch = 1..(idx - 1)
    BY LenProperties DEF CommitBatch, IInv, TypeOK, Pipeline
  <1>2. /\ db.outbox \in Seq(Command) /\ tx.outbox \in Seq(Command)
        /\ Len(db.outbox) \in Nat /\ Len(tx.outbox) \in Nat
    BY RowFacts DEF IInv, TypeOK
  <1>3. /\ Len(db.outbox) < Len(tx.outbox) /\ Len(tx.outbox) < Len(db.outbox) + idx
        /\ \A i \in 1..Len(db.outbox) : tx.outbox[i] = db.outbox[i]
    BY <1>1 DEF IInv, TxExtendsDb
  <1>4. \A i \in DOMAIN batch : Settled(tx, topic[batch[i]])
    BY <1>1 DEF IInv, BatchProgress
  <1>5. Len(tx.outbox) - Len(db.outbox) \in 1..Len(batch)
    <2>1. \A a, b, n, i \in Nat : a < b /\ b < a + i /\ i = n + 1 => b - a \in 1..n
      OBVIOUS
    <2> QED
      BY <1>1, <1>2, <1>3, <2>1, Zenon
  <1>6. SubSeq(tx.outbox, 1, Len(db.outbox)) = db.outbox
    <2>1. /\ SubSeq(tx.outbox, 1, Len(db.outbox)) \in Seq(Command)
          /\ Len(SubSeq(tx.outbox, 1, Len(db.outbox))) = Len(db.outbox)
          /\ \A i \in 1..Len(db.outbox) : SubSeq(tx.outbox, 1, Len(db.outbox))[i] = tx.outbox[i]
      BY <1>2, <1>3
    <2> QED
      BY <1>2, <1>3, <2>1, SeqEqual
  <1> QED
    BY <1>1, <1>3, <1>4, <1>5, <1>6

\* Batches are atomic: whatever WriteEngine::process_batch meets, the committed
\* tables change by a whole settled batch and the outbox only grows.
THEOREM BatchesAreAtomic == VersionsFit => (Spec => CommitIsAtomic)
  <1> SUFFICES ASSUME VersionsFit PROVE Spec => CommitIsAtomic
    OBVIOUS
  <1>1. ASSUME IInv, [Next]_vars, db' # db
        PROVE  /\ \A i \in DOMAIN batch : Settled(db', topic[batch[i]])
               /\ Len(db'.outbox) - Len(db.outbox) \in 1..Len(batch)
               /\ SubSeq(db'.outbox, 1, Len(db.outbox)) = db.outbox
    BY <1>1, OnlyCommitChangesTables, CommitExtends
  <1> QED
    BY <1>1, InductiveInvariant, PTL DEF Spec, CommitIsAtomic

-----------------------------------------------------------------------------
(* The writer implements the command log: the initial state maps to the     *)
(* log's, COMMIT to Extend or a stutter, a PUBACK to Confirm or a stutter,  *)
(* and every other step to a stutter.                                       *)

\* What the mapping needs of the tables beside Consistent: only known operations
\* become events, a row is under its own key, and an entity with events has a
\* last one.
Loggable(d) ==
  /\ \A i \in DOMAIN d.outbox : d.outbox[i].op \in KnownOp
  /\ \A k \in IdemKey : d.idem[k] # None => d.idem[k].idem = k
  /\ \A k \in Key : (\E i \in DOMAIN d.outbox : d.outbox[i].key = k)
                      => \E i \in DOMAIN d.outbox : LastEvent(d, k, i)

LogInv == Loggable(db) /\ Loggable(tx)

\* The acknowledged commands, as the mapping names them.
Confirmed == {topic[m] : m \in {n \in Messages : topic[n] \in Command /\ mqtt[n] = "acked"}}

-----------------------------------------------------------------------------
(* The tables *)

\* One accepted command keeps the tables loggable.
LEMMA LoggableStep ==
  ASSUME NEW d \in Tables, Loggable(d), NEW c \in Command, c.op \in KnownOp,
         ~ AlreadyApplied(d, c)
  PROVE  Loggable(ApplyTo(d, c))
  <1> DEFINE e == ApplyTo(d, c)
             n == Len(d.outbox)
  <1>1. n \in Nat /\ DOMAIN d.outbox = 1..n /\ c.key \in Key /\ c.idem \in IdemKey
    BY RowFacts, WriterConstants
  <1>2. /\ e.idem[c.idem] = c
        /\ \A i \in IdemKey \ {c.idem} : e.idem[i] = d.idem[i]
        /\ DOMAIN e.outbox = 1..(n + 1)
        /\ \A i \in 1..n : e.outbox[i] = d.outbox[i]
        /\ e.outbox[n + 1] = c
    BY AppliedFields
  <1> HIDE DEF e, n
  <1>3. \A i \in 1..(n + 1) : i \in 1..n \/ i = n + 1
    BY <1>1
  <1>4. \A i \in DOMAIN e.outbox : e.outbox[i].op \in KnownOp
    BY <1>1, <1>2, <1>3 DEF Loggable
  <1>5. \A k \in IdemKey : e.idem[k] # None => e.idem[k].idem = k
    BY <1>2 DEF Loggable
  <1>6. ASSUME NEW k \in Key, NEW i \in DOMAIN e.outbox, e.outbox[i].key = k
        PROVE  \E j \in DOMAIN e.outbox : LastEvent(e, k, j)
    <2>1. CASE c.key = k
      <3>1. n + 1 \in DOMAIN e.outbox /\ \A j \in DOMAIN e.outbox : j <= n + 1
        BY <1>1, <1>2
      <3>2. LastEvent(e, k, n + 1)
        BY <1>2, <2>1, <3>1 DEF LastEvent
      <3> QED
        BY <3>1, <3>2
    <2>2. CASE c.key # k
      <3>1. i \in 1..n /\ d.outbox[i].key = k
        BY <1>2, <1>3, <1>6, <2>2
      <3>2. PICK j \in 1..n : LastEvent(d, k, j)
        BY <1>1, <3>1 DEF Loggable
      <3>3. j \in DOMAIN e.outbox
        BY <1>1, <1>2
      <3>4. LastEvent(e, k, j)
        BY <1>1, <1>2, <1>3, <2>2, <3>2 DEF LastEvent
      <3> QED
        BY <3>3, <3>4
    <2> QED
      BY <2>1, <2>2
  <1> QED
    BY <1>4, <1>5, <1>6 DEF Loggable, e

\* The extra invariant holds in the empty store.
LEMMA LogInvInit == Init => LogInv
  BY DEF Init, LogInv, Loggable, EmptyTables

\* The extra invariant is kept by every step: the tables change by an accepted
\* command, or become each other.
LEMMA LogInvStep == IInv /\ LogInv /\ [Next]_vars => LogInv'
  <1> SUFFICES ASSUME IInv, LogInv, [Next]_vars PROVE LogInv'
    OBVIOUS
  <1>1. CASE ApplyCommand
    <2>1. /\ tx' = ApplyTo(tx, Current) /\ db' = db /\ Current.op \in KnownOp
          /\ ~ AlreadyApplied(tx, Current) /\ tx \in Tables
      BY <1>1 DEF ApplyCommand, NextCommand, IInv, TypeOK
    <2>2. Current \in Command
      BY <1>1 DEF ApplyCommand, Processing, Current, IInv, TypeOK, Pipeline
    <2>3. Loggable(tx')
      BY <2>1, <2>2, LoggableStep DEF LogInv
    <2>4. Loggable(db')
      BY <2>1 DEF LogInv
    <2> QED
      BY <2>3, <2>4 DEF LogInv
  <1>2. CASE ~ ApplyCommand
    <2>1. db' \in {db, tx} /\ tx' \in {db, tx}
      BY <1>2 DEF Next, vars, ConsumerStep, WriterStep, WatchdogExit, Publish, SendAck,
           Reconnect, Restart, Enqueue, Defer, AckMalformed, RecvPush, RecvFlush,
           TimeoutFlush, SkipDuplicate, SkipConflict, SkipUnknownOp, NextCommand,
           CommitBatch, FailBatch, AckCommand, FinishBatch
    <2> QED
      BY <2>1 DEF LogInv
  <1> QED
    BY <1>1, <1>2

\* What the engine has settled, the log has decided.
LEMMA SettledIsDecided ==
  ASSUME VersionsFit, NEW d \in Tables, Consistent(d), Loggable(d), NEW c \in Command,
         Settled(d, c)
  PROVE  \/ c.op \notin KnownOp
         \/ \E i \in 1..Len(d.outbox) :
              \/ d.outbox[i].idem = c.idem
              \/ d.outbox[i].key = c.key /\ c.version <= d.outbox[i].version
  <1>1. c.key \in Key /\ c.idem \in IdemKey /\ DOMAIN d.outbox = 1..Len(d.outbox)
    BY WriterConstants, RowFacts
  <1>2. CASE AlreadyApplied(d, c)
    BY <1>1, <1>2 DEF AlreadyApplied, Loggable, Consistent, IdempotencyMatchesOutbox
  <1>3. CASE VersionConflict(d, c)
    <2>1. /\ current_version(d, c.key) \in StoredVersions(d, c.key)
          /\ c.version <= current_version(d, c.key)
      BY <1>1, <1>3, CurrentVersionIsMax DEF VersionConflict, Consistent
    <2>2. PICK j \in IdemKey : /\ d.idem[j] # None /\ d.idem[j].key = c.key
                               /\ current_version(d, c.key) = d.idem[j].version
      BY <1>1, <2>1, StoredFrom
    <2> QED
      BY <1>1, <2>1, <2>2 DEF Consistent, IdempotencyMatchesOutbox
  <1> QED
    BY <1>2, <1>3 DEF Settled

\* Consistent tables are a well-ordered log and its replay.
LEMMA TablesAreLog ==
  ASSUME NEW d \in Tables, Consistent(d), Loggable(d)
  PROVE  /\ \A i \in 1..Len(d.outbox) : d.outbox[i] \in Command /\ d.outbox[i].op \in KnownOp
         /\ Log!WellOrdered(d.outbox)
         /\ Log!IsReplay(d.outbox, d.payload)
  <1>1. DOMAIN d.outbox = 1..Len(d.outbox) /\ Len(d.outbox) \in Nat
        /\ \A i \in DOMAIN d.outbox : d.outbox[i] \in Command
    BY RowFacts
  <1>2. Log!WellOrdered(d.outbox)
    BY <1>1 DEF Log!WellOrdered, Consistent, UniqueEvents, VersionsIncrease
  <1>3. Log!IsReplay(d.outbox, d.payload)
    <2> SUFFICES ASSUME NEW k \in Key, ~ (\A i \in 1..Len(d.outbox) : d.outbox[i].key # k)
                 PROVE  \E i \in 1..Len(d.outbox) :
                          /\ d.outbox[i].key = k
                          /\ \A j \in 1..Len(d.outbox) : d.outbox[j].key = k => j <= i
                          /\ d.payload[k] = IF d.outbox[i].op = "delete" THEN None
                                                                         ELSE d.outbox[i]
      BY <1>1 DEF Log!IsReplay, Consistent, RowsMatchLastEvent
    <2>1. PICK i \in DOMAIN d.outbox : LastEvent(d, k, i)
      BY <1>1 DEF Loggable
    <2>2. d.payload[k] = IF d.outbox[i].op = "delete" THEN None ELSE d.outbox[i]
      BY <2>1 DEF Consistent, RowsMatchLastEvent
    <2> QED
      BY <1>1, <2>1, <2>2 DEF LastEvent
  <1> QED
    BY <1>1, <1>2, <1>3 DEF Loggable

-----------------------------------------------------------------------------
(* The steps *)

\* No step but a PUBACK changes the set of acknowledged commands.
LEMMA SameConfirmed ==
  ASSUME TypeOK,
         \A m \in Messages : /\ m \in Messages' /\ topic'[m] = topic[m]
                             /\ mqtt'[m] = "acked" <=> mqtt[m] = "acked",
         \A m \in Messages' : mqtt'[m] = "acked" => m \in Messages
  PROVE  Confirmed' = Confirmed
  BY DEF Confirmed

\* A step that leaves tables and acknowledged commands alone is a stutter.
LEMMA Stutter ==
  ASSUME db' = db, Confirmed' = Confirmed
  PROVE  UNCHANGED Log!vars
  BY DEF Log!vars, Confirmed

\* COMMIT extends the log, or leaves it as it is.
LEMMA CommitRefines ==
  ASSUME VersionsFit, IInv, LogInv, CommitBatch
  PROVE  [Log!Next]_(Log!vars)
  <1>1. UNCHANGED <<topic, mqtt>> /\ db' = tx
    BY DEF CommitBatch
  <1>2. Confirmed' = Confirmed
    BY <1>1 DEF Confirmed, Messages
  <1>3. CASE db' = db
    BY <1>2, <1>3, Stutter
  <1>4. CASE db' # db
    <2>1. tx \in Tables /\ Consistent(tx) /\ Loggable(tx)
      BY DEF IInv, TypeOK, LogInv
    <2>2. /\ Len(db.outbox) < Len(db'.outbox)
          /\ SubSeq(db'.outbox, 1, Len(db.outbox)) = db.outbox
      BY <1>4, CommitExtends
    <2>3. /\ \A i \in 1..Len(db'.outbox) :
               db'.outbox[i] \in Command /\ db'.outbox[i].op \in KnownOp
          /\ Log!WellOrdered(db'.outbox)
          /\ Log!IsReplay(db'.outbox, db'.payload)
      BY <1>1, <2>1, TablesAreLog
    <2>4. Log!Extend
      BY <1>2, <2>2, <2>3 DEF Log!Extend, Confirmed
    <2> QED
      BY <2>4 DEF Log!Next
  <1> QED
    BY <1>3, <1>4

\* A PUBACK confirms a command that is decided, or one already confirmed, or
\* acknowledges a message that is no command.
LEMMA AckRefines ==
  ASSUME VersionsFit, IInv, LogInv, NEW m \in Messages, SendAck(m)
  PROVE  [Log!Next]_(Log!vars)
  <1>1. /\ UNCHANGED <<topic, db>> /\ m \in ackq
        /\ mqtt' = [mqtt EXCEPT ![m] = "acked"]
        /\ m \in DOMAIN mqtt
    BY DEF SendAck, IInv, TypeOK, Messages
  <1>2. Messages' = Messages
    BY <1>1 DEF Messages
  <1>3. \A n \in Messages : mqtt'[n] = "acked" <=> (n = m \/ mqtt[n] = "acked")
    BY <1>1 DEF IInv, TypeOK, Messages
  <1>4. CASE topic[m] \notin Command
    <2>1. Confirmed' = Confirmed
      BY <1>1, <1>2, <1>3, <1>4 DEF Confirmed
    <2> QED
      BY <1>1, <2>1, Stutter
  <1>5. CASE topic[m] \in Command
    <2>1. Confirmed' = Confirmed \cup {topic[m]}
      BY <1>1, <1>2, <1>3, <1>5 DEF Confirmed
    <2>2. CASE topic[m] \in Confirmed
      <3>1. Confirmed' = Confirmed
        BY <2>1, <2>2
      <3> QED
        BY <1>1, <3>1, Stutter
    <2>3. CASE topic[m] \notin Confirmed
      <3>1. Settled(db, topic[m])
        BY <1>1, <1>5 DEF IInv, AckedIsSettled
      <3>2. Log!Decided(db.outbox, topic[m])
        BY <1>5, <3>1, SettledIsDecided DEF Log!Decided, IInv, TypeOK, LogInv
      <3>3. topic[m] \in Confirmed' \ Confirmed
        BY <2>1, <2>3
      <3>4. Log!Confirm
        BY <1>1, <1>5, <2>1, <3>2, <3>3 DEF Log!Confirm, Confirmed
      <3> QED
        BY <3>4 DEF Log!Next
    <2> QED
      BY <2>2, <2>3
  <1> QED
    BY <1>4, <1>5

\* Every step of the writer, the broker and the faults is a step of the log or
\* a stutter.
LEMMA StepRefines ==
  ASSUME VersionsFit, IInv, LogInv, [Next]_vars
  PROVE  [Log!Next]_(Log!vars)
  <1>1. CASE CommitBatch
    BY <1>1, CommitRefines
  <1>2. ASSUME NEW m \in Messages, SendAck(m) PROVE [Log!Next]_(Log!vars)
    BY <1>2, AckRefines
  <1>3. ASSUME ~ CommitBatch, ~ (\E m \in Messages : SendAck(m)) PROVE [Log!Next]_(Log!vars)
    <2>1. db' = db
      BY <1>3, OnlyCommitChangesTables
    <2>2. TypeOK /\ DOMAIN mqtt = Messages
      BY DEF IInv, TypeOK, Messages
    <2>3. ASSUME NEW c \in Command \cup Garbage, Publish(c) PROVE Confirmed' = Confirmed
      <3>1. /\ Len(topic) \in Nat /\ Messages = 1..Len(topic)
            /\ Messages' = 1..(Len(topic) + 1)
            /\ \A m \in Messages : topic'[m] = topic[m] /\ mqtt'[m] = mqtt[m]
            /\ mqtt'[Len(topic) + 1] = "queued"
        BY <2>3 DEF Publish, IInv, TypeOK, Messages
      <3>2. \A m \in Messages' : m \in Messages \/ m = Len(topic) + 1
        BY <3>1
      <3>3. \A m \in Messages : m \in Messages'
        BY <3>1
      <3> QED
        BY <2>2, <3>1, <3>2, <3>3, SameConfirmed
    <2>4. ASSUME NEW m \in Messages, Enqueue(m) \/ Defer(m) \/ AckMalformed(m)
          PROVE  Confirmed' = Confirmed
      <3>1. /\ topic' = topic /\ mqtt[m] = "queued"
            /\ mqtt' = [mqtt EXCEPT ![m] = "inflight"]
        BY <2>4 DEF Enqueue, Defer, AckMalformed, Send
      <3> QED
        BY <2>2, <3>1, SameConfirmed DEF Messages
    <2>5. ASSUME topic' = topic, mqtt' = Requeued PROVE Confirmed' = Confirmed
      BY <2>2, <2>5, SameConfirmed DEF Messages, Requeued
    <2>6. ASSUME topic' = topic, mqtt' = mqtt PROVE Confirmed' = Confirmed
      BY <2>6 DEF Confirmed, Messages
    <2>7. \/ \E c \in Command \cup Garbage : Publish(c)
          \/ \E m \in Messages : Enqueue(m) \/ Defer(m) \/ AckMalformed(m)
          \/ topic' = topic /\ mqtt' = Requeued
          \/ topic' = topic /\ mqtt' = mqtt
      BY <1>3 DEF Next, vars, ConsumerStep, WriterStep, WatchdogExit, Reconnect, Restart,
           RecvPush, RecvFlush, TimeoutFlush, SkipDuplicate, SkipConflict, SkipUnknownOp,
           ApplyCommand, NextCommand, FailBatch, AckCommand, FinishBatch
    <2>8. Confirmed' = Confirmed
      BY <2>3, <2>4, <2>5, <2>6, <2>7
    <2> QED
      BY <2>1, <2>8, Stutter
  <1> QED
    BY <1>1, <1>2, <1>3

\* The writer implements the command log: broker, channel, batches, transactions,
\* redeliveries and crashes of main.rs and write_engine.rs never show in the
\* committed outbox, the payload table and the acknowledged commands.
THEOREM WriterImplementsLog == VersionsFit => (Spec => ImplementsCommandLog)
  <1> SUFFICES ASSUME VersionsFit PROVE Spec => ImplementsCommandLog
    OBVIOUS
  <1>1. Init => Log!Init
    BY DEF Init, Log!Init, EmptyTables, Messages
  <1>2. IInv /\ LogInv /\ [Next]_vars => [Log!Next]_(Log!vars)
    BY StepRefines
  <1>3. Spec => []IInv
    BY InductiveInvariant
  <1>4. Spec => []LogInv
    BY <1>3, LogInvInit, LogInvStep, PTL DEF Spec
  <1> QED
    BY <1>1, <1>2, <1>3, <1>4, PTL DEF Spec, ImplementsCommandLog, Log!Spec
=============================================================================
