-------------------------- MODULE WriteStatusProofs --------------------------
(***************************************************************************)
(* What a 200 APPLIED answer is worth, for every number of clients, keys,  *)
(* retries and generated keys.  The API adds nothing to the writer but     *)
(* publications of well-formed envelopes, so the writer's invariants carry *)
(* over; the rest is that a row, once committed, is never taken back.      *)
(***************************************************************************)
EXTENDS WriteStatus, WriterProofs

\* The API's own state: what each client knows, and what is waiting to be sent.
Request ==
  {Fresh} \cup [pc : {"wait", "pending"}, cmd : Command]
          \cup [pc : {"applied"}, cmd : Command, row : Command]

ApiTypeOK ==
  /\ reqs \in [Requests -> Request]
  /\ sendq \in Seq(Command)

\* The requests by their state.
LEMMA RequestFacts ==
  ASSUME ApiTypeOK, NEW r \in Requests
  PROVE  /\ reqs[r].pc \in {"wait", "pending"} => reqs[r].cmd \in Command
         /\ reqs[r].pc = "applied" => reqs[r].cmd \in Command /\ reqs[r].row \in Command
  BY DEF ApiTypeOK, Request, Fresh

\* The envelopes an API process holds are well-formed.
LEMMA ApiTypeStep == TypeOK /\ ApiTypeOK /\ [StatusNext]_statusVars => ApiTypeOK'
  <1> SUFFICES ASSUME TypeOK, ApiTypeOK, [StatusNext]_statusVars PROVE ApiTypeOK'
    OBVIOUS
  <1> USE DEF ApiTypeOK
  <1>1. ASSUME NEW r \in Requests, NEW c \in Command, Enqueued(r, c) PROVE ApiTypeOK'
    <2>1. [pc |-> "wait", cmd |-> c] \in Request
      BY DEF Request
    <2> QED
      BY <1>1, <2>1 DEF Enqueued
  <1>2. ASSUME NEW r \in Requests, NEW c \in Command, Submit(r, c) PROVE ApiTypeOK'
    BY <1>1, <1>2 DEF Submit
  <1>3. ASSUME NEW r \in Requests, Resubmit(r) PROVE ApiTypeOK'
    BY <1>1, <1>3, RequestFacts DEF Resubmit
  <1>4. ASSUME NEW r \in Requests, PollApplied(r) \/ GetStatus(r) PROVE ApiTypeOK'
    <2>1. reqs[r].cmd \in Command /\ query(reqs[r].cmd.idem) # None
      BY <1>4, RequestFacts DEF PollApplied, GetStatus
    <2>2. query(reqs[r].cmd.idem) \in Command
      BY <2>1, RowFacts, WriterConstants DEF query, TypeOK
    <2>3. [pc |-> "applied", cmd |-> reqs[r].cmd, row |-> query(reqs[r].cmd.idem)] \in Request
      BY <2>1, <2>2 DEF Request
    <2>4. /\ reqs' = [reqs EXCEPT ![r] = [pc |-> "applied", cmd |-> reqs[r].cmd,
                                          row |-> query(reqs[r].cmd.idem)]]
          /\ sendq' = sendq
      BY <1>4 DEF PollApplied, GetStatus
    <2> QED
      BY <2>3, <2>4
  <1>5. ASSUME NEW r \in Requests, TimedOut(r) PROVE ApiTypeOK'
    <2>1. [pc |-> "pending", cmd |-> reqs[r].cmd] \in Request
      BY <1>5, RequestFacts DEF TimedOut, Request
    <2> QED
      BY <1>5, <2>1 DEF TimedOut
  <1>6. CASE Transmit
    BY <1>6, PopFacts DEF Transmit
  <1>7. CASE LoseSession
    BY <1>7 DEF LoseSession
  <1>8. CASE ApiRestart
    <2>1. \A r \in Requests :
            (IF reqs[r].pc = "wait" THEN [reqs[r] EXCEPT !.pc = "pending"] ELSE reqs[r])
              \in Request
      BY DEF Request, Fresh
    <2> QED
      BY <1>8, <2>1 DEF ApiRestart
  <1>9. CASE UNCHANGED api
    BY <1>9 DEF api
  <1> QED
    BY <1>2, <1>3, <1>4, <1>5, <1>6, <1>7, <1>8, <1>9
    DEF StatusNext, Api, statusVars

\* Seen from the writer, the API only publishes commands.
LEMMA StatusStepIsWriterStep ==
  ASSUME ApiTypeOK, [StatusNext]_statusVars
  PROVE  [Next]_vars
  <1>1. CASE Transmit
    <2>1. Head(sendq) \in Command /\ Publish(Head(sendq))
      BY <1>1, PopFacts DEF Transmit, ApiTypeOK
    <2> QED
      BY <2>1 DEF Next
  <1>2. CASE WriterProcess
    BY <1>2 DEF WriterProcess, Next
  <1>3. CASE UNCHANGED vars
    BY <1>3
  <1> QED
    BY <1>1, <1>2, <1>3
    DEF StatusNext, Api, statusVars, Submit, Resubmit, Enqueued, PollApplied, TimedOut,
        GetStatus, LoseSession, ApiRestart

\* A committed row is never taken back: the transaction, and so the next commit,
\* has the same row under the same key, and its event.
LEMMA RowsAreForEver ==
  ASSUME IInv, LogInv, NEW k \in IdemKey, db.idem[k] # None
  PROVE  /\ tx.idem[k] = db.idem[k]
         /\ \E i \in DOMAIN tx.outbox : tx.outbox[i] = db.idem[k]
  <1>1. /\ DOMAIN db.outbox = 1..Len(db.outbox) /\ DOMAIN tx.outbox = 1..Len(tx.outbox)
        /\ Len(db.outbox) \in Nat /\ Len(tx.outbox) \in Nat
    BY RowFacts DEF IInv, TypeOK
  <1>2. PICK i \in DOMAIN db.outbox : db.outbox[i] = db.idem[k]
    BY DEF IInv, Consistent, IdempotencyMatchesOutbox
  <1>3. db.idem[k].idem = k
    BY DEF LogInv, Loggable
  <1>4. i \in DOMAIN tx.outbox /\ tx.outbox[i] = db.outbox[i]
    BY <1>1 DEF IInv, TxExtendsDb
  <1>5. tx.idem[tx.outbox[i].idem] = tx.outbox[i]
    BY <1>4 DEF IInv, Consistent, IdempotencyMatchesOutbox
  <1> QED
    BY <1>2, <1>3, <1>4, <1>5

\* An answer stays backed when tables or answers change.
LEMMA DurableStep ==
  ASSUME IInv, LogInv, ApiTypeOK, AppliedIsDurable, [StatusNext]_statusVars
  PROVE  AppliedIsDurable'
  <1>1. [Next]_vars
    BY StatusStepIsWriterStep
  <1>2. db' = db \/ db' = tx
    BY <1>1, OnlyCommitChangesTables DEF CommitBatch
  <1>3. ASSUME NEW k \in IdemKey, db.idem[k] # None
        PROVE  /\ db'.idem[k] = db.idem[k]
               /\ \E i \in DOMAIN db'.outbox : db'.outbox[i] = db.idem[k]
    BY <1>2, <1>3, RowsAreForEver DEF IInv, Consistent, IdempotencyMatchesOutbox
  <1>4. ASSUME NEW r \in Requests, reqs'[r].pc = "applied", reqs'[r] = reqs[r]
        PROVE  /\ db'.idem[reqs'[r].cmd.idem] = reqs'[r].row
               /\ \E i \in DOMAIN db'.outbox : db'.outbox[i] = reqs'[r].row
    <2>1. reqs[r].cmd \in Command /\ reqs[r].row \in Command
      BY <1>4, RequestFacts
    <2>2. reqs[r].cmd.idem \in IdemKey /\ reqs[r].row # None
      BY <2>1, WriterConstants
    <2>3. db.idem[reqs[r].cmd.idem] = reqs[r].row
      BY <1>4 DEF AppliedIsDurable, Answered
    <2> QED
      BY <1>3, <1>4, <2>2, <2>3
  <1>5. ASSUME NEW r \in Requests, NEW q \in Requests, PollApplied(q) \/ GetStatus(q),
               reqs'[r] # reqs[r]
        PROVE  /\ db'.idem[reqs'[r].cmd.idem] = reqs'[r].row
               /\ \E i \in DOMAIN db'.outbox : db'.outbox[i] = reqs'[r].row
    <2>1. reqs[q].cmd \in Command /\ db.idem[reqs[q].cmd.idem] # None
      BY <1>5, RequestFacts DEF PollApplied, GetStatus, query
    <2>2. reqs[q].cmd.idem \in IdemKey
      BY <2>1, WriterConstants
    <2>3. /\ reqs' = [reqs EXCEPT ![q] = [pc |-> "applied", cmd |-> reqs[q].cmd,
                                          row |-> db.idem[reqs[q].cmd.idem]]]
          /\ db' = db
      BY <1>5 DEF PollApplied, GetStatus, query, vars
    <2>4. r = q /\ reqs'[r] = [pc |-> "applied", cmd |-> reqs[q].cmd,
                               row |-> db.idem[reqs[q].cmd.idem]]
      BY <1>5, <2>3 DEF ApiTypeOK
    <2> QED
      BY <1>3, <2>1, <2>2, <2>3, <2>4
  <1>6. ASSUME NEW r \in Requests, reqs'[r].pc = "applied", reqs'[r] # reqs[r]
        PROVE  \E q \in Requests : PollApplied(q) \/ GetStatus(q)
    <2>1. ASSUME NEW q \in Requests, NEW c \in Command, Enqueued(q, c) PROVE FALSE
      BY <1>6, <2>1 DEF Enqueued, ApiTypeOK
    <2>2. ASSUME NEW q \in Requests, TimedOut(q) PROVE FALSE
      BY <1>6, <2>2 DEF TimedOut, ApiTypeOK
    <2>3. CASE ApiRestart
      <3>1. reqs'[r] = [reqs[r] EXCEPT !.pc = "pending"] /\ reqs[r].pc = "wait"
        BY <1>6, <2>3 DEF ApiRestart
      <3>2. reqs'[r].pc = "pending"
        BY <3>1 DEF ApiTypeOK, Request, Fresh
      <3> QED
        BY <1>6, <3>2
    <2>4. ~ UNCHANGED reqs
      BY <1>6
    <2>5. ASSUME NEW q \in Requests, Resubmit(q) PROVE FALSE
      BY <2>1, <2>5, RequestFacts DEF Resubmit
    <2>6. ASSUME NEW q \in Requests, NEW c \in Command, Submit(q, c) PROVE FALSE
      BY <2>1, <2>6 DEF Submit
    <2> QED
      BY <2>2, <2>3, <2>4, <2>5, <2>6
      DEF StatusNext, Api, api, statusVars, Transmit, LoseSession
  <1>7. \A r \in Requests : reqs'[r].pc = "applied" =>
          /\ db'.idem[reqs'[r].cmd.idem] = reqs'[r].row
          /\ \E i \in DOMAIN db'.outbox : db'.outbox[i] = reqs'[r].row
    BY <1>4, <1>5, <1>6
  <1> QED
    BY <1>7 DEF AppliedIsDurable, Answered

\* What an answer names is shown by the store, or something newer is.
LEMMA DurableIsVisible ==
  ASSUME IInv, LogInv, ApiTypeOK, AppliedIsDurable
  PROVE  AppliedIsVisible
  <1> SUFFICES ASSUME NEW r \in Requests, Answered(r)
               PROVE  /\ Visible(reqs[r].row.key) # None
                      /\ Visible(reqs[r].row.key).version >= reqs[r].row.version
    BY DEF AppliedIsVisible
  <1> DEFINE k == reqs[r].row.key
  <1>1. PICK i \in DOMAIN db.outbox : db.outbox[i] = reqs[r].row
    BY DEF AppliedIsDurable
  <1>2. db.outbox[i] \in Command /\ k \in Key /\ db.outbox[i].version \in Int
    BY <1>1, RowFacts, WriterConstants, SMTT(60) DEF IInv, TypeOK
  <1>3. PICK j \in DOMAIN db.outbox : LastEvent(db, k, j)
    BY <1>1, <1>2 DEF LogInv, Loggable
  <1>4. /\ db.outbox[j] \in Command /\ db.outbox[j] # None
        /\ db.outbox[j].key = k /\ i <= j /\ db.outbox[j].version \in Int
    <2>1. db.outbox[j] \in Command
      BY RowFacts DEF IInv, TypeOK
    <2>2. db.outbox[j] # None /\ db.outbox[j].version \in Int
      BY <2>1, WriterConstants
    <2>3. db.outbox[j].key = k /\ i <= j
      BY <1>1, <1>3 DEF LastEvent
    <2> QED
      BY <2>1, <2>2, <2>3
  <1>5. db.outbox[i].version <= db.outbox[j].version
    <2>1. i \in Nat /\ j \in Nat
      BY RowFacts DEF IInv, TypeOK
    <2>2. CASE i = j
      BY <1>2, <2>2
    <2>3. CASE i < j
      BY <1>1, <1>2, <1>4, <2>3 DEF IInv, Consistent, VersionsIncrease
    <2> QED
      BY <1>4, <2>1, <2>2, <2>3
  <1>6. Visible(k) = db.outbox[j]
    BY <1>2, <1>3, <1>4 DEF IInv, Consistent, RowsMatchLastEvent, Visible
  <1> QED
    BY <1>1, <1>2, <1>4, <1>5, <1>6

-----------------------------------------------------------------------------
\* With the API in front of it the writer keeps its invariants.
LEMMA StatusInvariant ==
  ASSUME VersionsFit
  PROVE  StatusSpec => [](IInv /\ LogInv /\ ApiTypeOK)
  <1>1. StatusInit => IInv /\ LogInv /\ ApiTypeOK
    <2>1. StatusInit => Init /\ ApiTypeOK
      BY DEF StatusInit, ApiTypeOK, Request
    <2> QED
      BY <2>1, InvInit, LogInvInit
  <1>2. IInv /\ LogInv /\ ApiTypeOK /\ [StatusNext]_statusVars
          => (IInv /\ LogInv /\ ApiTypeOK)'
    <2> SUFFICES ASSUME IInv, LogInv, ApiTypeOK, [StatusNext]_statusVars
                 PROVE  (IInv /\ LogInv /\ ApiTypeOK)'
      OBVIOUS
    <2>1. [Next]_vars
      BY StatusStepIsWriterStep
    <2>2. IInv' /\ LogInv'
      BY <2>1, InvStep, LogInvStep
    <2>3. ApiTypeOK'
      BY ApiTypeStep DEF IInv
    <2> QED
      BY <2>2, <2>3
  <1> QED
    BY <1>1, <1>2, PTL DEF StatusSpec

\* A 200 APPLIED is never wrong: the idempotency row that wait_for_commit or
\* GET /writes read, and its event, stay in the store whatever happens after.
THEOREM AnswersAreDurable == VersionsFit => (StatusSpec => []AppliedIsDurable)
  <1> SUFFICES ASSUME VersionsFit PROVE StatusSpec => []AppliedIsDurable
    OBVIOUS
  <1>1. StatusInit => AppliedIsDurable
    BY DEF StatusInit, AppliedIsDurable, Answered, Fresh
  <1>2. IInv /\ LogInv /\ ApiTypeOK /\ AppliedIsDurable /\ [StatusNext]_statusVars
          => AppliedIsDurable'
    BY DurableStep
  <1> QED
    BY <1>1, <1>2, StatusInvariant, PTL DEF StatusSpec

\* Read your writes, in SQLite: after an APPLIED the entity's row or tombstone is
\* at least as new as the version the answer named.
THEOREM AnswersAreVisible == VersionsFit => (StatusSpec => []AppliedIsVisible)
  <1> SUFFICES ASSUME VersionsFit PROVE StatusSpec => []AppliedIsVisible
    OBVIOUS
  <1>1. IInv /\ LogInv /\ ApiTypeOK /\ AppliedIsDurable => AppliedIsVisible
    BY DurableIsVisible
  <1> QED
    BY <1>1, StatusInvariant, AnswersAreDurable, PTL

\* The API is a client like any other: what submit_write, its retries and the crashes
\* of the API do to broker and store, a publisher of envelopes could do.
THEOREM ApiIsAClient == StatusSpec => Spec
  <1>1. StatusInit => Init /\ TypeOK /\ Pipeline /\ ApiTypeOK
    <2>1. StatusInit => Init /\ ApiTypeOK
      BY DEF StatusInit, ApiTypeOK, Request
    <2> QED
      BY <2>1, TypeInit
  <1>2. ApiTypeOK /\ [StatusNext]_statusVars => [Next]_vars
    BY StatusStepIsWriterStep
  <1>3. TypeOK /\ Pipeline /\ ApiTypeOK /\ [StatusNext]_statusVars
          => (TypeOK /\ Pipeline /\ ApiTypeOK)'
    BY <1>2, TypeStep, ApiTypeStep
  <1>4. StatusSpec => [](TypeOK /\ Pipeline /\ ApiTypeOK)
    BY <1>1, <1>3, PTL DEF StatusSpec
  <1> QED
    BY <1>1, <1>2, <1>4, PTL DEF StatusSpec, Spec

\* API, broker, writer and store together are the command log: every envelope that
\* is submitted, retried or lost on its way is one entry of the log or none.
THEOREM StackImplementsLog == VersionsFit => (StatusSpec => ImplementsCommandLog)
  BY ApiIsAClient, WriterImplementsLog, PTL
=============================================================================
