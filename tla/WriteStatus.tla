---------------------------- MODULE WriteStatus ----------------------------
(***************************************************************************)
(* The API's write path on top of the writer (ixmati-api: submit_write and *)
(* wait_for_commit in rest.rs, status.rs).  A request hands its envelope   *)
(* to the API's MQTT client, polls _idempotency until the row is there or  *)
(* the deadline has passed, and is answered 200 APPLIED or 202 PENDING.    *)
(* A client that was answered PENDING asks for the status or sends the     *)
(* same envelope again.  Admission, which comes before, is module          *)
(* Admission.                                                              *)
(***************************************************************************)
EXTENDS Writer

CONSTANTS
  Requests,        \* clients, one request at a time
  GeneratedKeys,   \* the keys the API makes up for envelopes without one
  MaxTries         \* bound on the envelopes ever submitted

ASSUME StatusConstants ==
  /\ GeneratedKeys \subseteq IdemKey
  /\ MaxTries \in Nat

VARIABLES
  reqs,     \* what each client knows: its envelope and the answer
  sendq,    \* envelopes in the API's MQTT client, not yet with the broker
  used,     \* generated keys already taken
  tries     \* envelopes submitted so far

api == <<reqs, sendq, used, tries>>
statusVars == <<vars, api>>

Fresh == [pc |-> "new"]

StatusInit ==
  /\ Init
  /\ reqs = [r \in Requests |-> Fresh]
  /\ sendq = <<>> /\ used = {} /\ tries = 0

\* StatusQuery::query: the row of the key in the committed tables, or none.
query(k) == db.idem[k]

\* publish().await returns once the envelope is in the client's own queue.
Enqueued(r, c) ==
  /\ tries < MaxTries /\ tries' = tries + 1
  /\ sendq' = Append(sendq, c)
  /\ reqs' = [reqs EXCEPT ![r] = [pc |-> "wait", cmd |-> c]]
  /\ UNCHANGED vars

\* submit_write; an envelope without a key gets a new one (Uuid::new_v4).
Submit(r, c) ==
  /\ reqs[r] = Fresh
  /\ c.idem \notin used
  /\ used' = used \cup ({c.idem} \cap GeneratedKeys)
  /\ Enqueued(r, c)

\* The client sends the envelope again, under the key it was told.
Resubmit(r) ==
  /\ reqs[r].pc = "pending"
  /\ Enqueued(r, reqs[r].cmd)
  /\ UNCHANGED used

\* Mutant: the poll sees the open transaction.
PollApplied_dirty(r) ==
  /\ reqs[r].pc = "wait" /\ tx.idem[reqs[r].cmd.idem] # None
  /\ reqs' = [reqs EXCEPT ![r] = [pc |-> "applied", cmd |-> @.cmd,
                                  row |-> tx.idem[@.cmd.idem]]]
  /\ UNCHANGED <<vars, sendq, used, tries>>

\* wait_for_commit finds the row: 200 APPLIED, naming what the row says.
PollApplied(r) ==
  /\ reqs[r].pc = "wait" /\ query(reqs[r].cmd.idem) # None
  /\ reqs' = [reqs EXCEPT ![r] = [pc |-> "applied", cmd |-> @.cmd,
                                  row |-> query(@.cmd.idem)]]
  /\ UNCHANGED <<vars, sendq, used, tries>>

\* The deadline passes; the last poll may have failed, or come before the commit.
TimedOut(r) ==
  /\ reqs[r].pc = "wait"
  /\ reqs' = [reqs EXCEPT ![r] = [pc |-> "pending", cmd |-> @.cmd]]
  /\ UNCHANGED <<vars, sendq, used, tries>>

\* GET /writes/{store}/{idempotency_key} finds the row.
GetStatus(r) ==
  /\ reqs[r].pc = "pending" /\ query(reqs[r].cmd.idem) # None
  /\ reqs' = [reqs EXCEPT ![r] = [pc |-> "applied", cmd |-> @.cmd,
                                  row |-> query(@.cmd.idem)]]
  /\ UNCHANGED <<vars, sendq, used, tries>>

\* The API's event loop hands the oldest envelope to the broker.
Transmit ==
  /\ sendq # <<>>
  /\ Publish(Head(sendq))
  /\ sendq' = Tail(sendq)
  /\ UNCHANGED <<reqs, used, tries>>

\* The API's connection breaks.  Its session is a clean one, so the client
\* forgets what it still had to send.
LoseSession ==
  /\ sendq # <<>>
  /\ sendq' = <<>>
  /\ UNCHANGED <<vars, reqs, used, tries>>

\* The API process dies: requests in progress end in an error, which leaves
\* the client where 202 would have left it.
ApiRestart ==
  /\ sendq' = <<>>
  /\ reqs' = [r \in Requests |->
               IF reqs[r].pc = "wait" THEN [reqs[r] EXCEPT !.pc = "pending"]
               ELSE reqs[r]]
  /\ UNCHANGED <<vars, used, tries>>

Api ==
  \/ \E r \in Requests :
       \/ \E c \in Command : Submit(r, c)
       \/ Resubmit(r) \/ PollApplied(r) \/ TimedOut(r) \/ GetStatus(r)
  \/ Transmit \/ LoseSession \/ ApiRestart

\* The writer and the broker; all commands come from the API.
WriterProcess ==
  \/ \E m \in Messages : SendAck(m)
  \/ ConsumerStep \/ WriterStep
  \/ Reconnect \/ Restart \/ WatchdogExit

StatusNext ==
  \/ Api
  \/ WriterProcess /\ UNCHANGED api

StatusSpec == StatusInit /\ [][StatusNext]_statusVars

-----------------------------------------------------------------------------
(* Properties *)

Answered(r) == reqs[r].pc = "applied"

\* rest.rs ("todo 200 significa que el writer ya confirmó el commit"), RF-7: an
\* APPLIED answer is backed for ever by the row it was taken from and by that
\* row's event, whatever crashes, retries and failed batches follow.
AppliedIsDurable ==
  \A r \in Requests : Answered(r) =>
    /\ db.idem[reqs[r].cmd.idem] = reqs[r].row
    /\ \E i \in DOMAIN db.outbox : db.outbox[i] = reqs[r].row

\* What the tables hold of an entity: its live row, which read_handler selects,
\* or the tombstone of its deletion, for which a read finds no row.
Visible(k) == IF db.payload[k] # None THEN db.payload[k] ELSE db.tomb[k]

\* CA-7 as far as SQLite goes: after APPLIED the store shows for that entity
\* something at least as new as the version the answer names.
AppliedIsVisible ==
  \A r \in Requests : Answered(r) =>
    LET row == Visible(reqs[r].row.key)
    IN  row # None /\ row.version >= reqs[r].row.version

=============================================================================
