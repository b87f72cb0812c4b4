----------------------------- MODULE EventStream -----------------------------
(***************************************************************************)
(* SubscribeEvents of the API (crates/ixmati-api, grpc.rs): a task per     *)
(* stream tails the outbox of a store from a cursor and hands the events   *)
(* to the client over a bounded channel, while the writer inserts rows and *)
(* the retention job removes published ones (ixmati-writer, outbox.rs).    *)
(* The check of the cursor and every fetch are separate queries.           *)
(*                                                                         *)
(* A row is its AUTOINCREMENT id.  Its kind says whether the stream's      *)
(* entity and key filters take it and, if they do, whether event_from_row  *)
(* can decode it: the REST API accepts payloads that are not JSON objects, *)
(* json_to_struct does not.  Event ids are unique, so the branch for an    *)
(* event id already seen is left out.  The client is external: it resumes  *)
(* from the last outbox_seq it has received, the cursor of a               *)
(* RESOURCE_EXHAUSTED or the oldest row an OUT_OF_RANGE names.             *)
(***************************************************************************)
EXTENDS Integers, Sequences, FiniteSetsExt, SequencesExt

CONSTANTS
  MaxRows,            \* bound on the rows ever inserted
  Limit,              \* rows of one fetch (128)
  ConfiguredCapacity, \* EVENT_STREAM_BUFFER_CAPACITY
  DefaultCapacity,    \* DEFAULT_EVENT_STREAM_BUFFER_CAPACITY
  MaxBreaks           \* bound on broken streams

ASSUME StreamConstants ==
  /\ MaxRows \in Nat /\ Limit \in Nat \ {0}
  /\ ConfiguredCapacity \in Nat
  /\ DefaultCapacity \in Nat /\ DefaultCapacity >= 2
  /\ MaxBreaks \in Nat

VARIABLES
  kinds,    \* the kind of every row ever inserted
  kept,     \* the rows still in _outbox
  task,     \* the stream's task: pc, cursor and the fetched rows
  channel,  \* the mpsc channel to the client
  client,   \* on: it reads the stream; cursor: where it would resume
  got,      \* rows the client has received
  breaks

vars == <<kinds, kept, task, channel, client, got, breaks>>

Row == 1..MaxRows
Kinds == {"match", "other", "bad"}

NoTask == [pc |-> "none", cursor |-> 0, rows |-> <<>>]
Event(r) == [kind |-> "event", cursor |-> r]
Behind(c) == [kind |-> "behind", cursor |-> c]
Internal == [kind |-> "internal", cursor |-> 0]
Item == [kind : {"event", "behind", "internal"}, cursor : 0..MaxRows]

Init ==
  /\ kinds = <<>> /\ kept = {}
  /\ task = NoTask /\ channel = <<>>
  /\ client = [on |-> FALSE, cursor |-> 0]
  /\ got = <<>> /\ breaks = 0

-----------------------------------------------------------------------------
(* The outbox *)

Insert(kind) ==
  /\ Len(kinds) < MaxRows
  /\ kinds' = Append(kinds, kind)
  /\ kept' = kept \cup {Len(kinds) + 1}
  /\ UNCHANGED <<task, channel, client, got, breaks>>

\* cleanup_old removes the rows published before some time.  The publisher may
\* mark rows in any order and never marks one the broker rejects.
CleanupOld(old) ==
  /\ old # {} /\ old \subseteq kept
  /\ kept' = kept \ old
  /\ UNCHANGED <<kinds, task, channel, client, got, breaks>>

-----------------------------------------------------------------------------
(* The stream *)

\* Mutant: a channel of one is accepted.
capacity_of_one == IF ConfiguredCapacity >= 1 THEN ConfiguredCapacity ELSE DefaultCapacity

\* event_stream_buffer_capacity_from_env
buffer_capacity == IF ConfiguredCapacity >= 2 THEN ConfiguredCapacity ELSE DefaultCapacity

\* oldest_available_cursor: MIN(id) of the store; an empty outbox has none.
out_of_range(requested) == kept # {} /\ requested < Min(kept) - 1

\* subscribe_events: a cursor of 0 is not checked.
Subscribe ==
  /\ ~client.on
  /\ client.cursor = 0 \/ ~out_of_range(client.cursor)
  /\ client' = [client EXCEPT !.on = TRUE]
  /\ task' = [pc |-> "fetch", cursor |-> client.cursor, rows |-> <<>>]
  /\ channel' = <<>>
  /\ UNCHANGED <<kinds, kept, got, breaks>>

\* OUT_OF_RANGE: the client goes on from the oldest row the message names.
Refused ==
  /\ ~client.on
  /\ client.cursor > 0 /\ out_of_range(client.cursor)
  /\ client' = [client EXCEPT !.cursor = Min(kept) - 1]
  /\ UNCHANGED <<kinds, kept, task, channel, got, breaks>>

\* What rows ORDER BY id ASC LIMIT may be: a sequence of kept rows.
Results == UNION {[1..n -> kept] : n \in 0..Limit}

\* fetch_events selects these rows after a cursor: the first of those the filters take.
selects(rows, cursor) ==
  LET wanted == {r \in kept : r > cursor /\ kinds[r] # "other"}
  IN /\ \A i \in DOMAIN rows : rows[i] \in wanted
     /\ \A i, j \in DOMAIN rows : i < j => rows[i] < rows[j]
     /\ \A r \in wanted \ ToSet(rows) :
          Len(rows) = Limit /\ \A i \in DOMAIN rows : rows[i] < r

\* Without rows the task sleeps and fetches again.
Fetch ==
  /\ task.pc = "fetch"
  /\ \E rows \in Results \ {<<>>} :
       /\ selects(rows, task.cursor) /\ \A i \in DOMAIN rows : kinds[rows[i]] # "bad"
       /\ task' = [task EXCEPT !.pc = "send", !.rows = rows]
  /\ UNCHANGED <<kinds, kept, channel, client, got, breaks>>

\* One row that cannot be decoded fails the whole fetch, and the stream ends.
FetchFails ==
  /\ task.pc = "fetch" /\ Len(channel) < buffer_capacity
  /\ \E rows \in Results :
       selects(rows, task.cursor) /\ \E i \in DOMAIN rows : kinds[rows[i]] = "bad"
  /\ channel' = Append(channel, Internal)
  /\ task' = [task EXCEPT !.pc = "done"]
  /\ UNCHANGED <<kinds, kept, client, got, breaks>>

\* Mutant: the last slot is not kept free.
lags_when_full == Len(channel) = buffer_capacity

\* tx.capacity() <= 1: one slot is kept for the terminal item.
lags == buffer_capacity - Len(channel) <= 1

\* Mutant: the fetched rows are sent whether or not the client keeps up.
SendUnbounded ==
  /\ task.pc = "send"
  /\ channel' = Append(channel, Event(Head(task.rows)))
  /\ task' = [pc |-> IF Tail(task.rows) = <<>> THEN "fetch" ELSE "send",
              cursor |-> Head(task.rows), rows |-> Tail(task.rows)]
  /\ UNCHANGED <<kinds, kept, client, got, breaks>>

\* Mutant: the cursor stays where the stream began.
SendStaleCursor ==
  /\ task.pc = "send" /\ ~lags
  /\ channel' = Append(channel, Event(Head(task.rows)))
  /\ task' = [task EXCEPT !.rows = Tail(@), !.pc = IF Tail(task.rows) = <<>> THEN "fetch" ELSE "send"]
  /\ UNCHANGED <<kinds, kept, client, got, breaks>>

Send ==
  /\ task.pc = "send" /\ ~lags
  /\ channel' = Append(channel, Event(Head(task.rows)))
  /\ task' = [pc |-> IF Tail(task.rows) = <<>> THEN "fetch" ELSE "send",
              cursor |-> Head(task.rows), rows |-> Tail(task.rows)]
  /\ UNCHANGED <<kinds, kept, client, got, breaks>>

\* Mutant: the client is told to resume from the row it was about to get.
ResumeFromNext ==
  /\ task.pc = "send" /\ lags
  /\ channel' = IF Len(channel) < buffer_capacity
                  THEN Append(channel, Behind(Head(task.rows))) ELSE channel
  /\ task' = [task EXCEPT !.pc = "done", !.rows = <<>>]
  /\ UNCHANGED <<kinds, kept, client, got, breaks>>

\* The consumer is behind: try_send, and the task returns.
ConsumerBehind ==
  /\ task.pc = "send" /\ lags
  /\ channel' = IF Len(channel) < buffer_capacity
                  THEN Append(channel, Behind(task.cursor)) ELSE channel
  /\ task' = [task EXCEPT !.pc = "done", !.rows = <<>>]
  /\ UNCHANGED <<kinds, kept, client, got, breaks>>

-----------------------------------------------------------------------------
(* The client *)

ReceiveEvent ==
  /\ client.on /\ channel # <<>> /\ Head(channel).kind = "event"
  /\ got' = Append(got, Head(channel).cursor)
  /\ client' = [client EXCEPT !.cursor = Head(channel).cursor]
  /\ channel' = Tail(channel)
  /\ UNCHANGED <<kinds, kept, task, breaks>>

ReceiveError ==
  /\ client.on /\ channel # <<>> /\ Head(channel).kind # "event"
  /\ client' = [on |-> FALSE,
                cursor |-> IF Head(channel).kind = "behind" THEN Head(channel).cursor
                                                            ELSE client.cursor]
  /\ channel' = <<>> /\ task' = NoTask
  /\ UNCHANGED <<kinds, kept, got, breaks>>

\* The connection or the API breaks, or the database cannot be read: what is in
\* the channel is lost.  A task whose client has gone ends at its next send.
Break ==
  /\ client.on /\ breaks < MaxBreaks
  /\ breaks' = breaks + 1
  /\ client' = [client EXCEPT !.on = FALSE]
  /\ channel' = <<>> /\ task' = NoTask
  /\ UNCHANGED <<kinds, kept, got>>

-----------------------------------------------------------------------------
Server == Fetch \/ FetchFails \/ Send \/ ConsumerBehind
Client == Subscribe \/ Refused \/ ReceiveEvent \/ ReceiveError

Next ==
  \/ \E kind \in Kinds : Insert(kind)
  \/ \E old \in SUBSET Row : CleanupOld(old)
  \/ Server
  \/ Client
  \/ Break

\* The task runs, and the client reads and resumes; it may be as slow as it likes.
Spec == Init /\ [][Next]_vars /\ WF_vars(Server) /\ WF_vars(Client)

-----------------------------------------------------------------------------
(* Properties *)

\* Every variable keeps its type; the channel never outgrows its capacity.
TypeOK ==
  /\ kinds \in Seq(Kinds) /\ Len(kinds) <= MaxRows
  /\ kept \subseteq DOMAIN kinds
  /\ task \in [pc : {"none", "fetch", "send", "done"}, cursor : 0..MaxRows, rows : Seq(Row)]
  /\ (task.pc = "send") <=> (task.rows # <<>>)
  /\ channel \in Seq(Item) /\ Len(channel) <= buffer_capacity
  /\ client \in [on : BOOLEAN, cursor : 0..MaxRows]
  /\ got \in Seq(Row)
  /\ breaks \in 0..MaxBreaks

Received == ToSet(got)

\* grpc.rs, "resume from cursor": over any number of slow reads, broken
\* streams and resumptions the client gets every event once, in outbox order.
OrderedOnce == \A i \in 1..(Len(got) - 1) : got[i] < got[i + 1]

\* Whatever cursor the client resumes from, it has passed over no event of its
\* filter that the outbox still holds.
NothingSkipped ==
  \A r \in kept : r <= client.cursor /\ kinds[r] = "match" => r \in Received

\* grpc.rs: "a slow client receives a resumable cursor instead of a silent EOF":
\* a stream that has ended has its reason as the last item of the channel.
EndIsExplained == task.pc = "done" => channel # <<>> /\ Last(channel).kind # "event"

\* A client that keeps resuming gets every event the outbox holds on to, unless
\* a row that cannot be decoded stands in its way.
EventsArrive ==
  \A r \in Row :
    (r \in kept /\ kinds[r] = "match")
      ~> (r \in Received \/ r \notin kept \/ \E b \in kept : kinds[b] = "bad")

=============================================================================
