--------------------------- MODULE EventPublisher ---------------------------
(***************************************************************************)
(* The publication of one store's outbox (crates/ixmati-writer,            *)
(* event_publisher.rs): the publish-loop thread, which fetches unpublished *)
(* rows, hands them to the MQTT client and marks the acknowledged ones;    *)
(* the event-loop thread, which correlates packet ids with rows in the     *)
(* PublishTracker; and the bounded queues between the two.                 *)
(*                                                                         *)
(* A row is its outbox id.  The MQTT client and the broker are external:   *)
(* requests are sent in order, at most MaxPkid unacknowledged, packet ids  *)
(* are given out cyclically, an interrupted publication is sent again with *)
(* its packet id when the session is resumed and forgotten when the broker *)
(* has lost the session, and the broker acknowledges in order.  Metrics,   *)
(* and the fields of the tracker that only feed them (pending_since,       *)
(* timeout_reported), are left out.                                        *)
(***************************************************************************)
EXTENDS Integers, Sequences, FiniteSets

CONSTANTS
  MaxRows,           \* bound on the rows ever committed to the outbox
  Unpublishable,     \* rows whose topic the client rejects
  Limit,             \* PUBLISH_BATCH_LIMIT
  MaxPkid,           \* the client's inflight limit and largest packet id
  RequestCapacity,   \* the client's request channel
  PubackCapacity,    \* PUBACK_CHANNEL_CAPACITY
  PendingCapacity    \* PENDING_PUBACK_CAPACITY

ASSUME PublisherConstants ==
  /\ MaxRows \in Nat
  /\ Unpublishable \subseteq 1..MaxRows
  /\ Limit \in Nat \ {0}
  /\ MaxPkid \in Nat \ {0}
  /\ RequestCapacity \in Nat \ {0}
  /\ PubackCapacity \in Nat \ {0}
  /\ PendingCapacity \in Nat \ {0}

VARIABLES
  rows,             \* rows 1..rows are committed
  published,        \* rows with published_at
  delivered,        \* rows the broker has accepted
  queued,           \* PublishTracker.queued
  inflight,         \* PublishTracker.inflight: the row of a packet id, or 0
  requests,         \* rows in the client's request channel
  outgoing,         \* sent and unacknowledged: <<packet id, row>>, in order
  accepted,         \* how many of them the broker has acknowledged
  pending,          \* to be sent (again) after a reconnection
  last_pkid,        \* the client's packet id counter
  connected,        \* 0 or 1
  puback_rx,        \* the channel from event loop to publish loop
  pending_pubacks,  \* acknowledged rows not yet marked
  pc,               \* publish loop: "sleep", "fetch", "rows", "send", "drain"
  todo              \* fetched rows not yet looked at

client == <<requests, outgoing, accepted, pending, last_pkid, connected>>
tracker == <<queued, inflight>>
vars == <<rows, published, delivered, queued, inflight, requests, outgoing, accepted,
          pending, last_pkid, connected, puback_rx, pending_pubacks, pc, todo>>

Row == 1..MaxRows
Pkid == 1..MaxPkid

SeqSet(s) == {s[i] : i \in DOMAIN s}

Init ==
  /\ rows = 0 /\ published = {} /\ delivered = {}
  /\ queued = <<>> /\ inflight = [p \in Pkid |-> 0]
  /\ requests = <<>> /\ outgoing = <<>> /\ accepted = 0 /\ pending = <<>>
  /\ last_pkid = 0 /\ connected = 1
  /\ puback_rx = <<>> /\ pending_pubacks = {}
  /\ pc = "sleep" /\ todo = <<>>

\* The write thread commits a row (module Writer).
Commit ==
  /\ rows < MaxRows
  /\ rows' = rows + 1
  /\ UNCHANGED <<published, delivered, tracker, client, puback_rx, pending_pubacks, pc, todo>>

-----------------------------------------------------------------------------
(* PublishTracker *)

contains_row(r) == r \in SeqSet(queued) \/ \E p \in Pkid : inflight[p] = r

\* retain: the n-th of the rows that stay is the n-th of the result.
remove_queued(r) ==
  LET kept == {i \in DOMAIN queued : queued[i] # r}
  IN [n \in 1..Cardinality(kept) |->
        queued[CHOOSE i \in kept : Cardinality({j \in kept : j <= i}) = n]]

\* Mutant: a retransmission takes the next queued row.
on_any_publish(p) ==
  IF queued = <<>>
    THEN UNCHANGED tracker
    ELSE /\ queued' = Tail(queued)
         /\ inflight' = [inflight EXCEPT ![p] = Head(queued)]

\* Sets the tracker after Outgoing::Publish(p): a packet id that is already
\* known is a retransmission and takes no row.
on_outgoing_publish(p) ==
  IF inflight[p] # 0 \/ queued = <<>>
    THEN UNCHANGED tracker
    ELSE /\ queued' = Tail(queued)
         /\ inflight' = [inflight EXCEPT ![p] = Head(queued)]

on_puback(p) ==
  /\ inflight' = [inflight EXCEPT ![p] = 0]
  /\ UNCHANGED queued

-----------------------------------------------------------------------------
(* The publish loop *)

\* Mutant: the set of pending acknowledgements is not bounded.
DrainedUnbounded == pending_pubacks \cup SeqSet(puback_rx)

\* drain_pubacks empties the channel into the bounded set...
Drained ==
  LET room == PendingCapacity - Cardinality(pending_pubacks)
      fresh(i) == puback_rx[i] \notin pending_pubacks \cup SeqSet(SubSeq(puback_rx, 1, i - 1))
      rank(i) == Cardinality({j \in 1..i : fresh(j)})
  IN pending_pubacks \cup {puback_rx[i] : i \in {j \in DOMAIN puback_rx : rank(j) <= room /\ fresh(j)}}

\* ... and marks at most Limit of its rows, in no particular order.
Markable ==
  {ids \in SUBSET Drained :
     Cardinality(ids) = IF Cardinality(Drained) < Limit THEN Cardinality(Drained) ELSE Limit}

MarkPublished(next) ==
  /\ puback_rx' = <<>>
  /\ \E ids \in Markable :
       /\ published' = published \cup ids
       /\ pending_pubacks' = Drained \ ids
  /\ pc' = next

DrainFirst ==
  /\ pc = "sleep"
  /\ MarkPublished("fetch")
  /\ UNCHANGED <<rows, delivered, tracker, client, todo>>

\* The UPDATE fails: the ids are kept and publish_unpublished returns.
MarkFails ==
  /\ pc \in {"sleep", "drain"}
  /\ Drained # {}
  /\ puback_rx' = <<>>
  /\ pending_pubacks' = Drained
  /\ pc' = "sleep"
  /\ UNCHANGED <<rows, published, delivered, tracker, client, todo>>

\* Mutant: rows below the last published one count as published.
AfterLastPublished == {r \in 1..rows : \A q \in published : q < r}

\* Outbox::fetch_unpublished: the first Limit rows without published_at.
Unpublished == {r \in 1..rows : r \notin published}

\* What rows ORDER BY id LIMIT may be: a sequence of unpublished rows.
Results == UNION {[1..n -> Unpublished] : n \in 0..Limit}

\* Mutant: newest rows first.
selects_newest(found) ==
  /\ \A i, j \in DOMAIN found : i < j => found[i] > found[j]
  /\ \A r \in Unpublished \ SeqSet(found) :
       Len(found) = Limit /\ \A i \in DOMAIN found : found[i] > r

\* The SELECT returns the first ones, in order.
selects(found) ==
  /\ \A i, j \in DOMAIN found : i < j => found[i] < found[j]
  /\ \A r \in Unpublished \ SeqSet(found) :
       Len(found) = Limit /\ \A i \in DOMAIN found : found[i] < r

FetchUnpublished ==
  /\ pc = "fetch"
  /\ \E found \in Results : selects(found) /\ todo' = found
  /\ pc' = IF Unpublished = {} THEN "sleep" ELSE "rows"
  /\ UNCHANGED <<rows, published, delivered, tracker, client, puback_rx, pending_pubacks>>

\* The database cannot be opened or read: this round of the loop ends.
FetchFails ==
  /\ pc = "fetch"
  /\ pc' = "sleep"
  /\ UNCHANGED <<rows, published, delivered, tracker, client, puback_rx, pending_pubacks, todo>>

\* The tracker is asked, and the row queued, under one lock.
SkipTracked ==
  /\ pc = "rows"
  /\ todo # <<>>
  /\ contains_row(Head(todo))
  /\ todo' = Tail(todo)
  /\ UNCHANGED <<rows, published, delivered, tracker, client, puback_rx, pending_pubacks, pc>>

QueueRow ==
  /\ pc = "rows"
  /\ todo # <<>>
  /\ ~ contains_row(Head(todo))
  /\ queued' = Append(queued, Head(todo))
  /\ pc' = "send"
  /\ UNCHANGED <<rows, published, delivered, inflight, client, puback_rx, pending_pubacks, todo>>

\* Mutant: a row is marked when the client has taken it (before DEC-0058).
PublishAndMark ==
  /\ pc = "send"
  /\ Head(todo) \notin Unpublishable
  /\ Len(requests) < RequestCapacity
  /\ requests' = Append(requests, Head(todo))
  /\ published' = published \cup {Head(todo)}
  /\ todo' = Tail(todo)
  /\ pc' = "rows"
  /\ UNCHANGED <<rows, delivered, tracker, outgoing, accepted, pending,
                 last_pkid, connected, puback_rx, pending_pubacks>>

\* client.publish blocks while the request channel is full.
PublishRow ==
  /\ pc = "send"
  /\ Head(todo) \notin Unpublishable
  /\ Len(requests) < RequestCapacity
  /\ requests' = Append(requests, Head(todo))
  /\ todo' = Tail(todo)
  /\ pc' = "rows"
  /\ UNCHANGED <<rows, published, delivered, tracker, outgoing, accepted, pending,
                 last_pkid, connected, puback_rx, pending_pubacks>>

\* client.publish returns an error: the row leaves the tracker.
PublishFails ==
  /\ pc = "send"
  /\ Head(todo) \in Unpublishable
  /\ queued' = remove_queued(Head(todo))
  /\ todo' = Tail(todo)
  /\ pc' = "rows"
  /\ UNCHANGED <<rows, published, delivered, inflight, client, puback_rx, pending_pubacks>>

RowsDone ==
  /\ pc = "rows"
  /\ todo = <<>>
  /\ pc' = "drain"
  /\ UNCHANGED <<rows, published, delivered, tracker, client, puback_rx, pending_pubacks, todo>>

DrainAgain ==
  /\ pc = "drain"
  /\ MarkPublished("sleep")
  /\ UNCHANGED <<rows, delivered, tracker, client, todo>>

-----------------------------------------------------------------------------
(* The event loop *)

\* What has to be sent next: publications of the last connection come first.
NextPkid == IF last_pkid = MaxPkid THEN 1 ELSE last_pkid + 1

Sent(p, r) ==
  /\ outgoing' = Append(outgoing, <<p, r>>)
  /\ on_outgoing_publish(p)
  /\ UNCHANGED <<rows, published, delivered, accepted, connected, puback_rx,
                 pending_pubacks, pc, todo>>

Retransmit ==
  /\ connected = 1
  /\ pending # <<>>
  /\ Head(pending)[1] # 0
  /\ Sent(Head(pending)[1], Head(pending)[2])
  /\ pending' = Tail(pending)
  /\ UNCHANGED <<requests, last_pkid>>

TransmitPending ==
  /\ connected = 1
  /\ pending # <<>>
  /\ Head(pending)[1] = 0
  /\ Len(outgoing) < MaxPkid
  /\ Sent(NextPkid, Head(pending)[2])
  /\ pending' = Tail(pending)
  /\ last_pkid' = NextPkid
  /\ UNCHANGED requests

Transmit ==
  /\ connected = 1
  /\ pending = <<>>
  /\ requests # <<>>
  /\ Len(outgoing) < MaxPkid
  /\ Sent(NextPkid, Head(requests))
  /\ requests' = Tail(requests)
  /\ last_pkid' = NextPkid
  /\ UNCHANGED pending

\* The broker takes the oldest publication it has not seen.
BrokerAccepts ==
  /\ connected = 1
  /\ accepted < Len(outgoing)
  /\ accepted' = accepted + 1
  /\ delivered' = delivered \cup {outgoing[accepted + 1][2]}
  /\ UNCHANGED <<rows, published, tracker, requests, outgoing, pending, last_pkid,
                 connected, puback_rx, pending_pubacks, pc, todo>>

\* Incoming PubAck: the row goes to the publish loop unless the channel is full.
ReceivePuback ==
  /\ accepted > 0
  /\ LET p == Head(outgoing)[1]
     IN /\ on_puback(p)
        /\ puback_rx' = IF inflight[p] # 0 /\ Len(puback_rx) < PubackCapacity
                          THEN Append(puback_rx, inflight[p])
                          ELSE puback_rx
  /\ outgoing' = Tail(outgoing)
  /\ accepted' = accepted - 1
  /\ UNCHANGED <<rows, published, delivered, requests, pending, last_pkid, connected,
                 pending_pubacks, pc, todo>>

\* The connection breaks: unacknowledged publications and waiting requests
\* are kept for the next one.
Disconnect ==
  /\ connected = 1
  /\ connected' = 0
  /\ pending' = outgoing \o pending \o [i \in DOMAIN requests |-> <<0, requests[i]>>]
  /\ outgoing' = <<>>
  /\ accepted' = 0
  /\ requests' = <<>>
  /\ UNCHANGED <<rows, published, delivered, tracker, last_pkid, puback_rx,
                 pending_pubacks, pc, todo>>

\* The broker resumes the session.
Resume ==
  /\ connected = 0
  /\ connected' = 1
  /\ UNCHANGED <<rows, published, delivered, tracker, requests, outgoing, accepted,
                 pending, last_pkid, puback_rx, pending_pubacks, pc, todo>>

\* The broker has lost the session: the client clears what it had to send.
StartSession ==
  /\ connected = 0
  /\ connected' = 1
  /\ pending' = <<>>
  /\ UNCHANGED <<rows, published, delivered, tracker, requests, outgoing, accepted,
                 last_pkid, puback_rx, pending_pubacks, pc, todo>>

\* kill -9 and restart: only the database and the broker remember anything.
Restart ==
  /\ queued' = <<>> /\ inflight' = [p \in Pkid |-> 0]
  /\ requests' = <<>> /\ outgoing' = <<>> /\ accepted' = 0 /\ pending' = <<>>
  /\ last_pkid' = 0 /\ connected' = 1
  /\ puback_rx' = <<>> /\ pending_pubacks' = {}
  /\ pc' = "sleep" /\ todo' = <<>>
  /\ UNCHANGED <<rows, published, delivered>>

PublishLoop ==
  \/ DrainFirst \/ FetchUnpublished \/ SkipTracked \/ QueueRow
  \/ PublishRow \/ PublishFails \/ RowsDone \/ DrainAgain

EventLoop == Retransmit \/ TransmitPending \/ Transmit \/ ReceivePuback

Fault == MarkFails \/ FetchFails \/ Disconnect \/ Restart

Next ==
  \/ Commit
  \/ PublishLoop
  \/ EventLoop
  \/ BrokerAccepts
  \/ Resume
  \/ Fault

Spec == Init /\ [][Next]_vars

\* The same with a broker that may lose the publisher's session.
LossySpec == Init /\ [][Next \/ StartSession]_vars

-----------------------------------------------------------------------------
(* Properties *)

\* Every variable keeps its type; the PUBACK channel, the set of pending
\* acknowledgements and the client's queues never outgrow their capacities.
TypeOK ==
  /\ rows \in 0..MaxRows
  /\ published \subseteq 1..rows
  /\ delivered \subseteq 1..rows
  /\ queued \in Seq(1..rows)
  /\ inflight \in [Pkid -> 0..rows]
  /\ requests \in Seq(1..rows)
  /\ Len(requests) <= RequestCapacity
  /\ outgoing \in Seq(Pkid \X (1..rows))
  /\ Len(outgoing) <= MaxPkid
  /\ accepted \in 0..Len(outgoing)
  /\ pending \in Seq((0..MaxPkid) \X (1..rows))
  /\ last_pkid \in 0..MaxPkid
  /\ connected \in {0, 1}
  /\ puback_rx \in Seq(1..rows)
  /\ Len(puback_rx) <= PubackCapacity
  /\ pending_pubacks \subseteq 1..rows
  /\ Cardinality(pending_pubacks) <= PendingCapacity
  /\ pc \in {"sleep", "fetch", "rows", "send", "drain"}
  /\ todo \in Seq(1..rows)

\* SPEC.md RNF-2 and CA-10: a row is marked published only if the broker has
\* accepted its event, whatever crashes, reconnections, failed updates and
\* dropped acknowledgements came before; no event is lost.
PublishedWasDelivered == published \subseteq delivered

\* Events reach the broker for the first time in the order of their commits,
\* except the ones the client rejects.
FirstDeliveryInOrder ==
  \A r \in delivered : \A q \in 1..r : q \in delivered \cup Unpublishable

\* The rows of the requests that have no packet id yet, oldest first: those of an
\* earlier connection, which follow the k that have one, those in the channel, and
\* the row that publish_unpublished has queued and is about to publish.
Unsent(k) ==
  [i \in 1..(Len(pending) - k) |-> pending[k + i][2]] \o requests
    \o (IF pc = "send" THEN <<Head(todo)>> ELSE <<>>)

\* The tracker's guess is right: its queue lists exactly the rows that wait
\* for a packet id, in the client's order, and its map gives every packet id
\* in use the row that was published under it.
TrackerMatchesClient ==
  /\ \E k \in 0..Len(pending) :
       /\ \A i \in DOMAIN pending : pending[i][1] = 0 <=> i > k
       /\ queued = Unsent(k)
  /\ \A p \in Pkid :
       \/ \E e \in SeqSet(outgoing \o pending) : e = <<p, inflight[p]>>
       \/ inflight[p] = 0 /\ \A e \in SeqSet(outgoing \o pending) : e[1] # p
=============================================================================
