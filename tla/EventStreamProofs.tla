-------------------------- MODULE EventStreamProofs --------------------------
(***************************************************************************)
(* The promises of an event stream, for every number of rows, any size of  *)
(* fetch and channel, and any number of broken streams and resumptions.    *)
(***************************************************************************)
EXTENDS EventStream, SequenceTheorems, WellFoundedInduction, TLAPS

\* A stream has a task while its client reads it, and nothing is left of it after.
Attached ==
  /\ client.on <=> task.pc # "none"
  /\ ~ client.on => channel = <<>>

\* The client is never ahead of the task, nor the task of the outbox.
CursorsOrdered ==
  /\ client.cursor <= Len(kinds) /\ task.cursor <= Len(kinds)
  /\ client.on => client.cursor <= task.cursor

\* What is fetched lies ahead of the task, in order.
RowsAhead ==
  /\ \A i \in DOMAIN task.rows : task.cursor < task.rows[i] /\ task.rows[i] <= Len(kinds)
  /\ \A i, j \in DOMAIN task.rows : i < j => task.rows[i] < task.rows[j]

\* The events on their way lie between the client and the task, in order; anything
\* else is the last item of a stream that has ended.
ChannelOrdered ==
  /\ \A i \in DOMAIN channel :
       IF channel[i].kind = "event"
         THEN client.cursor < channel[i].cursor /\ channel[i].cursor <= task.cursor
         ELSE /\ i = Len(channel) /\ task.pc = "done"
              /\ channel[i].kind = "behind" => channel[i].cursor = task.cursor
  /\ \A i, j \in DOMAIN channel :
       i < j /\ channel[j].kind = "event" => channel[i].cursor < channel[j].cursor

\* A running task has kept a slot for its last item.
SlotKept == task.pc \in {"fetch", "send"} => Len(channel) < buffer_capacity

\* What the client has got lies behind its cursor, in order.
GotOrdered ==
  /\ \A i \in DOMAIN got : got[i] <= client.cursor
  /\ \A i, j \in DOMAIN got : i < j => got[i] < got[j]

\* A kept event between the client and the task is in the channel.
InChannel ==
  \A r \in kept :
    kinds[r] = "match" /\ client.on /\ client.cursor < r /\ r <= task.cursor
      => \E i \in DOMAIN channel : channel[i] = Event(r)

\* A kept event between the task and the last row fetched is among those fetched.
InRows ==
  \A r \in kept :
    kinds[r] = "match" /\ task.cursor < r /\ (\E j \in DOMAIN task.rows : r <= task.rows[j])
      => \E i \in DOMAIN task.rows : task.rows[i] = r

StreamInv ==
  /\ TypeOK /\ Attached /\ CursorsOrdered /\ RowsAhead /\ ChannelOrdered
  /\ SlotKept /\ GotOrdered /\ InChannel /\ InRows
  /\ NothingSkipped /\ EndIsExplained

-----------------------------------------------------------------------------
\* There is room for one event and the last item.
LEMMA CapacityFacts ==
  buffer_capacity \in Nat /\ buffer_capacity >= 2 /\ buffer_capacity' = buffer_capacity
  BY StreamConstants DEF buffer_capacity

\* The oldest kept row, when there is one, is the smallest.
LEMMA OldestRow ==
  ASSUME kept \subseteq DOMAIN kinds, kinds \in Seq(Kinds), kept # {}
  PROVE  Min(kept) \in kept /\ \A r \in kept : Min(kept) <= r
  <1> DEFINE R == {ss \in Nat \X Nat : ss[1] < ss[2]}
  <1>1. IsWellFoundedOn(R, Nat)
    BY NatLessThanWellFounded, Zenon DEF OpToRel
  <1>2. kept \subseteq Nat
    BY LenProperties
  <1>3. PICK x \in kept : \A y \in kept : ~ (<<y, x>> \in R)
    BY <1>1, <1>2, WFMin, Zenon
  <1>4. \A y \in kept : x <= y
    <2>1. \A y \in kept : ~ (y < x)
      BY <1>2, <1>3
    <2> QED
      BY <1>2, <2>1
  <1> QED
    BY <1>4, Zenon DEF Min

\* The client's record.
LEMMA ClientRecord ==
  \A b \in BOOLEAN, c \in 0..MaxRows : [on |-> b, cursor |-> c] \in [on : BOOLEAN, cursor : 0..MaxRows]
  OBVIOUS

\* The initial state.
LEMMA InitStream == Init => StreamInv
  <1> SUFFICES ASSUME Init PROVE StreamInv
    OBVIOUS
  <1>1. TypeOK
    BY StreamConstants, CapacityFacts DEF Init, TypeOK, NoTask
  <1>2. Attached /\ CursorsOrdered /\ RowsAhead /\ ChannelOrdered
    BY DEF Init, NoTask, Attached, CursorsOrdered, RowsAhead, ChannelOrdered
  <1>3. SlotKept /\ GotOrdered /\ InChannel /\ InRows /\ NothingSkipped /\ EndIsExplained
    BY DEF Init, NoTask, SlotKept, GotOrdered, InChannel, InRows, NothingSkipped, EndIsExplained
  <1> QED
    BY <1>1, <1>2, <1>3 DEF StreamInv

-----------------------------------------------------------------------------
(* The outbox *)

\* A row that is inserted lies ahead of every cursor.
LEMMA InsertKeeps ==
  ASSUME StreamInv, NEW kind \in Kinds, Insert(kind)
  PROVE  StreamInv'
  <1> USE DEF StreamInv, Insert
  <1>1. /\ kinds' \in Seq(Kinds) /\ Len(kinds') = Len(kinds) + 1 /\ Len(kinds) \in Nat
        /\ \A r \in DOMAIN kinds : kinds'[r] = kinds[r]
        /\ DOMAIN kinds = 1..Len(kinds) /\ DOMAIN kinds' = 1..Len(kinds')
    BY AppendProperties, LenProperties DEF TypeOK
  <1>2. kept \subseteq DOMAIN kinds /\ kept' = kept \cup {Len(kinds) + 1}
    BY DEF TypeOK
  <1>3. TypeOK'
    BY <1>1, <1>2, StreamConstants DEF TypeOK, buffer_capacity
  <1>4. Attached' /\ SlotKept' /\ GotOrdered' /\ EndIsExplained' /\ ChannelOrdered'
    BY DEF Attached, SlotKept, GotOrdered, EndIsExplained, ChannelOrdered, buffer_capacity
  <1>5. CursorsOrdered' /\ RowsAhead'
    <2>1. task.cursor \in Nat /\ client.cursor \in Nat /\ \A i \in DOMAIN task.rows : task.rows[i] \in Nat
      BY StreamConstants DEF TypeOK, Row
    <2> QED
      BY <1>1, <2>1 DEF CursorsOrdered, RowsAhead
  <1>6. ASSUME NEW r \in kept', r <= task.cursor \/ r <= client.cursor \/ (\E j \in DOMAIN task.rows : r <= task.rows[j])
        PROVE  r \in kept /\ kinds'[r] = kinds[r]
    BY <1>1, <1>2, <1>6, StreamConstants DEF TypeOK, CursorsOrdered, RowsAhead, Row
  <1>7. InChannel' /\ InRows' /\ NothingSkipped'
    BY <1>6, ZenonT(60) DEF InChannel, InRows, NothingSkipped, Received
  <1> QED
    BY <1>3, <1>4, <1>5, <1>7

\* Retention takes rows away and nothing else.
LEMMA CleanupKeeps ==
  ASSUME StreamInv, NEW old, CleanupOld(old)
  PROVE  StreamInv'
  <1> USE DEF StreamInv, CleanupOld
  <1>1. TypeOK' /\ Attached' /\ CursorsOrdered' /\ RowsAhead' /\ ChannelOrdered' /\ SlotKept'
    BY DEF TypeOK, Attached, CursorsOrdered, RowsAhead, ChannelOrdered, SlotKept, buffer_capacity
  <1>2. GotOrdered' /\ InChannel' /\ InRows' /\ NothingSkipped' /\ EndIsExplained'
    BY DEF GotOrdered, InChannel, InRows, NothingSkipped, EndIsExplained, Received
  <1> QED
    BY <1>1, <1>2

-----------------------------------------------------------------------------
(* The client *)

\* A stream starts where the client is.
LEMMA SubscribeKeeps ==
  ASSUME StreamInv, Subscribe
  PROVE  StreamInv'
  <1> USE DEF StreamInv, Subscribe
  <1>1. /\ client' = [on |-> TRUE, cursor |-> client.cursor] /\ client.cursor \in 0..MaxRows
        /\ task' = [pc |-> "fetch", cursor |-> client.cursor, rows |-> <<>>] /\ channel' = <<>>
    BY DEF TypeOK
  <1>2. TypeOK'
    <2>1. client' \in [on : BOOLEAN, cursor : 0..MaxRows]
      BY <1>1
    <2>2. /\ task' \in [pc : {"none", "fetch", "send", "done"}, cursor : 0..MaxRows, rows : Seq(Row)]
          /\ (task'.pc = "send") <=> (task'.rows # <<>>)
      BY <1>1
    <2>3. channel' \in Seq(Item) /\ Len(channel') <= buffer_capacity'
      BY <1>1, CapacityFacts
    <2> QED
      BY <2>1, <2>2, <2>3 DEF TypeOK
  <1>3. Attached' /\ RowsAhead' /\ ChannelOrdered' /\ SlotKept' /\ EndIsExplained'
    BY <1>1, CapacityFacts DEF Attached, RowsAhead, ChannelOrdered, SlotKept, EndIsExplained, buffer_capacity
  <1>4. CursorsOrdered' /\ GotOrdered' /\ InRows' /\ NothingSkipped'
    BY <1>1, StreamConstants DEF CursorsOrdered, GotOrdered, InRows, NothingSkipped, Received
  <1>5. InChannel'
    <2>1. kept' \subseteq Nat
      BY LenProperties DEF TypeOK
    <2> QED
      BY <1>1, <2>1, StreamConstants DEF InChannel
  <1> QED
    BY <1>2, <1>3, <1>4, <1>5

\* A client that is refused goes on from just before the oldest kept row.
LEMMA RefusedKeeps ==
  ASSUME StreamInv, Refused
  PROVE  StreamInv'
  <1> USE DEF StreamInv, Refused
  <1>1. /\ kept # {} /\ client.cursor < Min(kept) - 1 /\ Min(kept) \in kept
        /\ \A r \in kept : Min(kept) <= r
    BY OldestRow DEF out_of_range, TypeOK
  <1>2. /\ client' = [on |-> FALSE, cursor |-> Min(kept) - 1] /\ client.cursor \in Nat
        /\ kept \subseteq 1..Len(kinds) /\ Len(kinds) \in Nat /\ Len(kinds) <= MaxRows
    <2>1. client \in [on : BOOLEAN, cursor : 0..MaxRows]
      BY DEF TypeOK
    <2>2. client' = [on |-> FALSE, cursor |-> Min(kept) - 1]
      BY <2>1
    <2>3. client.cursor \in Nat
      BY <2>1, StreamConstants
    <2>4. kept \subseteq 1..Len(kinds) /\ Len(kinds) \in Nat /\ Len(kinds) <= MaxRows
      BY LenProperties DEF TypeOK
    <2> QED
      BY <2>2, <2>3, <2>4
  <1>3. TypeOK'
    <2> DEFINE m == Min(kept) - 1
    <2>1. m \in 0..MaxRows
      BY <1>1, <1>2, StreamConstants
    <2>2. client' = [on |-> FALSE, cursor |-> m]
      BY <1>2
    <2> HIDE DEF m
    <2>3. client' \in [on : BOOLEAN, cursor : 0..MaxRows]
      BY <2>1, <2>2, ClientRecord, Zenon
    <2> QED
      BY <2>3, CapacityFacts DEF TypeOK
  <1>4. Attached' /\ RowsAhead' /\ SlotKept' /\ EndIsExplained' /\ InRows'
    BY <1>2 DEF Attached, RowsAhead, SlotKept, EndIsExplained, InRows, buffer_capacity
  <1>5. ChannelOrdered' /\ InChannel'
    BY <1>2 DEF Attached, ChannelOrdered, InChannel
  <1>6. CursorsOrdered'
    BY <1>1, <1>2 DEF CursorsOrdered
  <1>7. GotOrdered'
    <2>1. \A i \in DOMAIN got : got[i] \in Nat
      BY StreamConstants, SMTT(60) DEF TypeOK, Row
    <2>2. client'.cursor >= client.cursor /\ client'.cursor \in Nat
      BY <1>1, <1>2
    <2> QED
      BY <1>2, <2>1, <2>2 DEF GotOrdered
  <1>8. NothingSkipped'
    BY <1>1, <1>2 DEF NothingSkipped
  <1> QED
    BY <1>3, <1>4, <1>5, <1>6, <1>7, <1>8

\* The items left in the channel once its first has been read.
LEMMA TailOfChannel ==
  ASSUME StreamInv, channel # <<>>
  PROVE  /\ channel[1] \in Item /\ Head(channel) = channel[1] /\ 1 \in DOMAIN channel
         /\ Tail(channel) \in Seq(Item) /\ Len(Tail(channel)) = Len(channel) - 1
         /\ Len(channel) \in Nat \ {0}
         /\ \A i \in DOMAIN Tail(channel) :
              i \in Nat /\ i + 1 \in DOMAIN channel /\ Tail(channel)[i] = channel[i + 1]
         /\ \A i \in DOMAIN channel :
              i # 1 => i - 1 \in DOMAIN Tail(channel) /\ Tail(channel)[i - 1] = channel[i]
  <1>1. channel \in Seq(Item)
    BY DEF StreamInv, TypeOK
  <1> QED
    BY <1>1, HeadTailProperties, LenProperties, EmptySeq, ElementOfSeq

\* The client reads the event next to its cursor.
LEMMA ReceiveEventKeeps ==
  ASSUME StreamInv, ReceiveEvent
  PROVE  StreamInv'
  <1> USE DEF StreamInv, ReceiveEvent
  <1> DEFINE c == channel[1].cursor
  <1>1. /\ channel # <<>> /\ channel[1].kind = "event" /\ Head(channel) = channel[1]
        /\ client' = [on |-> TRUE, cursor |-> c] /\ got' = Append(got, c) /\ channel' = Tail(channel)
    BY TailOfChannel DEF TypeOK
  <1>2. /\ c \in Row /\ client.cursor \in Nat /\ client.cursor < c /\ c <= task.cursor
        /\ task.cursor \in Nat /\ task.cursor <= Len(kinds) /\ Len(kinds) \in Nat
    BY <1>1, TailOfChannel, StreamConstants, LenProperties, SMTT(60) DEF ChannelOrdered, CursorsOrdered, TypeOK, Item, Row
  <1>3. /\ got' \in Seq(Row) /\ DOMAIN got' = 1..(Len(got) + 1) /\ Len(got) \in Nat
        /\ got'[Len(got) + 1] = c /\ DOMAIN got = 1..Len(got)
        /\ \A i \in DOMAIN got : got'[i] = got[i] /\ got[i] \in Row
    BY <1>1, <1>2, AppendProperties, LenProperties, ElementOfSeq DEF TypeOK
  <1> HIDE DEF c
  <1>4. TypeOK'
    <2>1. Len(channel') <= buffer_capacity
      BY <1>1, TailOfChannel, CapacityFacts DEF TypeOK
    <2>2. client' \in [on : BOOLEAN, cursor : 0..MaxRows] /\ channel' \in Seq(Item)
      <3>1. c \in 0..MaxRows
        BY <1>2, StreamConstants DEF Row
      <3>2. client' \in [on : BOOLEAN, cursor : 0..MaxRows]
        BY <1>1, <3>1, ClientRecord, Zenon
      <3> QED
        BY <1>1, <3>2, TailOfChannel
    <2> QED
      BY <1>3, <2>1, <2>2, CapacityFacts DEF TypeOK
  <1>5. Attached' /\ CursorsOrdered' /\ RowsAhead' /\ InRows'
    <2>1. Attached'
      BY <1>1, Zenon DEF Attached
    <2>2. CursorsOrdered'
      BY <1>1, <1>2 DEF CursorsOrdered, Row
    <2>3. RowsAhead' /\ InRows'
      BY DEF RowsAhead, InRows
    <2> QED
      BY <2>1, <2>2, <2>3
  <1>6. SlotKept'
    BY <1>1, TailOfChannel, CapacityFacts DEF SlotKept, buffer_capacity
  <1>7. ChannelOrdered'
    <2>1. \A i \in DOMAIN channel' : channel'[i].kind = "event" => c < channel'[i].cursor
      BY <1>1, TailOfChannel DEF ChannelOrdered, c
    <2> QED
      BY <1>1, <2>1, TailOfChannel DEF ChannelOrdered
  <1>8. GotOrdered'
    BY <1>1, <1>2, <1>3, SMTT(60) DEF GotOrdered, Row
  <1>9. EndIsExplained'
    <2> SUFFICES ASSUME task.pc = "done" PROVE channel' # <<>> /\ Last(channel').kind # "event"
      BY DEF EndIsExplained
    <2>1. channel[Len(channel)].kind # "event"
      BY DEF EndIsExplained, Last
    <2>2. Len(channel) # 1
      BY <1>1, <2>1
    <2>3. Len(channel') \in DOMAIN channel' /\ channel'[Len(channel')] = channel[Len(channel)]
      BY <1>1, <2>2, TailOfChannel, LenProperties
    <2> QED
      BY <1>1, <2>1, <2>3, TailOfChannel DEF Last
  <1>10. ASSUME NEW r \in kept, kinds[r] = "match", client.cursor < r, r <= task.cursor, r \in Nat
         PROVE  r = c \/ (c < r /\ \E i \in DOMAIN channel' : channel'[i] = Event(r))
    <2>1. PICK i \in DOMAIN channel : channel[i] = Event(r)
      BY <1>10 DEF InChannel
    <2>2. CASE i = 1
      BY <2>1, <2>2 DEF c, Event
    <2>3. CASE i # 1
      <3>1. 1 < i
        BY <2>3, LenProperties DEF TypeOK
      <3>2. c < r
        BY <2>1, <3>1, TailOfChannel, <1>1 DEF ChannelOrdered, Event, c
      <3>3. i - 1 \in DOMAIN channel' /\ channel'[i - 1] = channel[i]
        BY <1>1, <2>3, TailOfChannel
      <3> QED
        BY <2>1, <3>2, <3>3
    <2> QED
      BY <2>2, <2>3
  <1>11. kept \subseteq Nat
    BY LenProperties DEF TypeOK
  <1>12. InChannel'
    BY <1>1, <1>2, <1>10, <1>11, SMTT(60) DEF InChannel, Row, Event
  <1>13. NothingSkipped'
    <2>1. Received' = Received \cup {c}
      BY <1>3 DEF Received, ToSet
    <2> SUFFICES ASSUME NEW r \in kept, r <= c, kinds[r] = "match" PROVE r \in Received'
      BY <1>1 DEF NothingSkipped
    <2>2. CASE r <= client.cursor
      BY <2>1, <2>2 DEF NothingSkipped
    <2>3. CASE ~ (r <= client.cursor)
      BY <1>2, <1>10, <1>11, <2>1, <2>3 DEF Row
    <2> QED
      BY <2>2, <2>3
  <1> QED
    BY <1>4, <1>5, <1>6, <1>7, <1>8, <1>9, <1>12, <1>13

\* The last item ends the stream; the client is then where the task was, or where
\* it was itself.
LEMMA ReceiveErrorKeeps ==
  ASSUME StreamInv, ReceiveError
  PROVE  StreamInv'
  <1> USE DEF StreamInv, ReceiveError
  <1> DEFINE c == client'.cursor
  <1>1. /\ Head(channel) = channel[1] /\ channel[1].kind # "event" /\ Len(channel) = 1
        /\ channel[1].kind = "behind" => channel[1].cursor = task.cursor
    BY TailOfChannel DEF ChannelOrdered
  <1>2. /\ client' = [on |-> FALSE, cursor |-> c]
        /\ c = client.cursor \/ c = task.cursor
        /\ client.on /\ client.cursor <= task.cursor
    BY <1>1 DEF CursorsOrdered
  <1>3. /\ client.cursor \in 0..MaxRows /\ task.cursor \in 0..MaxRows
        /\ c \in 0..MaxRows /\ client.cursor <= c /\ c <= task.cursor /\ c <= Len(kinds)
    BY <1>2, StreamConstants DEF TypeOK, CursorsOrdered
  <1> HIDE DEF c
  <1>4. TypeOK'
    <2>1. client' \in [on : BOOLEAN, cursor : 0..MaxRows]
      BY <1>2, <1>3
    <2>2. /\ task' \in [pc : {"none", "fetch", "send", "done"}, cursor : 0..MaxRows, rows : Seq(Row)]
          /\ (task'.pc = "send") <=> (task'.rows # <<>>)
      BY StreamConstants DEF NoTask
    <2>3. channel' \in Seq(Item) /\ Len(channel') <= buffer_capacity'
      BY CapacityFacts
    <2> QED
      BY <2>1, <2>2, <2>3 DEF TypeOK
  <1>5. Attached' /\ RowsAhead' /\ ChannelOrdered' /\ SlotKept' /\ EndIsExplained' /\ InRows'
    BY <1>2 DEF Attached, RowsAhead, ChannelOrdered, SlotKept, EndIsExplained, InRows, NoTask
  <1>6. CursorsOrdered' /\ InChannel'
    BY <1>2, <1>3, LenProperties DEF CursorsOrdered, InChannel, NoTask, TypeOK
  <1>7. GotOrdered'
    <2>1. \A i \in DOMAIN got : got[i] \in Nat
      BY StreamConstants DEF TypeOK, Row
    <2> QED
      BY <1>2, <1>3, <2>1 DEF GotOrdered
  <1>8. NothingSkipped'
    <2> SUFFICES ASSUME NEW r \in kept, r <= c, kinds[r] = "match" PROVE r \in Received
      BY <1>2 DEF NothingSkipped, Received
    <2>1. r \in Nat
      BY LenProperties DEF TypeOK
    <2>2. \A i \in DOMAIN channel : channel[i] # Event(r)
      BY <1>1, LenProperties DEF TypeOK, Event
    <2>3. ~ (client.cursor < r /\ r <= task.cursor)
      BY <1>2, <2>2 DEF InChannel
    <2>4. r <= client.cursor
      BY <1>3, <2>1, <2>3
    <2> QED
      BY <2>4 DEF NothingSkipped
  <1> QED
    BY <1>4, <1>5, <1>6, <1>7, <1>8

\* What is lost with a stream lies ahead of the client.
LEMMA BreakKeeps ==
  ASSUME StreamInv, Break
  PROVE  StreamInv'
  <1> USE DEF StreamInv, Break
  <1>1. client' = [on |-> FALSE, cursor |-> client.cursor] /\ client.cursor \in 0..MaxRows
    BY DEF TypeOK
  <1>2. TypeOK'
    <2>1. client' \in [on : BOOLEAN, cursor : 0..MaxRows]
      BY <1>1
    <2>2. /\ task' \in [pc : {"none", "fetch", "send", "done"}, cursor : 0..MaxRows, rows : Seq(Row)]
          /\ (task'.pc = "send") <=> (task'.rows # <<>>)
      BY StreamConstants DEF NoTask
    <2>3. channel' \in Seq(Item) /\ Len(channel') <= buffer_capacity'
      BY CapacityFacts
    <2>4. breaks' \in 0..MaxBreaks
      BY StreamConstants, SMTT(60) DEF TypeOK
    <2> QED
      BY <2>1, <2>2, <2>3, <2>4 DEF TypeOK
  <1>3. Attached' /\ RowsAhead' /\ ChannelOrdered' /\ SlotKept' /\ EndIsExplained' /\ InRows'
    BY <1>1 DEF Attached, RowsAhead, ChannelOrdered, SlotKept, EndIsExplained, InRows, NoTask
  <1>4. CursorsOrdered' /\ InChannel'
    BY <1>1, LenProperties DEF CursorsOrdered, InChannel, NoTask, TypeOK
  <1>5. GotOrdered' /\ NothingSkipped'
    BY <1>1 DEF GotOrdered, NothingSkipped, Received
  <1> QED
    BY <1>2, <1>3, <1>4, <1>5

-----------------------------------------------------------------------------
(* The task *)

\* A fetch returns the first rows after the cursor: no kept event lies between them.
LEMMA FetchKeeps ==
  ASSUME StreamInv, Fetch
  PROVE  StreamInv'
  <1> USE DEF StreamInv, Fetch
  <1>1. PICK rows \in Results \ {<<>>} :
          /\ selects(rows, task.cursor) /\ \A i \in DOMAIN rows : kinds[rows[i]] # "bad"
          /\ task' = [task EXCEPT !.pc = "send", !.rows = rows]
    OBVIOUS
  <1>2. kept \subseteq 1..Len(kinds) /\ Len(kinds) \in Nat /\ Len(kinds) <= MaxRows /\ kept \subseteq Row
    BY LenProperties, StreamConstants, SMTT(60) DEF TypeOK, Row
  <1>3. rows \in Seq(kept) /\ rows \in Seq(Row)
    <2>1. PICK n \in 0..Limit : rows \in [1..n -> kept]
      BY <1>1, ZenonT(60) DEF Results
    <2>2. n \in Nat /\ rows \in [1..n -> Row]
      BY <1>2, <2>1, StreamConstants
    <2> HIDE DEF Fetch, StreamInv
    <2> QED
      BY <2>1, <2>2
  <1>4. task' = [pc |-> "send", cursor |-> task.cursor, rows |-> rows] /\ task.cursor \in 0..MaxRows
    BY <1>1 DEF TypeOK
  <1>5. TypeOK'
    <2>1. task' \in [pc : {"none", "fetch", "send", "done"}, cursor : 0..MaxRows, rows : Seq(Row)]
      BY <1>3, <1>4
    <2> QED
      BY <1>1, <1>4, <2>1, CapacityFacts DEF TypeOK
  <1>6. Attached' /\ CursorsOrdered' /\ SlotKept' /\ EndIsExplained' /\ GotOrdered' /\ NothingSkipped'
    BY <1>4, CapacityFacts DEF Attached, CursorsOrdered, SlotKept, EndIsExplained, GotOrdered,
       NothingSkipped, Received
  <1>7. ChannelOrdered' /\ InChannel'
    BY <1>4 DEF ChannelOrdered, InChannel
  <1>8. RowsAhead'
    BY <1>1, <1>2, <1>3, <1>4 DEF RowsAhead, selects
  <1>9. InRows'
    <2> SUFFICES ASSUME NEW r \in kept, kinds[r] = "match", task.cursor < r,
                        NEW j \in DOMAIN rows, r <= rows[j]
                 PROVE  \E i \in DOMAIN rows : rows[i] = r
      BY <1>4 DEF InRows
    <2>1. rows[j] \in Nat /\ r \in Nat
      BY <1>2, <1>3
    <2>2. ~ (rows[j] < r)
      BY <2>1
    <2>3. r \in ToSet(rows)
      BY <1>1, <2>2 DEF selects
    <2> QED
      BY <2>3 DEF ToSet
  <1> QED
    BY <1>5, <1>6, <1>7, <1>8, <1>9

\* The channel with one more item.
LEMMA ChannelAppend ==
  ASSUME StreamInv, NEW x \in Item, channel' = Append(channel, x)
  PROVE  /\ channel' \in Seq(Item) /\ Len(channel) \in Nat /\ Len(channel') = Len(channel) + 1
         /\ DOMAIN channel = 1..Len(channel) /\ DOMAIN channel' = 1..(Len(channel) + 1)
         /\ channel'[Len(channel) + 1] = x /\ Last(channel') = x /\ channel' # <<>>
         /\ \A i \in DOMAIN channel : channel'[i] = channel[i] /\ channel[i] \in Item
  <1>1. channel \in Seq(Item)
    BY DEF StreamInv, TypeOK
  <1>2. channel' \in Seq(Item) /\ Len(channel) \in Nat /\ Len(channel') = Len(channel) + 1
    BY <1>1, AppendProperties, LenProperties
  <1>3. DOMAIN channel = 1..Len(channel) /\ DOMAIN channel' = 1..(Len(channel) + 1)
    BY <1>1, <1>2, LenProperties
  <1>4. /\ channel'[Len(channel) + 1] = x
        /\ \A i \in DOMAIN channel : channel'[i] = channel[i] /\ channel[i] \in Item
    BY <1>1, <1>3, AppendProperties, ElementOfSeq
  <1>5. channel' # <<>>
    BY <1>2, EmptySeq
  <1> QED
    BY <1>2, <1>3, <1>4, <1>5 DEF Last

\* A task that ends says why, in the slot it kept; its cursor and the client's stay.
LEMMA EndKeeps ==
  ASSUME StreamInv, NEW x \in Item, x.kind # "event", x.kind = "behind" => x.cursor = task.cursor,
         task.pc \in {"fetch", "send"}, channel' = Append(channel, x),
         task' = [pc |-> "done", cursor |-> task.cursor, rows |-> <<>>],
         UNCHANGED <<kinds, kept, client, got, breaks>>
  PROVE  StreamInv'
  <1> USE DEF StreamInv
  <1>1. TypeOK'
    <2>1. task' \in [pc : {"none", "fetch", "send", "done"}, cursor : 0..MaxRows, rows : Seq(Row)]
      BY DEF TypeOK
    <2>2. Len(channel') <= buffer_capacity'
      BY ChannelAppend, CapacityFacts DEF SlotKept
    <2> QED
      BY <2>1, <2>2, ChannelAppend DEF TypeOK
  <1>2. Attached' /\ CursorsOrdered' /\ RowsAhead' /\ SlotKept' /\ GotOrdered' /\ InRows'
    BY DEF Attached, CursorsOrdered, RowsAhead, SlotKept, GotOrdered, InRows
  <1>3. NothingSkipped' /\ EndIsExplained'
    BY ChannelAppend DEF NothingSkipped, EndIsExplained, Received
  <1>4. \A i \in DOMAIN channel : channel[i].kind = "event"
    BY DEF ChannelOrdered
  <1>5. ChannelOrdered'
    BY <1>4, ChannelAppend DEF ChannelOrdered
  <1>6. InChannel'
    BY ChannelAppend DEF InChannel
  <1> QED
    BY <1>1, <1>2, <1>3, <1>5, <1>6

\* A failed fetch uses the slot that was kept.
LEMMA FetchFailsKeeps ==
  ASSUME StreamInv, FetchFails
  PROVE  StreamInv'
  <1>1. Internal \in Item /\ Internal.kind = "internal"
    BY StreamConstants DEF Internal, Item
  <1>2. task' = [pc |-> "done", cursor |-> task.cursor, rows |-> <<>>]
    BY DEF FetchFails, StreamInv, TypeOK
  <1> QED
    BY <1>1, <1>2, EndKeeps DEF FetchFails

\* A full channel: the slot that was kept takes the cursor.
LEMMA ConsumerBehindKeeps ==
  ASSUME StreamInv, ConsumerBehind
  PROVE  StreamInv'
  <1>1. Behind(task.cursor) \in Item /\ Behind(task.cursor).kind = "behind"
        /\ Behind(task.cursor).cursor = task.cursor
    BY DEF Behind, Item, StreamInv, TypeOK
  <1>2. task' = [pc |-> "done", cursor |-> task.cursor, rows |-> <<>>]
    BY DEF ConsumerBehind, StreamInv, TypeOK
  <1>3. channel' = Append(channel, Behind(task.cursor))
    BY DEF ConsumerBehind, StreamInv, SlotKept
  <1> QED
    BY <1>1, <1>2, <1>3, EndKeeps DEF ConsumerBehind

\* The fetched rows without the first.
LEMMA TailOfRows ==
  ASSUME StreamInv, task.pc = "send"
  PROVE  /\ Head(task.rows) = task.rows[1] /\ 1 \in DOMAIN task.rows /\ task.rows[1] \in Row
         /\ Tail(task.rows) \in Seq(Row)
         /\ \A i \in DOMAIN Tail(task.rows) :
              /\ i \in Nat /\ i > 0 /\ i + 1 \in DOMAIN task.rows
              /\ Tail(task.rows)[i] = task.rows[i + 1] /\ task.rows[i + 1] \in Row
         /\ \A i \in DOMAIN task.rows :
              i # 1 => i \in Nat /\ i > 1 /\ i - 1 \in DOMAIN Tail(task.rows)
                       /\ Tail(task.rows)[i - 1] = task.rows[i]
  <1> DEFINE s == task.rows
  <1>1. s \in Seq(Row) /\ s # <<>>
    BY DEF StreamInv, TypeOK
  <1> HIDE DEF s
  <1>2. /\ Head(s) = s[1] /\ 1 \in DOMAIN s /\ s[1] \in Row /\ Tail(s) \in Seq(Row)
        /\ \A i \in DOMAIN Tail(s) :
              i \in Nat /\ i > 0 /\ i + 1 \in DOMAIN s /\ Tail(s)[i] = s[i + 1] /\ s[i + 1] \in Row
        /\ \A i \in DOMAIN s :
              i # 1 => i \in Nat /\ i > 1 /\ i - 1 \in DOMAIN Tail(s) /\ Tail(s)[i - 1] = s[i]
    BY <1>1, HeadTailProperties, LenProperties, EmptySeq, ElementOfSeq
  <1> QED
    BY <1>2 DEF s

\* The task sends the next row and moves its cursor to it.
LEMMA SendKeeps ==
  ASSUME StreamInv, Send
  PROVE  StreamInv'
  <1> USE DEF StreamInv, Send
  <1> DEFINE h == task.rows[1]
  <1>1. /\ h \in Row /\ task.cursor \in Nat /\ task.cursor < h /\ h <= Len(kinds)
        /\ h \in 0..MaxRows /\ h \in Nat /\ Head(task.rows) = h
    BY TailOfRows, StreamConstants DEF RowsAhead, TypeOK, Row
  <1>2. Event(h) \in Item /\ Event(h).kind = "event" /\ Event(h).cursor = h
    BY <1>1 DEF Event, Item
  <1>3. channel' = Append(channel, Event(h))
    BY <1>1
  <1>4. /\ task'.pc = (IF Tail(task.rows) = <<>> THEN "fetch" ELSE "send")
        /\ task'.cursor = h /\ task'.rows = Tail(task.rows)
        /\ task' = [pc |-> task'.pc, cursor |-> h, rows |-> Tail(task.rows)]
    BY <1>1
  <1>5. Len(channel') < buffer_capacity
    BY <1>2, <1>3, ChannelAppend, CapacityFacts DEF lags, TypeOK
  <1>6. TypeOK'
    <2>1. task' \in [pc : {"none", "fetch", "send", "done"}, cursor : 0..MaxRows, rows : Seq(Row)]
      BY <1>1, <1>4, TailOfRows
    <2>2. Len(channel') <= buffer_capacity' /\ channel' \in Seq(Item)
      BY <1>2, <1>3, <1>5, ChannelAppend, CapacityFacts
    <2> QED
      BY <1>4, <2>1, <2>2 DEF TypeOK
  <1> HIDE DEF h
  <1>7. Attached' /\ SlotKept' /\ GotOrdered' /\ NothingSkipped' /\ EndIsExplained'
    BY <1>4, <1>5, CapacityFacts DEF Attached, SlotKept, GotOrdered, NothingSkipped, EndIsExplained, Received
  <1>8. client.on /\ client.cursor <= task.cursor /\ client.cursor \in Nat
    BY StreamConstants DEF Attached, CursorsOrdered, TypeOK
  <1>9. CursorsOrdered'
    BY <1>1, <1>4, <1>8 DEF CursorsOrdered
  <1>10. RowsAhead'
    <2>1. ASSUME NEW i \in DOMAIN task'.rows
          PROVE  /\ i \in Nat /\ i > 0 /\ i + 1 \in DOMAIN task.rows
                 /\ task'.rows[i] = task.rows[i + 1] /\ h < task.rows[i + 1]
                 /\ task.rows[i + 1] <= Len(kinds)
      <3>1. /\ i \in Nat /\ i > 0 /\ i + 1 \in DOMAIN task.rows /\ 1 \in DOMAIN task.rows
            /\ task'.rows[i] = task.rows[i + 1]
        BY <1>4, <2>1, TailOfRows
      <3> QED
        BY <3>1 DEF RowsAhead, h
    <2>2. \A i, j \in DOMAIN task'.rows : i < j => task.rows[i + 1] < task.rows[j + 1]
      <3> SUFFICES ASSUME NEW i \in DOMAIN task'.rows, NEW j \in DOMAIN task'.rows, i < j
                   PROVE  task.rows[i + 1] < task.rows[j + 1]
        OBVIOUS
      <3>1. i + 1 \in DOMAIN task.rows /\ j + 1 \in DOMAIN task.rows /\ i + 1 < j + 1
        BY <2>1
      <3> QED
        BY <3>1, Zenon DEF RowsAhead
    <2> QED
      BY <1>4, <2>1, <2>2 DEF RowsAhead
  <1>11. ChannelOrdered'
    <2>1. \A i \in DOMAIN channel : channel[i].kind = "event" /\ channel[i].cursor \in Nat
      BY <1>2, <1>3, ChannelAppend, StreamConstants DEF ChannelOrdered, Item
    <2> QED
      BY <1>1, <1>2, <1>3, <1>4, <1>8, <2>1, ChannelAppend, SMTT(60) DEF ChannelOrdered
  <1>12. ASSUME NEW r \in kept, kinds[r] = "match", task.cursor < r,
                NEW j \in DOMAIN task.rows, r <= task.rows[j]
         PROVE  r = h \/ (h < r /\ \E i \in DOMAIN task'.rows : task'.rows[i] = r)
    <2>1. PICK i \in DOMAIN task.rows : task.rows[i] = r
      BY <1>12 DEF InRows
    <2>2. CASE i = 1
      BY <2>1, <2>2 DEF h
    <2>3. CASE i # 1
      <3>1. i - 1 \in DOMAIN task'.rows /\ task'.rows[i - 1] = r /\ h < r
        BY <1>4, <2>1, <2>3, TailOfRows DEF RowsAhead, h
      <3> QED
        BY <3>1
    <2> QED
      BY <2>2, <2>3
  <1>13. kept \subseteq Nat
    BY LenProperties, SMTT(60) DEF TypeOK
  <1>14. InChannel'
    <2> SUFFICES ASSUME NEW r \in kept, kinds[r] = "match", client.cursor < r, r <= h
                 PROVE  \E i \in DOMAIN channel' : channel'[i] = Event(r)
      BY <1>4 DEF InChannel
    <2>1. CASE r <= task.cursor
      <3>1. PICK i \in DOMAIN channel : channel[i] = Event(r)
        BY <1>8, <2>1 DEF InChannel
      <3> QED
        BY <1>2, <1>3, <3>1, ChannelAppend, SMTT(60)
    <2>2. CASE ~ (r <= task.cursor)
      <3>1. task.cursor < r /\ 1 \in DOMAIN task.rows /\ r <= task.rows[1]
        BY <1>1, <1>13, <2>2, TailOfRows DEF h
      <3>2. r = h
        BY <1>1, <1>12, <1>13, <3>1
      <3> QED
        BY <1>2, <1>3, <3>2, ChannelAppend
    <2> QED
      BY <2>1, <2>2
  <1>15. InRows'
    <2> SUFFICES ASSUME NEW r \in kept, kinds[r] = "match", h < r,
                        NEW j \in DOMAIN task'.rows, r <= task'.rows[j]
                 PROVE  \E i \in DOMAIN task'.rows : task'.rows[i] = r
      BY <1>4 DEF InRows
    <2>1. j + 1 \in DOMAIN task.rows /\ r <= task.rows[j + 1]
      BY <1>4, TailOfRows
    <2>2. task.cursor < r /\ r # h
      BY <1>1, <1>13
    <2> QED
      BY <1>12, <2>1, <2>2
  <1> QED
    BY <1>6, <1>7, <1>9, <1>10, <1>11, <1>14, <1>15

-----------------------------------------------------------------------------
(* The theorems *)

\* Every step keeps the inductive invariant.
LEMMA StreamStep == StreamInv /\ [Next]_vars => StreamInv'
  <1> SUFFICES ASSUME StreamInv, [Next]_vars PROVE StreamInv'
    OBVIOUS
  <1>1. ASSUME NEW kind \in Kinds, Insert(kind) PROVE StreamInv'
    BY <1>1, InsertKeeps
  <1>2. ASSUME NEW old, CleanupOld(old) PROVE StreamInv'
    BY <1>2, CleanupKeeps
  <1>3. CASE Server
    BY <1>3, FetchKeeps, FetchFailsKeeps, SendKeeps, ConsumerBehindKeeps DEF Server
  <1>4. CASE Client
    BY <1>4, SubscribeKeeps, RefusedKeeps, ReceiveEventKeeps, ReceiveErrorKeeps DEF Client
  <1>5. CASE Break
    BY <1>5, BreakKeeps
  <1>6. CASE UNCHANGED vars
    <2>1. TypeOK' /\ Attached' /\ CursorsOrdered' /\ RowsAhead' /\ ChannelOrdered' /\ SlotKept'
      BY <1>6, CapacityFacts DEF StreamInv, vars, TypeOK, Attached, CursorsOrdered, RowsAhead,
         ChannelOrdered, SlotKept
    <2>2. GotOrdered' /\ InChannel' /\ InRows' /\ NothingSkipped' /\ EndIsExplained'
      BY <1>6 DEF StreamInv, vars, GotOrdered, InChannel, InRows, NothingSkipped, EndIsExplained, Received
    <2> QED
      BY <2>1, <2>2 DEF StreamInv
  <1> QED
    BY <1>1, <1>2, <1>3, <1>4, <1>5, <1>6 DEF Next

\* The inductive invariant always holds.
LEMMA StreamInductive == Spec => []StreamInv
  BY InitStream, StreamStep, PTL DEF Spec

\* Every variable keeps its type, and the channel of a stream never outgrows its
\* capacity, however many rows a fetch returns.
THEOREM StreamTypeCorrect == Spec => []TypeOK
  <1>1. StreamInv => TypeOK
    BY DEF StreamInv
  <1> QED
    BY <1>1, StreamInductive, PTL

\* Over any number of slow reads, broken streams, refusals and resumptions a client
\* gets no event twice and none out of order.
THEOREM EventsInOrder == Spec => []OrderedOnce
  <1>1. StreamInv => OrderedOnce
    BY LenProperties DEF StreamInv, GotOrdered, OrderedOnce, TypeOK
  <1> QED
    BY <1>1, StreamInductive, PTL

\* A client's cursor never passes an event of its filter that the outbox still holds
\* and the client has not received, whatever retention removes meanwhile.
THEOREM EventsNotSkipped == Spec => []NothingSkipped
  <1>1. StreamInv => NothingSkipped
    BY DEF StreamInv
  <1> QED
    BY <1>1, StreamInductive, PTL

\* A stream never ends silently: the slot kept free takes the reason, whatever the
\* configured capacity.
THEOREM EndsAreExplained == Spec => []EndIsExplained
  <1>1. StreamInv => EndIsExplained
    BY DEF StreamInv
  <1> QED
    BY <1>1, StreamInductive, PTL

=============================================================================
