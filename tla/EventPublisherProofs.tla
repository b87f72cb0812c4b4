------------------------ MODULE EventPublisherProofs ------------------------
(***************************************************************************)
(* Proofs about EventPublisher, for any number of rows, any batch limit    *)
(* and any capacities, with a broker that keeps the session (Spec): the    *)
(* types and the bounds of the queues, the correlation of packet ids with  *)
(* rows (TrackerMatchesClient), and the two promises of the publication:   *)
(* a row is marked only if the broker has accepted it, and events reach    *)
(* the broker for the first time in order.                                 *)
(*                                                                         *)
(* The argument follows one sequence, Pipe: everything the client still    *)
(* has to get acknowledged, in the order in which it will be: publications *)
(* sent on this connection, publications and requests kept from an earlier *)
(* one, the request channel and the row about to be published.  A          *)
(* reconnection or a retransmission does not change it; a transmission     *)
(* gives its first entry without a packet id the next id; a PUBACK takes   *)
(* its first entry away.                                                   *)
(***************************************************************************)
EXTENDS EventPublisher, SequenceTheorems, FiniteSetTheorems, TLAPS

-----------------------------------------------------------------------------
(* The inductive invariant *)

\* An entry of the pipe: a packet id, or 0, and a row.
RowId == Nat \ {0}
Entry == (0..MaxPkid) \X RowId

\* The i-th entry of o, then p, then the requests r without packet ids, then
\* the row h.
At(o, p, r, h, i) ==
  IF i <= Len(o) THEN o[i]
  ELSE IF i <= Len(o) + Len(p) THEN p[i - Len(o)]
  ELSE IF i <= Len(o) + Len(p) + Len(r) THEN <<0, r[i - Len(o) - Len(p)]>>
  ELSE <<0, h>>

\* With s = 1 the row h is there.
Bit == {0, 1}
PipeOf(o, p, r, h, s) == [i \in 1..(Len(o) + Len(p) + Len(r) + s) |-> At(o, p, r, h, i)]

Pipe ==
  IF pc = "send" THEN PipeOf(outgoing, pending, requests, Head(todo), 1)
                 ELSE PipeOf(outgoing, pending, requests, 1, 0)

\* The packet id given out d publications before l.
Cyc(l, d) == IF d < l THEN l - d ELSE l - d + MaxPkid

\* The first m entries of the pipe have the last m packet ids up to l, f gives
\* their rows and no others, and q lists the rows of the other entries.
Tracks(P, q, f, l, m) ==
  /\ m \in 0..Len(P) /\ m <= MaxPkid /\ (m > 0 => l > 0)
  /\ \A i \in 1..Len(P) : P[i][1] = IF i <= m THEN Cyc(l, m - i) ELSE 0
  /\ Len(q) = Len(P) - m
  /\ \A j \in 1..Len(q) : q[j] = P[m + j][2]
  /\ \A i \in 1..m : f[P[i][1]] = P[i][2]
  /\ \A x \in Pkid : f[x] = 0 \/ \E i \in 1..m : P[i][1] = x

PipeTracked == \E m \in 0..Len(Pipe) : Tracks(Pipe, queued, inflight, last_pkid, m)

\* No row waits twice.
QueueDistinct == \A i, j \in 1..Len(queued) : queued[i] = queued[j] => i = j

\* The row about to be published is there.
SendsRow == pc = "send" => todo # <<>>

\* The rows before an entry of P are in D or in an earlier entry.
InOrder(P, D) ==
  \A i \in 1..Len(P) : \A r \in 1..P[i][2] : r \in D \/ \E j \in 1..i : P[j][2] = r

\* The rows before a fetched row are in D, in P or fetched before it.
FetchedInOrder(P, D, t) ==
  \A i \in 1..Len(t) : \A r \in 1..t[i] :
    \/ r \in D
    \/ \E j \in 1..Len(P) : P[j][2] = r
    \/ \E j \in 1..i : t[j] = r

Settled == delivered \cup Unpublishable

PipeInOrder == InOrder(Pipe, Settled)
TodoInOrder == FetchedInOrder(Pipe, Settled, todo)

\* What the broker has acknowledged, it has accepted.
AcceptedDelivered == \A i \in 1..accepted : outgoing[i][2] \in delivered
AcksDelivered == SeqSet(puback_rx) \cup pending_pubacks \subseteq delivered

PublisherInv ==
  /\ TypeOK
  /\ SendsRow
  /\ PipeTracked
  /\ QueueDistinct
  /\ PipeInOrder
  /\ TodoInOrder
  /\ AcceptedDelivered
  /\ AcksDelivered
  /\ PublishedWasDelivered
  /\ FirstDeliveryInOrder

-----------------------------------------------------------------------------
(* How the pipe changes when its parts do *)

\* Functions on an interval are sequences.
LEMMA FunctionIsSeq ==
  ASSUME NEW S, NEW n \in Nat, NEW f \in [1..n -> S]
  PROVE  f \in Seq(S) /\ Len(f) = n /\ DOMAIN f = 1..n
  OBVIOUS

\* The rest of a sequence.
LEMMA TailFacts ==
  ASSUME NEW S, NEW s \in Seq(S), s # <<>>
  PROVE  /\ Len(s) \in Nat \ {0} /\ Head(s) = s[1] /\ s[1] \in S /\ Tail(s) \in Seq(S)
         /\ Len(Tail(s)) = Len(s) - 1
         /\ \A i \in 1..(Len(s) - 1) : Tail(s)[i] = s[i + 1]
  BY HeadTailProperties, EmptySeq, LenProperties, ElementOfSeq

\* A longer sequence.
LEMMA AppendFacts ==
  ASSUME NEW S, NEW s \in Seq(S), NEW x \in S
  PROVE  /\ Append(s, x) \in Seq(S) /\ Len(s) \in Nat /\ Len(Append(s, x)) = Len(s) + 1
         /\ \A i \in 1..(Len(s) + 1) : Append(s, x)[i] = IF i <= Len(s) THEN s[i] ELSE x
  <1>1. /\ Append(s, x) \in Seq(S) /\ Len(s) \in Nat /\ Len(Append(s, x)) = Len(s) + 1
        /\ \A i \in 1..Len(s) : Append(s, x)[i] = s[i]
        /\ Append(s, x)[Len(s) + 1] = x
    BY AppendProperties, LenProperties
  <1>2. ASSUME NEW i \in 1..(Len(s) + 1)
        PROVE  Append(s, x)[i] = IF i <= Len(s) THEN s[i] ELSE x
    <2>1. i \in 1..Len(s) \/ i = Len(s) + 1
      BY <1>1
    <2> QED
      BY <1>1, <2>1
  <1> QED
    BY <1>1, <1>2

\* P is a sequence of n entries, those of o, p, r and h.
IsPipe(P, n, o, p, r, h) ==
  P \in Seq(Entry) /\ Len(P) = n /\ \A i \in 1..n : P[i] = At(o, p, r, h, i)

\* The pipe is a sequence of entries.
LEMMA PipeIsSeq ==
  ASSUME NEW o \in Seq(Entry), NEW p \in Seq(Entry), NEW r \in Seq(RowId),
         NEW h \in RowId, NEW s \in Bit
  PROVE  IsPipe(PipeOf(o, p, r, h, s), Len(o) + Len(p) + Len(r) + s, o, p, r, h)
  <1> DEFINE n == Len(o) + Len(p) + Len(r) + s
  <1>1. Len(o) \in Nat /\ Len(p) \in Nat /\ Len(r) \in Nat /\ n \in Nat
    BY LenProperties DEF Bit
  <1>2. ASSUME NEW i \in 1..n PROVE At(o, p, r, h, i) \in Entry
    <2>1. CASE i <= Len(o)
      BY <1>1, <2>1, ElementOfSeq DEF At
    <2>2. CASE ~ (i <= Len(o)) /\ i <= Len(o) + Len(p)
      <3>1. i - Len(o) \in 1..Len(p)
        BY <1>1, <2>2
      <3> QED
        BY <2>2, <3>1, ElementOfSeq DEF At
    <2>3. CASE ~ (i <= Len(o)) /\ ~ (i <= Len(o) + Len(p)) /\ i <= Len(o) + Len(p) + Len(r)
      <3>1. i - Len(o) - Len(p) \in 1..Len(r)
        BY <1>1, <2>3
      <3>2. r[i - Len(o) - Len(p)] \in RowId /\ 0 \in 0..MaxPkid
        BY <3>1, ElementOfSeq, PublisherConstants
      <3> QED
        BY <2>3, <3>2 DEF At, Entry
    <2>4. CASE ~ (i <= Len(o)) /\ ~ (i <= Len(o) + Len(p)) /\ ~ (i <= Len(o) + Len(p) + Len(r))
      <3>1. 0 \in 0..MaxPkid
        BY PublisherConstants
      <3> QED
        BY <2>4, <3>1 DEF At, Entry
    <2> QED
      BY <2>1, <2>2, <2>3, <2>4
  <1> HIDE DEF n
  <1>3. PipeOf(o, p, r, h, s) = [i \in 1..n |-> At(o, p, r, h, i)]
    BY DEF PipeOf, n
  <1>4. PipeOf(o, p, r, h, s) \in [1..n -> Entry]
    BY <1>2, <1>3
  <1>5. PipeOf(o, p, r, h, s) \in Seq(Entry) /\ Len(PipeOf(o, p, r, h, s)) = n
    BY <1>1, <1>4, FunctionIsSeq
  <1> QED
    BY <1>1, <1>3, <1>5 DEF IsPipe, n

\* The first entry of p moves to the end of o, perhaps with another packet id.
LEMMA PipeMoves ==
  ASSUME NEW o \in Seq(Entry), NEW p \in Seq(Entry), NEW r \in Seq(RowId),
         NEW h \in RowId, NEW s \in Bit, NEW e \in Entry, p # <<>>
  PROVE  /\ PipeOf(Append(o, e), Tail(p), r, h, s)
              = [PipeOf(o, p, r, h, s) EXCEPT ![Len(o) + 1] = e]
         /\ At(o, p, r, h, Len(o) + 1) = Head(p)
  <1> DEFINE n == Len(o) + Len(p) + Len(r) + s
             k == Len(o) + 1
             a == Append(o, e)
             t == Tail(p)
  <1>1. Len(o) \in Nat /\ Len(p) \in Nat \ {0} /\ Len(r) \in Nat /\ n \in Nat /\ k \in 1..n
    BY LenProperties, EmptySeq DEF Bit
  <1>2. /\ Len(a) = k /\ Len(t) = Len(p) - 1
        /\ \A i \in 1..(Len(o) + 1) : a[i] = IF i <= Len(o) THEN o[i] ELSE e
        /\ \A i \in 1..(Len(p) - 1) : t[i] = p[i + 1]
        /\ Head(p) = p[1]
    BY AppendFacts, TailFacts, SMTT(60)
  <1> HIDE DEF a, t
  <1>3. ASSUME NEW i \in 1..n
        PROVE  At(a, t, r, h, i) = IF i = k THEN e ELSE At(o, p, r, h, i)
    <2>1. CASE i <= k
      BY <1>1, <1>2, <2>1 DEF At
    <2>2. CASE ~ (i <= k) /\ i <= Len(o) + Len(p)
      <3>1. i - k \in 1..(Len(p) - 1) /\ (i - k) + 1 = i - Len(o)
        BY <1>1, <2>2
      <3>2. t[i - k] = p[i - Len(o)]
        BY <1>2, <3>1
      <3> QED
        BY <1>1, <1>2, <2>2, <3>2 DEF At
    <2>3. CASE ~ (i <= Len(o) + Len(p))
      <3>1. i - Len(a) - Len(t) = i - Len(o) - Len(p)
        BY <1>1, <1>2
      <3> QED
        BY <1>1, <1>2, <2>3, <3>1 DEF At
    <2> QED
      BY <1>1, <2>1, <2>2, <2>3
  <1>4. Len(a) + Len(t) + Len(r) + s = n
    BY <1>1, <1>2 DEF Bit
  <1>5. At(o, p, r, h, Len(o) + 1) = Head(p)
    BY <1>1, <1>2 DEF At
  <1> QED
    BY <1>1, <1>3, <1>4, <1>5 DEF PipeOf, a, t

\* The first request moves to the end of o and gets a packet id.
LEMMA PipeTakes ==
  ASSUME NEW o \in Seq(Entry), NEW r \in Seq(RowId),
         NEW h \in RowId, NEW s \in Bit, NEW e \in Entry, r # <<>>
  PROVE  /\ PipeOf(Append(o, e), <<>>, Tail(r), h, s)
              = [PipeOf(o, <<>>, r, h, s) EXCEPT ![Len(o) + 1] = e]
         /\ At(o, <<>>, r, h, Len(o) + 1) = <<0, Head(r)>>
  <1> DEFINE n == Len(o) + Len(<<>>) + Len(r) + s
             k == Len(o) + 1
             a == Append(o, e)
             t == Tail(r)
  <1>0. Len(<<>>) = 0
    BY EmptySeq
  <1>1. Len(o) \in Nat /\ Len(r) \in Nat \ {0} /\ n \in Nat /\ k \in 1..n
    BY <1>0, LenProperties, EmptySeq DEF Bit
  <1>2. /\ Len(a) = k /\ Len(t) = Len(r) - 1
        /\ \A i \in 1..(Len(o) + 1) : a[i] = IF i <= Len(o) THEN o[i] ELSE e
        /\ \A i \in 1..(Len(r) - 1) : t[i] = r[i + 1]
        /\ Head(r) = r[1]
    BY AppendFacts, TailFacts
  <1> HIDE DEF a, t
  <1>3. ASSUME NEW i \in 1..n
        PROVE  At(a, <<>>, t, h, i) = IF i = k THEN e ELSE At(o, <<>>, r, h, i)
    <2>1. CASE i <= k
      BY <1>0, <1>1, <1>2, <2>1 DEF At
    <2>2. CASE ~ (i <= k) /\ i <= Len(o) + Len(r)
      <3>1. i - k - 0 \in 1..(Len(r) - 1) /\ (i - k - 0) + 1 = i - Len(o) - 0
        BY <1>1, <2>2
      <3>2. t[i - k - 0] = r[i - Len(o) - 0]
        BY <1>2, <3>1
      <3>3. At(a, <<>>, t, h, i) = <<0, t[i - k - 0]>>
        BY <1>0, <1>1, <1>2, <2>2 DEF At
      <3>4. At(o, <<>>, r, h, i) = <<0, r[i - Len(o) - 0]>>
        BY <1>0, <1>1, <2>2 DEF At
      <3> QED
        BY <1>1, <2>2, <3>2, <3>3, <3>4
    <2>3. CASE ~ (i <= Len(o) + Len(r))
      BY <1>0, <1>1, <1>2, <2>3 DEF At
    <2> QED
      BY <1>1, <2>1, <2>2, <2>3
  <1>4. Len(a) + Len(<<>>) + Len(t) + s = n
    BY <1>0, <1>1, <1>2 DEF Bit
  <1>5. At(o, <<>>, r, h, Len(o) + 1) = <<0, Head(r)>>
    <2>1. (Len(o) + 1) - Len(o) - 0 = 1
      BY <1>1
    <2> QED
      BY <1>0, <1>1, <1>2, <2>1 DEF At
  <1> QED
    BY <1>1, <1>3, <1>4, <1>5 DEF PipeOf, a, t

\* The first entry is taken away.
LEMMA PipeDrops ==
  ASSUME NEW o \in Seq(Entry), NEW p \in Seq(Entry), NEW r \in Seq(RowId),
         NEW h \in RowId, NEW s \in Bit, o # <<>>
  PROVE  PipeOf(Tail(o), p, r, h, s) = Tail(PipeOf(o, p, r, h, s))
  <1> DEFINE n == Len(o) + Len(p) + Len(r) + s
             a == Tail(o)
             P == PipeOf(o, p, r, h, s)
             Q == PipeOf(a, p, r, h, s)
  <1>1. Len(o) \in Nat \ {0} /\ Len(p) \in Nat /\ Len(r) \in Nat /\ n \in Nat \ {0}
    BY LenProperties, EmptySeq DEF Bit
  <1>2. /\ a \in Seq(Entry) /\ Len(a) = Len(o) - 1
        /\ \A i \in 1..(Len(o) - 1) : a[i] = o[i + 1]
    BY TailFacts
  <1> HIDE DEF a
  <1>3. /\ P \in Seq(Entry) /\ Len(P) = n /\ Q \in Seq(Entry) /\ Len(Q) = n - 1
        /\ \A i \in 1..n : P[i] = At(o, p, r, h, i)
        /\ \A i \in 1..(n - 1) : Q[i] = At(a, p, r, h, i)
    <2>1. P \in Seq(Entry) /\ Len(P) = n /\ \A i \in 1..n : P[i] = At(o, p, r, h, i)
      BY PipeIsSeq DEF IsPipe
    <2>2. n - 1 = Len(a) + Len(p) + Len(r) + s
      BY <1>1, <1>2 DEF Bit
    <2>3. /\ Q \in Seq(Entry) /\ Len(Q) = n - 1
          /\ \A i \in 1..(n - 1) : Q[i] = At(a, p, r, h, i)
      <3>1. IsPipe(Q, Len(a) + Len(p) + Len(r) + s, a, p, r, h)
        BY <1>2, PipeIsSeq
      <3> QED
        BY <2>2, <3>1 DEF IsPipe
    <2> QED
      BY <2>1, <2>3
  <1>4. ASSUME NEW i \in 1..(n - 1) PROVE At(a, p, r, h, i) = At(o, p, r, h, i + 1)
    <2>1. CASE i <= Len(o) - 1
      <3>1. a[i] = o[i + 1] /\ i + 1 <= Len(o) /\ i <= Len(a)
        BY <1>1, <1>2, <2>1
      <3> QED
        BY <3>1 DEF At
    <2>2. CASE ~ (i <= Len(o) - 1) /\ i <= Len(o) - 1 + Len(p)
      <3>1. i - (Len(o) - 1) = (i + 1) - Len(o)
        BY <1>1
      <3> QED
        BY <1>1, <1>2, <2>2, <3>1 DEF At
    <2>3. CASE ~ (i <= Len(o) - 1 + Len(p))
      <3>1. i - (Len(o) - 1) - Len(p) = (i + 1) - Len(o) - Len(p)
        BY <1>1
      <3> QED
        BY <1>1, <1>2, <2>3, <3>1 DEF At
    <2> QED
      BY <1>1, <1>2, <2>1, <2>2, <2>3
  <1> HIDE DEF n, P, Q
  <1>5. P # <<>>
    BY <1>1, <1>3, EmptySeq
  <1>6. Tail(P) \in Seq(Entry) /\ Len(Tail(P)) = n - 1 /\ \A i \in 1..(n - 1) : Tail(P)[i] = P[i + 1]
    BY <1>3, <1>5, TailFacts
  <1>7. \A i \in 1..(n - 1) : Tail(P)[i] = Q[i]
    <2> SUFFICES ASSUME NEW i \in 1..(n - 1) PROVE Tail(P)[i] = Q[i]
      OBVIOUS
    <2>1. i + 1 \in 1..n
      BY <1>1
    <2> QED
      BY <1>3, <1>4, <1>6, <2>1
  <1>8. Tail(P) = Q
    BY <1>3, <1>6, <1>7, SeqEqual
  <1> QED
    BY <1>8 DEF P, Q, a

\* The row h joins the pipe, before it is handed to the client and after.
LEMMA PipeGrows ==
  ASSUME NEW o \in Seq(Entry), NEW p \in Seq(Entry), NEW r \in Seq(RowId),
         NEW h \in RowId, NEW g \in RowId
  PROVE  /\ PipeOf(o, p, r, h, 1) = Append(PipeOf(o, p, r, g, 0), <<0, h>>)
         /\ PipeOf(o, p, Append(r, h), g, 0) = PipeOf(o, p, r, h, 1)
  <1> DEFINE n == Len(o) + Len(p) + Len(r)
             P == PipeOf(o, p, r, g, 0)
             Q == PipeOf(o, p, r, h, 1)
             a == Append(r, h)
             R == PipeOf(o, p, a, g, 0)
  <1>1. /\ Len(o) \in Nat /\ Len(p) \in Nat /\ Len(r) \in Nat /\ n \in Nat
        /\ n = Len(o) + Len(p) + Len(r) + 0 /\ 0 \in Bit /\ 1 \in Bit
    BY LenProperties DEF Bit
  <1>2. /\ a \in Seq(RowId) /\ Len(a) = Len(r) + 1
        /\ \A i \in 1..(Len(r) + 1) : a[i] = IF i <= Len(r) THEN r[i] ELSE h
    BY AppendFacts
  <1> HIDE DEF a
  <1>3. P \in Seq(Entry) /\ Len(P) = n /\ \A i \in 1..n : P[i] = At(o, p, r, g, i)
    <2>1. IsPipe(P, Len(o) + Len(p) + Len(r) + 0, o, p, r, g)
      BY <1>1, PipeIsSeq
    <2> QED
      BY <1>1, <2>1 DEF IsPipe
  <1>4. Q \in Seq(Entry) /\ Len(Q) = n + 1 /\ \A i \in 1..(n + 1) : Q[i] = At(o, p, r, h, i)
    <2>1. IsPipe(Q, Len(o) + Len(p) + Len(r) + 1, o, p, r, h)
      BY <1>1, PipeIsSeq
    <2> QED
      BY <2>1 DEF IsPipe
  <1>5. R \in Seq(Entry) /\ Len(R) = n + 1 /\ \A i \in 1..(n + 1) : R[i] = At(o, p, a, g, i)
    <2>1. n + 1 = Len(o) + Len(p) + Len(a) + 0
      BY <1>1, <1>2
    <2>2. IsPipe(R, Len(o) + Len(p) + Len(a) + 0, o, p, a, g)
      BY <1>1, <1>2, PipeIsSeq
    <2> QED
      BY <2>1, <2>2 DEF IsPipe
  <1>6. ASSUME NEW i \in 1..(n + 1)
        PROVE  /\ At(o, p, a, g, i) = At(o, p, r, h, i)
               /\ At(o, p, r, h, i) = IF i <= n THEN At(o, p, r, g, i) ELSE <<0, h>>
    <2>1. CASE i <= Len(o) + Len(p)
      BY <1>1, <2>1 DEF At
    <2>2. CASE ~ (i <= Len(o) + Len(p))
      <3>1. i - Len(o) - Len(p) \in 1..(Len(r) + 1) /\ (i - Len(o) - Len(p) <= Len(r) <=> i <= n)
        BY <1>1, <2>2
      <3>2. a[i - Len(o) - Len(p)] = IF i <= n THEN r[i - Len(o) - Len(p)] ELSE h
        BY <1>2, <3>1
      <3>3. At(o, p, a, g, i) = <<0, a[i - Len(o) - Len(p)]>>
        BY <1>1, <1>2, <2>2 DEF At
      <3>4. /\ At(o, p, r, h, i) = IF i <= n THEN <<0, r[i - Len(o) - Len(p)]>> ELSE <<0, h>>
            /\ i <= n => At(o, p, r, g, i) = <<0, r[i - Len(o) - Len(p)]>>
        BY <1>1, <2>2 DEF At
      <3> QED
        BY <3>2, <3>3, <3>4
    <2> QED
      BY <2>1, <2>2
  <1> HIDE DEF n, P, Q, R
  <1>7. R = Q
    BY <1>1, <1>4, <1>5, <1>6, SeqEqual
  <1>8. <<0, h>> \in Entry
    BY PublisherConstants DEF Entry
  <1>9. /\ Append(P, <<0, h>>) \in Seq(Entry) /\ Len(Append(P, <<0, h>>)) = n + 1
        /\ \A i \in 1..(n + 1) : Append(P, <<0, h>>)[i] = IF i <= n THEN P[i] ELSE <<0, h>>
    BY <1>3, <1>8, AppendFacts
  <1>10. ASSUME NEW i \in 1..(n + 1) PROVE Append(P, <<0, h>>)[i] = Q[i]
    <2>1. i <= n => i \in 1..n
      BY <1>1
    <2>2. Q[i] = IF i <= n THEN P[i] ELSE <<0, h>>
      BY <1>3, <1>4, <1>6, <2>1, Zenon
    <2> QED
      BY <1>9, <2>2, Zenon
  <1>11. Append(P, <<0, h>>) = Q
    BY <1>4, <1>9, <1>10, SeqEqual
  <1> QED
    BY <1>7, <1>11 DEF P, Q, R, a

\* The connection breaks: everything but the row about to be published waits.
LEMMA PipeWaits ==
  ASSUME NEW o \in Seq(Entry), NEW p \in Seq(Entry), NEW r \in Seq(RowId),
         NEW h \in RowId, NEW s \in Bit
  PROVE  PipeOf(<<>>, o \o p \o [i \in DOMAIN r |-> <<0, r[i]>>], <<>>, h, s)
           = PipeOf(o, p, r, h, s)
  <1> DEFINE n == Len(o) + Len(p) + Len(r)
             z == [i \in DOMAIN r |-> <<0, r[i]>>]
             w == o \o p \o z
  <1>1. Len(o) \in Nat /\ Len(p) \in Nat /\ Len(r) \in Nat /\ n \in Nat /\ Len(<<>>) = 0 /\ DOMAIN r = 1..Len(r)
    BY LenProperties, EmptySeq
  <1>2. z \in Seq(Entry) /\ Len(z) = Len(r) /\ \A i \in 1..Len(r) : z[i] = <<0, r[i]>>
    <2>1. \A i \in 1..Len(r) : <<0, r[i]>> \in Entry
      BY ElementOfSeq, PublisherConstants DEF Entry
    <2>2. z \in [1..Len(r) -> Entry]
      BY <1>1, <2>1
    <2>3. \A i \in 1..Len(r) : z[i] = <<0, r[i]>>
      BY <1>1
    <2> HIDE DEF z
    <2>4. z \in Seq(Entry) /\ Len(z) = Len(r)
      BY <1>1, <2>2, FunctionIsSeq
    <2> QED
      BY <2>3, <2>4
  <1> HIDE DEF z
  <1>3. /\ o \o p \in Seq(Entry) /\ Len(o \o p) = Len(o) + Len(p)
        /\ \A i \in 1..(Len(o) + Len(p)) : (o \o p)[i] = IF i <= Len(o) THEN o[i] ELSE p[i - Len(o)]
    BY ConcatProperties
  <1>4. /\ w \in Seq(Entry) /\ Len(w) = n
        /\ \A i \in 1..n : w[i] = IF i <= Len(o \o p) THEN (o \o p)[i] ELSE z[i - Len(o \o p)]
    <2> DEFINE y == o \o p
    <2>1. Len(y) = Len(o) + Len(p) /\ y \in Seq(Entry)
      BY <1>3
    <2> HIDE DEF y
    <2>2. n = Len(y) + Len(z)
      BY <1>2, <2>1
    <2>3. /\ y \o z \in Seq(Entry) /\ Len(y \o z) = n
          /\ \A i \in 1..n : (y \o z)[i] = IF i <= Len(y) THEN y[i] ELSE z[i - Len(y)]
      BY <1>2, <2>1, <2>2, ConcatProperties, Zenon
    <2> QED
      BY <2>3 DEF y
  <1> HIDE DEF w
  <1>5. ASSUME NEW i \in 1..(n + s) PROVE At(<<>>, w, <<>>, h, i) = At(o, p, r, h, i)
    <2>1. CASE i <= Len(o) + Len(p)
      <3>1. At(<<>>, w, <<>>, h, i) = w[i - 0]
        BY <1>1, <1>4, <2>1 DEF At
      <3>2. i - 0 = i /\ i \in 1..(Len(o) + Len(p)) /\ i \in 1..n
        BY <1>1, <2>1
      <3>3. w[i] = IF i <= Len(o) THEN o[i] ELSE p[i - Len(o)]
        BY <1>3, <1>4, <3>2
      <3> QED
        BY <2>1, <3>1, <3>2, <3>3 DEF At
    <2>2. CASE ~ (i <= Len(o) + Len(p)) /\ i <= n
      <3>1. At(<<>>, w, <<>>, h, i) = w[i - 0]
        BY <1>1, <1>4, <2>2 DEF At
      <3>2. i - 0 = i /\ i \in 1..n /\ i - (Len(o) + Len(p)) \in 1..Len(r)
            /\ i - (Len(o) + Len(p)) = i - Len(o) - Len(p)
        BY <1>1, <2>2
      <3>3. w[i] = <<0, r[i - Len(o) - Len(p)]>>
        BY <1>2, <1>3, <1>4, <2>2, <3>2
      <3>4. At(o, p, r, h, i) = <<0, r[i - Len(o) - Len(p)]>>
        BY <1>1, <2>2 DEF At
      <3> QED
        BY <3>1, <3>2, <3>3, <3>4
    <2>3. CASE ~ (i <= n)
      BY <1>1, <1>4, <2>3 DEF At
    <2> QED
      BY <1>1, <2>1, <2>2, <2>3
  <1>6. Len(<<>>) + Len(w) + Len(<<>>) + s = n + s
    BY <1>1, <1>4 DEF Bit
  <1> QED
    BY <1>5, <1>6 DEF PipeOf, w, z

-----------------------------------------------------------------------------
(* How the tracker follows the pipe *)

\* The packet id after l.
After(l) == IF l = MaxPkid THEN 1 ELSE l + 1

\* The last MaxPkid packet ids differ, and the next one is the oldest.
LEMMA CycFacts ==
  ASSUME NEW l \in 1..MaxPkid, NEW d \in 0..(MaxPkid - 1)
  PROVE  /\ Cyc(l, d) \in Pkid
         /\ \A c \in 0..(MaxPkid - 1) : Cyc(l, c) = Cyc(l, d) => c = d
         /\ d < MaxPkid - 1 => Cyc(After(l), d + 1) = Cyc(l, d) /\ Cyc(l, d) # After(l)
  BY PublisherConstants DEF Cyc, After, Pkid

\* A packet id given out now.
LEMMA AfterFacts ==
  ASSUME NEW l \in 0..MaxPkid
  PROVE  After(l) \in Pkid /\ After(l) \in 1..MaxPkid /\ Cyc(After(l), 0) = After(l)
  BY PublisherConstants DEF Cyc, After, Pkid

\* The entries with a packet id are the first m.
Numbered(P, l, m) ==
  /\ m \in 0..Len(P) /\ Len(P) \in Nat /\ m <= MaxPkid
  /\ \A i \in 1..Len(P) : P[i][1] = 0 <=> ~ (i <= m)
  /\ \A i \in 1..m :
       i \in 1..Len(P) /\ P[i][1] \in Pkid /\ P[i][1] = Cyc(l, m - i) /\ l \in 1..MaxPkid

\* What the tracker follows is numbered.
LEMMA TracksIds ==
  ASSUME NEW P \in Seq(Entry), NEW q, NEW f, NEW l \in 0..MaxPkid, NEW m, Tracks(P, q, f, l, m)
  PROVE  Numbered(P, l, m)
  <1>1. Len(P) \in Nat /\ m \in 0..Len(P) /\ m <= MaxPkid /\ MaxPkid \in Nat
    BY LenProperties, PublisherConstants DEF Tracks
  <1>2. ASSUME NEW i \in 1..m
        PROVE  i \in 1..Len(P) /\ P[i][1] \in Pkid /\ P[i][1] = Cyc(l, m - i) /\ l \in 1..MaxPkid
    <2>1. i \in 1..Len(P) /\ i <= m /\ m > 0 /\ m - i \in 0..(MaxPkid - 1)
      BY <1>1
    <2>2. l \in 1..MaxPkid
      BY <1>1, <2>1 DEF Tracks
    <2>3. P[i][1] = Cyc(l, m - i)
      BY <2>1 DEF Tracks
    <2> QED
      BY <2>1, <2>2, <2>3, CycFacts
  <1>3. ASSUME NEW i \in 1..Len(P) PROVE P[i][1] = 0 <=> ~ (i <= m)
    <2>1. i <= m => P[i][1] \in Pkid
      BY <1>1, <1>2
    <2>2. ~ (i <= m) => P[i][1] = 0
      BY DEF Tracks
    <2>3. 0 \notin Pkid
      BY DEF Pkid
    <2> QED
      BY <2>1, <2>2, <2>3
  <1> QED
    BY <1>1, <1>2, <1>3 DEF Numbered

\* A transmission: the first entry without a packet id gets the next one, which
\* is free, and the tracker moves the head of its queue to that packet id.
LEMMA TracksSend ==
  ASSUME NEW P \in Seq(Entry), NEW q \in Seq(RowId), NEW f \in [Pkid -> Nat], NEW l \in 0..MaxPkid,
         NEW m, Tracks(P, q, f, l, m), m < Len(P), m < MaxPkid
  PROVE  /\ q # <<>> /\ Head(q) = P[m + 1][2] /\ f[After(l)] = 0
         /\ Tracks([P EXCEPT ![m + 1] = <<After(l), P[m + 1][2]>>], Tail(q),
                   [f EXCEPT ![After(l)] = Head(q)], After(l), m + 1)
  <1> DEFINE x == After(l)
             v == P[m + 1][2]
             Q == [P EXCEPT ![m + 1] = <<x, v>>]
             g == [f EXCEPT ![x] = Head(q)]
             n == Len(P)
  <1>1. /\ m \in Nat /\ n \in Nat /\ m + 1 \in 1..n /\ MaxPkid \in Nat
        /\ \A i \in 1..m : i \in 1..n /\ P[i][1] \in Pkid /\ P[i][1] = Cyc(l, m - i) /\ l \in 1..MaxPkid
    <2>1. Numbered(P, l, m)
      BY TracksIds
    <2> QED
      BY <2>1, PublisherConstants DEF Numbered
  <1>2. x \in Pkid /\ x \in 1..MaxPkid /\ Cyc(x, 0) = x
    BY AfterFacts
  <1>3. /\ Len(q) = n - m /\ \A j \in 1..Len(q) : q[j] = P[m + j][2]
        /\ \A i \in 1..m : f[P[i][1]] = P[i][2]
        /\ \A y \in Pkid : f[y] = 0 \/ \E i \in 1..m : P[i][1] = y
        /\ \A i \in 1..n : ~ (i <= m) => P[i][1] = 0
    BY DEF Tracks
  <1>4. q # <<>>
    BY <1>1, <1>3, EmptySeq
  <1>5. /\ Head(q) = q[1] /\ Tail(q) \in Seq(RowId) /\ Len(Tail(q)) = Len(q) - 1
        /\ \A i \in 1..(Len(q) - 1) : Tail(q)[i] = q[i + 1]
    BY <1>4, TailFacts
  <1>6. Head(q) = v
    <2>1. 1 \in 1..Len(q)
      BY <1>1, <1>3
    <2> QED
      BY <1>3, <1>5, <2>1
  <1>7. <<x, v>> \in Entry
    <2>1. P[m + 1] \in Entry
      BY <1>1, ElementOfSeq
    <2>2. x \in 0..MaxPkid
      BY <1>1, <1>2
    <2> QED
      BY <2>1, <2>2 DEF Entry
  <1>8. /\ Q \in Seq(Entry) /\ Len(Q) = n
        /\ \A j \in 1..n : Q[j] = IF j = m + 1 THEN <<x, v>> ELSE P[j]
    BY <1>1, <1>7, ExceptSeq
  <1> HIDE DEF x, v, Q, n, g
  <1>9. ASSUME NEW i \in 1..m
        PROVE  P[i][1] # x /\ P[i][1] = Cyc(x, (m + 1) - i) /\ Q[i] = P[i]
    <2>1. m - i \in 0..(MaxPkid - 1) /\ m - i < MaxPkid - 1 /\ (m + 1) - i = (m - i) + 1 /\ i # m + 1
      BY <1>1
    <2>2. P[i][1] = Cyc(l, m - i) /\ l \in 1..MaxPkid /\ i \in 1..n
      BY <1>1
    <2>3. Cyc(x, (m - i) + 1) = Cyc(l, m - i) /\ Cyc(l, m - i) # x
      BY <2>1, <2>2, CycFacts DEF x
    <2>4. P[i][1] # x /\ P[i][1] = Cyc(x, (m + 1) - i)
      BY <2>1, <2>2, <2>3
    <2> QED
      BY <1>8, <2>1, <2>2, <2>4
  <1>10. f[x] = 0
    BY <1>2, <1>3, <1>9
  <1>11. /\ g[x] = v /\ \A y \in Pkid : y # x => g[y] = f[y]
    BY <1>2, <1>6 DEF g
  <1>12. Q[m + 1][1] = x /\ Q[m + 1][2] = v /\ (m + 1) - (m + 1) = 0
    BY <1>1, <1>8
  <1>13. ASSUME NEW i \in 1..(m + 1) PROVE i \in 1..m \/ i = m + 1
    BY <1>1
  <1>14. ASSUME NEW i \in 1..n
         PROVE  Q[i][1] = IF i <= m + 1 THEN Cyc(x, (m + 1) - i) ELSE 0
    <2>1. CASE i \in 1..m
      <3>1. i <= m + 1
        BY <1>1, <2>1
      <3> QED
        BY <1>9, <2>1, <3>1
    <2>2. CASE i = m + 1
      BY <1>1, <1>2, <1>12, <2>2
    <2>3. CASE ~ (i <= m + 1)
      <3>1. ~ (i <= m) /\ i # m + 1
        BY <1>1, <2>3
      <3> QED
        BY <1>3, <1>8, <2>3, <3>1
    <2> QED
      BY <1>1, <2>1, <2>2, <2>3
  <1>15. ASSUME NEW j \in 1..(Len(q) - 1) PROVE Tail(q)[j] = Q[(m + 1) + j][2]
    <2>1. j + 1 \in 1..Len(q) /\ (m + 1) + j = m + (j + 1) /\ (m + 1) + j \in 1..n /\ (m + 1) + j # m + 1
      BY <1>1, <1>3
    <2>2. Tail(q)[j] = P[m + (j + 1)][2]
      BY <1>3, <1>5, <2>1
    <2> QED
      BY <1>8, <2>1, <2>2
  <1>16. ASSUME NEW i \in 1..(m + 1) PROVE g[Q[i][1]] = Q[i][2]
    <2>1. CASE i \in 1..m
      <3>1. P[i][1] \in Pkid /\ f[P[i][1]] = P[i][2] /\ P[i][1] # x /\ Q[i] = P[i]
        BY <1>1, <1>3, <1>9, <2>1
      <3> QED
        BY <1>11, <3>1
    <2>2. CASE i = m + 1
      BY <1>11, <1>12, <2>2
    <2> QED
      BY <1>13, <2>1, <2>2
  <1>17. ASSUME NEW y \in Pkid PROVE g[y] = 0 \/ \E i \in 1..(m + 1) : Q[i][1] = y
    <2>1. CASE y = x
      BY <1>1, <1>12, <2>1
    <2>2. CASE y # x /\ f[y] # 0
      <3>1. PICK i \in 1..m : P[i][1] = y
        BY <1>3, <2>2
      <3>2. i \in 1..(m + 1) /\ Q[i][1] = y
        BY <1>1, <1>9, <3>1, SMTT(60)
      <3> QED
        BY <3>2
    <2> QED
      BY <1>11, <2>1, <2>2
  <1>18. /\ m + 1 \in 0..Len(Q) /\ m + 1 <= MaxPkid /\ (m + 1 > 0 => x > 0)
         /\ Len(Tail(q)) = Len(Q) - (m + 1) /\ Len(Tail(q)) = Len(q) - 1
    BY <1>1, <1>2, <1>3, <1>5, <1>8
  <1>19. Tracks(Q, Tail(q), g, x, m + 1)
    BY <1>8, <1>14, <1>15, <1>16, <1>17, <1>18 DEF Tracks
  <1> QED
    BY <1>4, <1>6, <1>10, <1>19 DEF Q, g, x, v

\* A PUBACK for the first entry.
LEMMA TracksAck ==
  ASSUME NEW P \in Seq(Entry), NEW q, NEW f \in [Pkid -> Nat], NEW l \in 0..MaxPkid,
         NEW m, Tracks(P, q, f, l, m), m > 0
  PROVE  /\ f[P[1][1]] = P[1][2] /\ P[1][1] \in Pkid
         /\ Tracks(Tail(P), q, [f EXCEPT ![P[1][1]] = 0], l, m - 1)
  <1> DEFINE x == P[1][1]
             Q == Tail(P)
             g == [f EXCEPT ![x] = 0]
             n == Len(P)
  <1>1. /\ m \in Nat /\ n \in Nat /\ m <= n /\ n > 0 /\ MaxPkid \in Nat /\ m <= MaxPkid
        /\ \A i \in 1..m : i \in 1..n /\ P[i][1] \in Pkid /\ P[i][1] = Cyc(l, m - i) /\ l \in 1..MaxPkid
    <2>1. Numbered(P, l, m)
      BY TracksIds
    <2> QED
      BY <2>1, PublisherConstants DEF Numbered
  <1>2. /\ Len(q) = n - m /\ \A j \in 1..Len(q) : q[j] = P[m + j][2]
        /\ \A i \in 1..m : f[P[i][1]] = P[i][2]
        /\ \A y \in Pkid : f[y] = 0 \/ \E i \in 1..m : P[i][1] = y
        /\ \A i \in 1..n : P[i][1] = IF i <= m THEN Cyc(l, m - i) ELSE 0
    BY DEF Tracks
  <1>3. P # <<>>
    BY <1>1, EmptySeq
  <1>4. Q \in Seq(Entry) /\ Len(Q) = n - 1 /\ \A i \in 1..(n - 1) : Q[i] = P[i + 1]
    BY <1>3, TailFacts
  <1>5. 1 \in 1..m /\ x \in Pkid /\ f[x] = P[1][2]
    BY <1>1, <1>2
  <1> HIDE DEF x, Q, n, g
  <1>6. ASSUME NEW i \in 1..m, i # 1 PROVE P[i][1] # x
    <2>1. m - i \in 0..(MaxPkid - 1) /\ m - 1 \in 0..(MaxPkid - 1) /\ m - i # m - 1
      BY <1>1, <1>6
    <2>2. P[i][1] = Cyc(l, m - i) /\ x = Cyc(l, m - 1) /\ l \in 1..MaxPkid
      BY <1>1, <1>5 DEF x
    <2> QED
      BY <2>1, <2>2, CycFacts
  <1>7. g[x] = 0 /\ \A y \in Pkid : y # x => g[y] = f[y]
    BY <1>5 DEF g
  <1>8. ASSUME NEW i \in 1..(n - 1)
        PROVE  Q[i][1] = IF i <= m - 1 THEN Cyc(l, (m - 1) - i) ELSE 0
    <2>1. i + 1 \in 1..n /\ (i <= m - 1 <=> i + 1 <= m) /\ (m - 1) - i = m - (i + 1)
      BY <1>1
    <2> QED
      BY <1>2, <1>4, <2>1
  <1>9. ASSUME NEW j \in 1..Len(q) PROVE q[j] = Q[(m - 1) + j][2]
    <2>1. (m - 1) + j \in 1..(n - 1) /\ ((m - 1) + j) + 1 = m + j
      BY <1>1, <1>2
    <2> QED
      BY <1>2, <1>4, <2>1
  <1>10. ASSUME NEW i \in 1..(m - 1) PROVE g[Q[i][1]] = Q[i][2]
    <2>1. i \in 1..(n - 1) /\ i + 1 \in 1..m /\ i + 1 # 1
      BY <1>1
    <2>2. Q[i] = P[i + 1] /\ P[i + 1][1] \in Pkid /\ P[i + 1][1] # x
      BY <1>1, <1>4, <1>6, <2>1
    <2> QED
      BY <1>2, <1>7, <2>1, <2>2
  <1>11. ASSUME NEW y \in Pkid PROVE g[y] = 0 \/ \E i \in 1..(m - 1) : Q[i][1] = y
    <2>1. CASE y # x /\ f[y] # 0
      <3>1. PICK i \in 1..m : P[i][1] = y
        BY <1>2, <2>1
      <3>2. i # 1
        BY <2>1, <3>1 DEF x
      <3>3. i - 1 \in 1..(m - 1) /\ i - 1 \in 1..(n - 1) /\ (i - 1) + 1 = i
        BY <1>1, <3>2
      <3>4. Q[i - 1][1] = y
        BY <1>4, <3>1, <3>3
      <3> QED
        BY <3>3, <3>4
    <2> QED
      BY <1>7, <2>1
  <1>12. /\ m - 1 \in 0..Len(Q) /\ m - 1 <= MaxPkid /\ Len(q) = Len(Q) - (m - 1)
         /\ (m - 1 > 0 => l > 0)
    BY <1>1, <1>2, <1>4, <1>5
  <1>13. Tracks(Q, q, g, l, m - 1)
    BY <1>4, <1>8, <1>9, <1>10, <1>11, <1>12 DEF Tracks
  <1> QED
    BY <1>5, <1>13 DEF Q, g, x

\* A row joins the pipe and the queue.
LEMMA TracksQueue ==
  ASSUME NEW P \in Seq(Entry), NEW q \in Seq(RowId), NEW f, NEW l \in 0..MaxPkid,
         NEW m, Tracks(P, q, f, l, m), NEW r \in RowId
  PROVE  Tracks(Append(P, <<0, r>>), Append(q, r), f, l, m)
  <1> DEFINE Q == Append(P, <<0, r>>)
             b == Append(q, r)
             n == Len(P)
  <1>1. n \in Nat /\ m \in 0..n
    BY LenProperties DEF Tracks
  <1>2. /\ m <= MaxPkid /\ (m > 0 => l > 0)
        /\ Len(q) = n - m /\ \A j \in 1..Len(q) : q[j] = P[m + j][2]
        /\ \A i \in 1..m : f[P[i][1]] = P[i][2]
        /\ \A y \in Pkid : f[y] = 0 \/ \E i \in 1..m : P[i][1] = y
        /\ \A i \in 1..n : P[i][1] = IF i <= m THEN Cyc(l, m - i) ELSE 0
    BY DEF Tracks
  <1>3. <<0, r>> \in Entry
    BY PublisherConstants DEF Entry
  <1>4. /\ Len(Q) = n + 1 /\ \A i \in 1..(n + 1) : Q[i] = IF i <= n THEN P[i] ELSE <<0, r>>
        /\ Len(b) = Len(q) + 1 /\ \A i \in 1..(Len(q) + 1) : b[i] = IF i <= Len(q) THEN q[i] ELSE r
    BY <1>3, AppendFacts
  <1> HIDE DEF Q, b, n
  <1>5. ASSUME NEW i \in 1..n PROVE Q[i] = P[i]
    BY <1>1, <1>4
  <1>6. Q[n + 1][1] = 0 /\ Q[n + 1][2] = r /\ b[Len(q) + 1] = r /\ m + (Len(q) + 1) = n + 1
    <2>1. n + 1 \in 1..(n + 1) /\ ~ (n + 1 <= n) /\ Len(q) \in Nat /\ m + (Len(q) + 1) = n + 1
      BY <1>1, <1>2
    <2>2. Len(q) + 1 \in 1..(Len(q) + 1) /\ ~ (Len(q) + 1 <= Len(q))
      BY <2>1
    <2>3. Q[n + 1] = <<0, r>> /\ b[Len(q) + 1] = r
      BY <1>4, <2>1, <2>2
    <2> QED
      BY <2>1, <2>3
  <1>7. ASSUME NEW i \in 1..(n + 1) PROVE Q[i][1] = IF i <= m THEN Cyc(l, m - i) ELSE 0
    <2>1. i \in 1..n \/ (i = n + 1 /\ ~ (i <= m))
      BY <1>1
    <2> QED
      BY <1>2, <1>5, <1>6, <2>1
  <1>8. ASSUME NEW j \in 1..(Len(q) + 1) PROVE b[j] = Q[m + j][2]
    <2>0. Len(q) \in Nat
      BY <1>1, <1>2
    <2>1. CASE j \in 1..Len(q)
      <3>1. m + j \in 1..n /\ j <= Len(q)
        BY <1>1, <1>2, <2>1
      <3> QED
        BY <1>2, <1>4, <1>5, <2>1, <3>1
    <2>2. CASE j = Len(q) + 1
      BY <1>6, <2>2
    <2> QED
      BY <2>0, <2>1, <2>2
  <1>9. \A i \in 1..m : i \in 1..n /\ Q[i] = P[i]
    BY <1>1, <1>5
  <1>10. m \in 0..Len(Q) /\ Len(b) = Len(Q) - m
    BY <1>1, <1>2, <1>4
  <1>11. /\ \A i \in 1..m : f[Q[i][1]] = Q[i][2]
         /\ \A y \in Pkid : f[y] = 0 \/ \E i \in 1..m : Q[i][1] = y
    BY <1>2, <1>9
  <1>12. /\ \A i \in 1..Len(Q) : Q[i][1] = IF i <= m THEN Cyc(l, m - i) ELSE 0
         /\ \A j \in 1..Len(b) : b[j] = Q[m + j][2]
    BY <1>4, <1>7, <1>8
  <1>13. Tracks(Q, b, f, l, m)
    BY <1>2, <1>10, <1>11, <1>12 DEF Tracks
  <1> QED
    BY <1>13 DEF Q, b

\* The last row leaves the pipe P and the queue q.
LEMMA TracksUnqueue ==
  ASSUME NEW P \in Seq(Entry), NEW q \in Seq(RowId), NEW f, NEW l \in 0..MaxPkid, NEW m,
         NEW r \in RowId, NEW b \in Seq(RowId), Tracks(Append(P, <<0, r>>), q, f, l, m),
         Len(b) = Len(q) - 1, \A i \in 1..Len(b) : b[i] = q[i]
  PROVE  Tracks(P, b, f, l, m) /\ q # <<>> /\ q[Len(q)] = r
  <1> DEFINE Q == Append(P, <<0, r>>)
             n == Len(P)
  <1>1. <<0, r>> \in Entry
    BY PublisherConstants DEF Entry
  <1>2. Q \in Seq(Entry) /\ n \in Nat /\ Len(Q) = n + 1
        /\ \A i \in 1..(n + 1) : Q[i] = IF i <= n THEN P[i] ELSE <<0, r>>
    BY <1>1, AppendFacts
  <1>3. m \in Nat /\ m <= n + 1 /\ \A i \in 1..(n + 1) : Q[i][1] = 0 <=> ~ (i <= m)
    <2>1. Numbered(Q, l, m)
      BY <1>2, TracksIds
    <2> HIDE DEF Q
    <2> QED
      BY <1>2, <2>1 DEF Numbered
  <1>4. /\ m <= MaxPkid /\ (m > 0 => l > 0)
        /\ Len(q) = (n + 1) - m /\ \A j \in 1..Len(q) : q[j] = Q[m + j][2]
        /\ \A i \in 1..m : f[Q[i][1]] = Q[i][2]
        /\ \A y \in Pkid : f[y] = 0 \/ \E i \in 1..m : Q[i][1] = y
        /\ \A i \in 1..(n + 1) : Q[i][1] = IF i <= m THEN Cyc(l, m - i) ELSE 0
    BY <1>2 DEF Tracks
  <1> HIDE DEF Q, n
  <1>5. \A i \in 1..n : i \in 1..(n + 1) /\ Q[i] = P[i]
    BY <1>2
  <1>6. Q[n + 1][1] = 0 /\ Q[n + 1][2] = r /\ n + 1 \in 1..(n + 1)
    BY <1>2
  <1>7. m \in 0..n
    BY <1>2, <1>3, <1>6
  <1>8. Len(b) = n - m /\ Len(q) \in 1..Len(q) /\ m + Len(q) = n + 1
    BY <1>2, <1>4, <1>7, SMTT(60)
  <1>9. q[Len(q)] = r /\ q # <<>>
    BY <1>4, <1>6, <1>8, EmptySeq
  <1>10. ASSUME NEW j \in 1..Len(b) PROVE b[j] = P[m + j][2]
    <2>1. j \in 1..Len(q) /\ m + j \in 1..n
      BY <1>2, <1>7, <1>8
    <2> QED
      BY <1>4, <1>5, <2>1
  <1>11. \A i \in 1..m : i \in 1..n /\ Q[i] = P[i]
    BY <1>2, <1>5, <1>7
  <1>12. Tracks(P, b, f, l, m)
    <2>1. \A i \in 1..n : P[i][1] = IF i <= m THEN Cyc(l, m - i) ELSE 0
      BY <1>4, <1>5
    <2> QED
      BY <1>4, <1>7, <1>8, <1>10, <1>11, <2>1 DEF Tracks, n
  <1> QED
    BY <1>9, <1>12

-----------------------------------------------------------------------------
(* How the order of the rows is kept *)

\* More rows are settled.
LEMMA OrderSettles ==
  ASSUME NEW P, NEW D, NEW E, D \subseteq E
  PROVE  /\ InOrder(P, D) => InOrder(P, E)
         /\ \A t : FetchedInOrder(P, D, t) => FetchedInOrder(P, E, t)
  BY Zenon DEF InOrder, FetchedInOrder

\* Entries keep their rows and get packet ids.
LEMMA OrderNumbers ==
  ASSUME NEW P, NEW Q, NEW D, NEW t, Len(Q) = Len(P), \A i \in 1..Len(P) : Q[i][2] = P[i][2],
         Len(P) \in Nat, InOrder(P, D), FetchedInOrder(P, D, t)
  PROVE  InOrder(Q, D) /\ FetchedInOrder(Q, D, t)
  <1>1. ASSUME NEW i \in 1..Len(Q), NEW r \in 1..Q[i][2]
        PROVE  r \in D \/ \E j \in 1..i : Q[j][2] = r
    <2>1. r \in D \/ \E j \in 1..i : P[j][2] = r
      BY DEF InOrder
    <2>2. \A j \in 1..i : Q[j][2] = P[j][2]
      OBVIOUS
    <2> QED
      BY <2>1, <2>2
  <1>2. FetchedInOrder(Q, D, t)
    <2>1. \A r : (\E j \in 1..Len(P) : P[j][2] = r) => \E j \in 1..Len(Q) : Q[j][2] = r
      OBVIOUS
    <2> QED
      BY <2>1, Zenon DEF FetchedInOrder
  <1> QED
    BY <1>1, <1>2 DEF InOrder

\* The first entry leaves; its row is settled.
LEMMA OrderAck ==
  ASSUME NEW P \in Seq(Entry), NEW D, NEW t, P # <<>>, P[1][2] \in D,
         InOrder(P, D), FetchedInOrder(P, D, t)
  PROVE  InOrder(Tail(P), D) /\ FetchedInOrder(Tail(P), D, t)
  <1> DEFINE Q == Tail(P)
             n == Len(P)
  <1>1. n \in Nat \ {0} /\ Len(Q) = n - 1 /\ \A i \in 1..(n - 1) : Q[i] = P[i + 1]
    BY TailFacts
  <1> HIDE DEF Q
  <1>2. ASSUME NEW j \in 1..n PROVE P[j][2] \in D \/ (j - 1 \in 1..(n - 1) /\ Q[j - 1][2] = P[j][2])
    <2>1. CASE j = 1
      BY <2>1
    <2>2. CASE j # 1
      <3>1. j - 1 \in 1..(n - 1) /\ (j - 1) + 1 = j
        BY <1>1, <2>2
      <3> QED
        BY <1>1, <3>1
    <2> QED
      BY <2>1, <2>2
  <1>3. ASSUME NEW i \in 1..(n - 1), NEW r \in 1..Q[i][2]
        PROVE  r \in D \/ \E j \in 1..i : Q[j][2] = r
    <2>1. i + 1 \in 1..n /\ Q[i] = P[i + 1]
      BY <1>1
    <2>2. r \in D \/ \E j \in 1..(i + 1) : P[j][2] = r
      BY <2>1 DEF InOrder
    <2>3. ASSUME NEW j \in 1..(i + 1), P[j][2] = r, r \notin D PROVE \E k \in 1..i : Q[k][2] = r
      <3>1. j \in 1..n
        BY <1>1
      <3>2. j - 1 \in 1..(n - 1) /\ Q[j - 1][2] = r
        BY <1>2, <2>3, <3>1
      <3>3. j - 1 \in 1..i
        BY <1>1, <3>2
      <3> QED
        BY <3>2, <3>3
    <2> QED
      BY <2>2, <2>3
  <1>4. ASSUME NEW r, \E j \in 1..n : P[j][2] = r
        PROVE  r \in D \/ \E j \in 1..(n - 1) : Q[j][2] = r
    BY <1>2, <1>4
  <1>5. FetchedInOrder(Q, D, t)
    BY <1>1, <1>4, Zenon DEF FetchedInOrder
  <1>6. InOrder(Q, D)
    BY <1>1, <1>3 DEF InOrder
  <1> QED
    BY <1>5, <1>6 DEF Q

\* The first fetched row joins the pipe.
LEMMA OrderQueue ==
  ASSUME NEW P \in Seq(Entry), NEW D, NEW t \in Seq(RowId), t # <<>>,
         InOrder(P, D), FetchedInOrder(P, D, t)
  PROVE  InOrder(Append(P, <<0, t[1]>>), D) /\ FetchedInOrder(Append(P, <<0, t[1]>>), D, t)
  <1> DEFINE e == <<0, t[1]>>
             Q == Append(P, e)
             n == Len(P)
  <1>1. t[1] \in RowId /\ Len(t) \in Nat \ {0} /\ e \in Entry /\ e[2] = t[1]
    BY TailFacts, PublisherConstants DEF Entry
  <1>2. n \in Nat /\ Len(Q) = n + 1 /\ \A i \in 1..(n + 1) : Q[i] = IF i <= n THEN P[i] ELSE e
    BY <1>1, AppendFacts
  <1> HIDE DEF Q, e
  <1>3. \A i \in 1..n : i \in 1..(n + 1) /\ Q[i] = P[i]
    BY <1>2
  <1>4. Q[n + 1][2] = t[1] /\ n + 1 \in 1..(n + 1)
    BY <1>1, <1>2
  <1>5. ASSUME NEW i \in 1..(n + 1), NEW r \in 1..Q[i][2]
        PROVE  r \in D \/ \E j \in 1..i : Q[j][2] = r
    <2>1. CASE i \in 1..n
      <3>1. r \in D \/ \E j \in 1..i : P[j][2] = r
        BY <1>3, <2>1 DEF InOrder
      <3>2. \A j \in 1..i : Q[j] = P[j]
        BY <1>2, <1>3, <2>1
      <3> QED
        BY <3>1, <3>2
    <2>2. CASE i = n + 1
      <3>1. r \in 1..t[1] /\ 1 \in 1..Len(t)
        BY <1>1, <1>4, <2>2
      <3>2. \/ r \in D
            \/ \E j \in 1..n : P[j][2] = r
            \/ \E j \in 1..1 : t[j] = r
        BY <3>1 DEF FetchedInOrder
      <3>3. (\E j \in 1..1 : t[j] = r) => Q[n + 1][2] = r
        BY <1>4
      <3> QED
        BY <1>3, <1>4, <2>2, <3>2, <3>3
    <2> QED
      BY <1>2, <2>1, <2>2
  <1>6. \A r : (\E j \in 1..n : P[j][2] = r) => \E j \in 1..(n + 1) : Q[j][2] = r
    BY <1>3
  <1>7. FetchedInOrder(Q, D, t)
    BY <1>2, <1>6, Zenon DEF FetchedInOrder
  <1>8. InOrder(Q, D)
    BY <1>2, <1>5 DEF InOrder
  <1> QED
    BY <1>7, <1>8 DEF Q, e

\* The last row leaves the pipe; it is settled.
LEMMA OrderUnqueue ==
  ASSUME NEW P \in Seq(Entry), NEW D, NEW t, NEW r \in RowId, r \in D,
         InOrder(Append(P, <<0, r>>), D), FetchedInOrder(Append(P, <<0, r>>), D, t)
  PROVE  InOrder(P, D) /\ FetchedInOrder(P, D, t)
  <1> DEFINE e == <<0, r>>
             Q == Append(P, e)
             n == Len(P)
  <1>1. e \in Entry /\ e[2] = r
    BY PublisherConstants DEF Entry
  <1>2. n \in Nat /\ Len(Q) = n + 1 /\ \A i \in 1..(n + 1) : Q[i] = IF i <= n THEN P[i] ELSE e
    BY <1>1, AppendFacts
  <1>3. InOrder(Q, D) /\ FetchedInOrder(Q, D, t)
    OBVIOUS
  <1> HIDE DEF Q, e
  <1>4. \A i \in 1..n : i \in 1..(n + 1) /\ Q[i] = P[i]
    BY <1>2
  <1>5. ASSUME NEW i \in 1..n, NEW s \in 1..P[i][2]
        PROVE  s \in D \/ \E j \in 1..i : P[j][2] = s
    <2>1. s \in D \/ \E j \in 1..i : Q[j][2] = s
      BY <1>2, <1>3, <1>4 DEF InOrder
    <2>2. \A j \in 1..i : Q[j] = P[j]
      BY <1>2, <1>4
    <2> QED
      BY <2>1, <2>2
  <1>6. ASSUME NEW s, \E j \in 1..(n + 1) : Q[j][2] = s
        PROVE  s \in D \/ \E j \in 1..n : P[j][2] = s
    <2>1. PICK j \in 1..(n + 1) : Q[j][2] = s
      BY <1>6
    <2>2. j \in 1..n \/ j = n + 1
      BY <1>2
    <2>3. Q[n + 1] = e
      BY <1>2
    <2> QED
      BY <1>1, <1>4, <2>1, <2>2, <2>3
  <1>7. FetchedInOrder(P, D, t)
    BY <1>2, <1>3, <1>6, Zenon DEF FetchedInOrder
  <1> QED
    BY <1>5, <1>7 DEF InOrder

\* The first fetched row is dealt with: it is settled or in the pipe.
LEMMA OrderFetched ==
  ASSUME NEW P, NEW D, NEW t \in Seq(RowId), t # <<>>, FetchedInOrder(P, D, t),
         t[1] \in D \/ \E j \in 1..Len(P) : P[j][2] = t[1]
  PROVE  FetchedInOrder(P, D, Tail(t))
  <1> DEFINE u == Tail(t)
             In(r) == r \in D \/ \E j \in 1..Len(P) : P[j][2] = r
  <1>1. Len(t) \in Nat \ {0} /\ Len(u) = Len(t) - 1 /\ \A i \in 1..(Len(t) - 1) : u[i] = t[i + 1]
    BY TailFacts
  <1> HIDE DEF u
  <1>2. ASSUME NEW i \in 1..Len(u), NEW r \in 1..u[i] PROVE In(r) \/ \E j \in 1..i : u[j] = r
    <2>1. i + 1 \in 1..Len(t) /\ u[i] = t[i + 1]
      BY <1>1
    <2>2. In(r) \/ \E j \in 1..(i + 1) : t[j] = r
      BY <2>1 DEF FetchedInOrder
    <2>3. ASSUME NEW j \in 1..(i + 1), t[j] = r PROVE In(r) \/ \E k \in 1..i : u[k] = r
      <3>1. CASE j = 1
        BY <2>3, <3>1
      <3>2. CASE j # 1
        <4>1. j - 1 \in 1..i /\ j - 1 \in 1..(Len(t) - 1) /\ (j - 1) + 1 = j
          BY <1>1, <3>2
        <4>2. u[j - 1] = r
          BY <1>1, <2>3, <4>1
        <4> QED
          BY <4>1, <4>2
      <3> QED
        BY <3>1, <3>2
    <2> QED
      BY <2>2, <2>3
  <1> QED
    BY <1>2 DEF FetchedInOrder, u

-----------------------------------------------------------------------------
(* The tracker's queue and the pending acknowledgements *)

\* A sequence over a set is one over a larger set.
LEMMA SeqWidens ==
  ASSUME NEW S, NEW T, S \subseteq T, NEW s \in Seq(S)
  PROVE  s \in Seq(T)
  OBVIOUS

\* Removing the last row of the queue, which is nowhere else in it.
LEMMA RemovesLast ==
  ASSUME NEW S, queued \in Seq(S), queued # <<>>, QueueDistinct, NEW r, queued[Len(queued)] = r
  PROVE  /\ remove_queued(r) \in Seq(S) /\ Len(remove_queued(r)) = Len(queued) - 1
         /\ \A i \in 1..(Len(queued) - 1) : remove_queued(r)[i] = queued[i]
  <1> DEFINE n == Len(queued)
             kept == {i \in DOMAIN queued : queued[i] # r}
             rank(i) == Cardinality({j \in kept : j <= i})
             nth(k) == CHOOSE i \in kept : rank(i) = k
  <1>1. n \in Nat \ {0} /\ DOMAIN queued = 1..n /\ \A i \in 1..n : queued[i] \in S
    BY EmptySeq, LenProperties, ElementOfSeq
  <1>2. kept = 1..(n - 1)
    <2>0. n \in 1..n
      BY <1>1
    <2>1. ASSUME NEW i \in 1..n PROVE queued[i] # r <=> i # n
      BY <2>0, Zenon DEF QueueDistinct
    <2>2. kept = {i \in 1..n : i # n}
      BY <1>1, <2>1, Zenon
    <2>3. {i \in 1..n : i # n} = 1..(n - 1)
      BY <1>1
    <2> QED
      BY <2>2, <2>3
  <1> HIDE DEF kept
  <1>3. Cardinality(kept) = n - 1 /\ n - 1 \in Nat
    BY <1>1, <1>2, FS_Interval, SMTT(60)
  <1>4. ASSUME NEW i \in 1..(n - 1) PROVE rank(i) = i
    <2>1. {j \in kept : j <= i} = 1..i
      BY <1>1, <1>2
    <2>2. Cardinality(1..i) = i
      BY <1>1, FS_Interval
    <2> QED
      BY <2>1, <2>2
  <1> HIDE DEF rank
  <1>5. ASSUME NEW k \in 1..(n - 1) PROVE nth(k) = k
    BY <1>2, <1>4
  <1>6. remove_queued(r) = [k \in 1..Cardinality(kept) |-> queued[nth(k)]]
    BY DEF remove_queued, kept, rank
  <1> HIDE DEF nth
  <1>7. remove_queued(r) = [k \in 1..(n - 1) |-> queued[k]]
    BY <1>3, <1>5, <1>6
  <1>8. \A k \in 1..(n - 1) : queued[k] \in S
    BY <1>1
  <1>9. remove_queued(r) \in [1..(n - 1) -> S]
    BY <1>7, <1>8
  <1>10. remove_queued(r) \in Seq(S) /\ Len(remove_queued(r)) = n - 1
    BY <1>3, <1>9, FunctionIsSeq
  <1> QED
    BY <1>7, <1>10

\* Draining the channel adds acknowledged rows to the pending ones, up to the
\* capacity.
LEMMA DrainFacts ==
  ASSUME TypeOK
  PROVE  /\ pending_pubacks \subseteq Drained
         /\ Drained \subseteq pending_pubacks \cup SeqSet(puback_rx)
         /\ IsFiniteSet(Drained) /\ Cardinality(Drained) <= PendingCapacity
  <1> DEFINE B == pending_pubacks
             rx == puback_rx
             n == Len(rx)
             room == PendingCapacity - Cardinality(B)
             fresh(i) == rx[i] \notin B \cup SeqSet(SubSeq(rx, 1, i - 1))
             F(i) == {j \in 1..i : fresh(j)}
             rank(i) == Cardinality(F(i))
             K == {j \in DOMAIN rx : rank(j) <= room /\ fresh(j)}
             A == {rx[i] : i \in K}
  <1>1. Drained = B \cup A
    BY DEF Drained
  <1>2. n \in Nat /\ DOMAIN rx = 1..n /\ rows \in Nat
    BY LenProperties, PublisherConstants DEF TypeOK
  <1>3. IsFiniteSet(B) /\ Cardinality(B) \in Nat /\ room \in Nat
    <2>1. IsFiniteSet(1..rows)
      BY <1>2, FS_Interval
    <2>2. IsFiniteSet(B)
      BY <2>1, FS_Subset DEF TypeOK
    <2>3. Cardinality(B) \in Nat
      BY <2>2, FS_CardinalityType
    <2> QED
      BY <2>2, <2>3, PublisherConstants DEF TypeOK
  <1>4. A \subseteq SeqSet(rx)
    BY DEF SeqSet
  <1> HIDE DEF fresh, room
  <1>5. ASSUME NEW i \in 1..n PROVE IsFiniteSet(F(i)) /\ rank(i) \in Nat
    <2>1. IsFiniteSet(1..i)
      BY <1>2, FS_Interval
    <2>2. IsFiniteSet(F(i))
      BY <2>1, FS_Subset
    <2> QED
      BY <2>2, FS_CardinalityType
  <1>6. ASSUME NEW i \in 1..n, NEW j \in 1..n, i < j, fresh(j) PROVE rank(i) < rank(j)
    <2>1. F(i) \in SUBSET F(j) /\ j \in F(j) /\ j \notin F(i)
      BY <1>2, <1>6
    <2>2. IsFiniteSet(F(j)) /\ rank(i) \in Nat /\ rank(j) \in Nat
      BY <1>5
    <2>3. rank(i) <= rank(j) /\ (rank(j) = rank(i) => F(j) = F(i))
      BY <2>1, <2>2, FS_Subset
    <2> QED
      BY <2>1, <2>2, <2>3
  <1>7. ASSUME NEW i \in 1..n, fresh(i) PROVE rank(i) \in Nat \ {0}
    <2>1. i \in F(i) /\ IsFiniteSet(F(i)) /\ rank(i) \in Nat
      BY <1>2, <1>5, <1>7
    <2>2. rank(i) # 0
      BY <2>1, FS_EmptySet
    <2> QED
      BY <2>1, <2>2
  <1>8. K \subseteq 1..n /\ \A i \in K : fresh(i) /\ rank(i) <= room
    BY <1>2
  <1>9. IsFiniteSet(K)
    <2>1. IsFiniteSet(1..n)
      BY <1>2, FS_Interval
    <2> QED
      BY <1>8, <2>1, FS_Subset
  <1> HIDE DEF F, K
  <1>10. Cardinality(K) <= room
    <2> DEFINE f == [i \in K |-> rank(i)]
    <2>1. ASSUME NEW i \in K PROVE f[i] \in 1..room
      <3>1. rank(i) \in Nat \ {0} /\ rank(i) <= room
        BY <1>7, <1>8
      <3> HIDE DEF rank
      <3> QED
        BY <1>3, <3>1
    <2>2. ASSUME NEW i \in K, NEW j \in K, f[i] = f[j] PROVE i = j
      <3>1. i \in 1..n /\ j \in 1..n /\ fresh(i) /\ fresh(j) /\ rank(i) = rank(j)
        BY <1>8, <2>2
      <3>2. rank(i) \in Nat /\ rank(j) \in Nat
        BY <1>5, <3>1
      <3>3. ~ (i < j) /\ ~ (j < i)
        BY <1>6, <3>1, <3>2
      <3> QED
        BY <1>2, <3>1, <3>3
    <2>3. f \in [K -> 1..room] /\ DOMAIN f = K
      BY <2>1
    <2> HIDE DEF f
    <2>4. f \in Injection(K, 1..room)
      BY <2>2, <2>3 DEF Injection, IsInjective
    <2>5. IsFiniteSet(1..room) /\ Cardinality(1..room) = room
      BY <1>3, FS_Interval, SMTT(60)
    <2> QED
      BY <2>4, <2>5, FS_Injection
  <1>11. IsFiniteSet(A) /\ Cardinality(A) <= Cardinality(K)
    <2> DEFINE g == [i \in K |-> rx[i]]
    <2>1. g \in Surjection(K, A)
      BY DEF Surjection
    <2> QED
      BY <1>9, <2>1, FS_Surjection
  <1> HIDE DEF A
  <1>12. /\ IsFiniteSet(B \cup A)
         /\ Cardinality(B \cup A) = Cardinality(B) + Cardinality(A) - Cardinality(B \cap A)
    BY <1>3, <1>11, FS_Union
  <1>13. IsFiniteSet(B \cap A)
    BY <1>3, FS_Subset
  <1>14. Cardinality(A) \in Nat /\ Cardinality(K) \in Nat /\ Cardinality(B \cap A) \in Nat
    BY <1>9, <1>11, <1>13, FS_CardinalityType
  <1>15. PendingCapacity \in Nat
    BY PublisherConstants
  <1>16. Cardinality(B \cup A) <= PendingCapacity
    BY <1>3, <1>10, <1>11, <1>12, <1>14, <1>15 DEF room
  <1> QED
    BY <1>1, <1>4, <1>12, <1>16

-----------------------------------------------------------------------------
(* The state the lemmas are about *)

\* The variables as the sequences and functions of the lemmas.
Shape ==
  /\ outgoing \in Seq(Entry) /\ pending \in Seq(Entry) /\ requests \in Seq(RowId)
  /\ queued \in Seq(RowId) /\ todo \in Seq(RowId) /\ inflight \in [Pkid -> Nat]
  /\ last_pkid \in 0..MaxPkid /\ accepted \in Nat /\ accepted <= Len(outgoing)
  /\ Len(outgoing) \in Nat /\ Len(pending) \in Nat /\ Len(requests) \in Nat
  /\ rows \in Nat /\ 1..rows \subseteq RowId
  /\ \A i \in 1..Len(outgoing) : outgoing[i] \in Pkid \X (1..rows)

\* The types give the shapes.
LEMMA ShapeFacts ==
  ASSUME TypeOK
  PROVE  Shape
  <1>1. rows \in Nat /\ 1..rows \subseteq RowId /\ MaxPkid \in Nat
    BY PublisherConstants DEF TypeOK, RowId
  <1>2. /\ Pkid \X (1..rows) \subseteq Entry /\ (0..MaxPkid) \X (1..rows) \subseteq Entry
        /\ 0..rows \subseteq Nat
    BY <1>1 DEF Entry, Pkid
  <1>3. outgoing \in Seq(Entry) /\ pending \in Seq(Entry)
    BY <1>2, SeqWidens DEF TypeOK
  <1>4. requests \in Seq(RowId) /\ queued \in Seq(RowId) /\ todo \in Seq(RowId)
    BY <1>1, SeqWidens DEF TypeOK
  <1>5. inflight \in [Pkid -> Nat]
    BY <1>2 DEF TypeOK
  <1>6. Len(outgoing) \in Nat /\ Len(pending) \in Nat /\ Len(requests) \in Nat
    BY <1>3, <1>4, LenProperties
  <1>7. \A i \in 1..Len(outgoing) : outgoing[i] \in Pkid \X (1..rows)
    BY ElementOfSeq DEF TypeOK
  <1>8. last_pkid \in 0..MaxPkid /\ accepted \in Nat /\ accepted <= Len(outgoing)
    BY <1>6 DEF TypeOK
  <1> QED
    BY <1>1, <1>3, <1>4, <1>5, <1>6, <1>7, <1>8 DEF Shape

\* The last entry of the pipe: the row about to be published.
Sending == IF pc = "send" THEN 1 ELSE 0
Next1 == IF pc = "send" THEN Head(todo) ELSE 1

\* The pipe of a state.
LEMMA PipeShape ==
  ASSUME Shape, SendsRow
  PROVE  /\ Sending \in Bit /\ Next1 \in RowId
         /\ Pipe = PipeOf(outgoing, pending, requests, Next1, Sending)
         /\ IsPipe(Pipe, Len(outgoing) + Len(pending) + Len(requests) + Sending,
                   outgoing, pending, requests, Next1)
  <1>1. Sending \in Bit
    BY DEF Sending, Bit
  <1>2. Next1 \in RowId
    <2>1. CASE pc = "send"
      BY <2>1, TailFacts DEF Next1, SendsRow, Shape
    <2>2. CASE pc # "send"
      BY <2>2 DEF Next1, RowId
    <2> QED
      BY <2>1, <2>2
  <1>3. Pipe = PipeOf(outgoing, pending, requests, Next1, Sending)
    BY DEF Pipe, Next1, Sending
  <1>4. outgoing \in Seq(Entry) /\ pending \in Seq(Entry) /\ requests \in Seq(RowId)
    BY DEF Shape
  <1> QED
    BY <1>1, <1>2, <1>3, <1>4, PipeIsSeq

\* Where the entries of the pipe come from.
LEMMA PipeEntries ==
  ASSUME Shape, SendsRow
  PROVE  /\ Pipe \in Seq(Entry) /\ Len(Pipe) \in Nat
         /\ Len(Pipe) = Len(outgoing) + Len(pending) + Len(requests) + Sending
         /\ \A i \in 1..Len(outgoing) :
              i \in 1..Len(Pipe) /\ Pipe[i] = outgoing[i] /\ Pipe[i][1] # 0
         /\ \A i \in 1..Len(Pipe) : Pipe[i] = At(outgoing, pending, requests, Next1, i)
  <1>1. IsPipe(Pipe, Len(outgoing) + Len(pending) + Len(requests) + Sending,
               outgoing, pending, requests, Next1)
        /\ Sending \in Bit
    BY PipeShape
  <1>2. /\ Pipe \in Seq(Entry)
        /\ Len(Pipe) = Len(outgoing) + Len(pending) + Len(requests) + Sending
        /\ \A i \in 1..Len(Pipe) : Pipe[i] = At(outgoing, pending, requests, Next1, i)
    BY <1>1 DEF IsPipe
  <1>3. Len(outgoing) \in Nat /\ Len(pending) \in Nat /\ Len(requests) \in Nat /\ Sending \in Nat
    BY <1>1 DEF Shape, Bit
  <1>4. ASSUME NEW i \in 1..Len(outgoing)
        PROVE  i \in 1..Len(Pipe) /\ Pipe[i] = outgoing[i] /\ Pipe[i][1] # 0
    <2>1. i \in 1..Len(Pipe) /\ i <= Len(outgoing)
      BY <1>2, <1>3
    <2>2. Pipe[i] = outgoing[i]
      BY <1>2, <2>1 DEF At
    <2>3. outgoing[i] \in Pkid \X (1..rows)
      BY DEF Shape
    <2>4. outgoing[i][1] # 0
      BY <2>3 DEF Pkid
    <2> QED
      BY <2>1, <2>2, <2>4
  <1> QED
    BY <1>2, <1>3, <1>4

\* The sent publications are among the m numbered entries of the pipe.
LEMMA SentNumbered ==
  ASSUME Shape, SendsRow, NEW m, Tracks(Pipe, queued, inflight, last_pkid, m)
  PROVE  /\ m \in Nat /\ Len(outgoing) <= m /\ m <= MaxPkid /\ m <= Len(Pipe)
         /\ \A i \in 1..Len(Pipe) : Pipe[i][1] = 0 <=> ~ (i <= m)
         /\ \A i \in 1..m : i \in 1..Len(Pipe) /\ Pipe[i][1] \in Pkid
  <1>1. /\ Pipe \in Seq(Entry) /\ Len(Pipe) \in Nat
        /\ \A i \in 1..Len(outgoing) : i \in 1..Len(Pipe) /\ Pipe[i][1] # 0
    BY PipeEntries
  <1>2. Numbered(Pipe, last_pkid, m)
    BY <1>1, TracksIds DEF Shape
  <1>3. Len(outgoing) \in Nat
    BY DEF Shape
  <1> HIDE DEF Pipe
  <1>4. /\ m \in Nat /\ m <= MaxPkid /\ m <= Len(Pipe)
        /\ \A i \in 1..Len(Pipe) : Pipe[i][1] = 0 <=> ~ (i <= m)
        /\ \A i \in 1..m : i \in 1..Len(Pipe) /\ Pipe[i][1] \in Pkid
    BY <1>1, <1>2 DEF Numbered
  <1>5. Len(outgoing) <= m
    <2>1. CASE Len(outgoing) = 0
      BY <1>4, <2>1
    <2>2. CASE Len(outgoing) # 0
      <3>1. Len(outgoing) \in 1..Len(outgoing)
        BY <1>3, <2>2
      <3> QED
        BY <1>1, <1>4, <3>1
    <2> QED
      BY <2>1, <2>2
  <1> QED
    BY <1>4, <1>5

-----------------------------------------------------------------------------
(* The initial state and the steps that leave the pipe alone *)

\* Nothing is in the pipe of an empty client.
LEMMA EmptyPipe ==
  ASSUME TypeOK, outgoing = <<>>, pending = <<>>, requests = <<>>, queued = <<>>, todo = <<>>,
         pc = "sleep", inflight = [p \in Pkid |-> 0], accepted = 0,
         puback_rx = <<>>, pending_pubacks = {}, PublishedWasDelivered, FirstDeliveryInOrder
  PROVE  PublisherInv
  <1>1. Shape /\ SendsRow /\ Sending = 0
    BY ShapeFacts DEF SendsRow, Sending
  <1>2. Pipe \in Seq(Entry) /\ Len(Pipe) = Len(outgoing) + Len(pending) + Len(requests) + Sending
    BY <1>1, PipeEntries
  <1>3. Len(Pipe) = 0 /\ Len(queued) = 0 /\ Len(todo) = 0
    BY <1>1, <1>2, EmptySeq
  <1> HIDE DEF Pipe
  <1>4. Tracks(Pipe, queued, inflight, last_pkid, 0)
    BY <1>3, PublisherConstants DEF Tracks
  <1>5. PipeTracked
    BY <1>3, <1>4 DEF PipeTracked
  <1>6. QueueDistinct /\ PipeInOrder /\ TodoInOrder /\ AcceptedDelivered
    BY <1>3 DEF QueueDistinct, PipeInOrder, InOrder, TodoInOrder, FetchedInOrder, AcceptedDelivered
  <1>7. AcksDelivered
    BY DEF AcksDelivered, SeqSet
  <1> QED
    BY <1>1, <1>5, <1>6, <1>7 DEF PublisherInv

\* The initial state.
LEMMA PublisherInit == Init => PublisherInv
  <1> SUFFICES ASSUME Init PROVE PublisherInv
    OBVIOUS
  <1> USE DEF Init
  <1>1. TypeOK
    <2>1. /\ queued \in Seq(1..rows) /\ requests \in Seq(1..rows) /\ puback_rx \in Seq(1..rows)
          /\ todo \in Seq(1..rows) /\ outgoing \in Seq(Pkid \X (1..rows))
          /\ pending \in Seq((0..MaxPkid) \X (1..rows)) /\ Len(<<>>) = 0
      BY EmptySeq
    <2>2. Cardinality(pending_pubacks) <= PendingCapacity
      BY FS_EmptySet, PublisherConstants
    <2>3. inflight \in [Pkid -> 0..rows]
      OBVIOUS
    <2> QED
      BY <2>1, <2>2, <2>3, PublisherConstants DEF TypeOK
  <1>2. PublishedWasDelivered /\ FirstDeliveryInOrder
    BY DEF PublishedWasDelivered, FirstDeliveryInOrder
  <1> QED
    BY <1>1, <1>2, EmptyPipe

\* A step that changes neither the client nor the row about to be published.
LEMMA PipeKept ==
  ASSUME UNCHANGED <<outgoing, pending, requests>>, pc = "send" <=> pc' = "send",
         pc = "send" => todo' = todo
  PROVE  Pipe' = Pipe
  <1>1. CASE pc = "send"
    BY <1>1 DEF Pipe
  <1>2. CASE pc # "send"
    BY <1>2 DEF Pipe
  <1> QED
    BY <1>1, <1>2

\* What is known about a pipe that stays the same.
LEMMA TrackingKept ==
  ASSUME PublisherInv, Pipe' = Pipe, UNCHANGED <<queued, inflight, last_pkid>>,
         delivered \subseteq delivered'
  PROVE  /\ PipeTracked' /\ QueueDistinct' /\ PipeInOrder'
         /\ todo' = todo => TodoInOrder'
  <1>1. Settled \subseteq Settled'
    BY DEF Settled
  <1>2. PipeTracked' /\ QueueDistinct'
    BY DEF PublisherInv, PipeTracked, QueueDistinct
  <1>3. InOrder(Pipe, Settled') /\ FetchedInOrder(Pipe, Settled', todo)
    BY <1>1, OrderSettles DEF PublisherInv, PipeInOrder, TodoInOrder
  <1> QED
    BY <1>2, <1>3 DEF PipeInOrder, TodoInOrder

\* A step of the publish loop, or of the write thread, between two rows.
LEMMA LoopKeeps ==
  ASSUME PublisherInv, UNCHANGED <<delivered, tracker, client>>,
         pc = "send" <=> pc' = "send", pc = "send" => todo' = todo,
         TypeOK', TodoInOrder' \/ todo' = todo, AcksDelivered', PublishedWasDelivered'
  PROVE  PublisherInv'
  <1>1. Pipe' = Pipe
    BY PipeKept DEF client
  <1>2. PipeTracked' /\ QueueDistinct' /\ PipeInOrder' /\ TodoInOrder'
    BY <1>1, TrackingKept DEF tracker, client
  <1>3. SendsRow'
    BY DEF PublisherInv, SendsRow
  <1>4. AcceptedDelivered' /\ FirstDeliveryInOrder'
    BY DEF PublisherInv, AcceptedDelivered, FirstDeliveryInOrder, client
  <1> QED
    BY <1>2, <1>3, <1>4 DEF PublisherInv

\* A row is committed.
LEMMA CommitKeeps ==
  ASSUME PublisherInv, Commit
  PROVE  PublisherInv'
  <1>1. TypeOK'
    <2>1. /\ rows \in 0..MaxRows /\ rows' = rows + 1 /\ rows' \in 0..MaxRows
          /\ 1..rows \subseteq 1..rows' /\ 0..rows \subseteq 0..rows'
      BY PublisherConstants DEF PublisherInv, TypeOK, Commit
    <2>2. Pkid \X (1..rows) \subseteq Pkid \X (1..rows') /\ (0..MaxPkid) \X (1..rows) \subseteq (0..MaxPkid) \X (1..rows')
      BY <2>1
    <2>3. /\ queued' \in Seq(1..rows') /\ requests' \in Seq(1..rows') /\ puback_rx' \in Seq(1..rows')
          /\ todo' \in Seq(1..rows')
      BY <2>1, SeqWidens DEF PublisherInv, TypeOK, Commit, tracker, client
    <2>4. outgoing' \in Seq(Pkid \X (1..rows')) /\ pending' \in Seq((0..MaxPkid) \X (1..rows'))
      BY <2>2, SeqWidens DEF PublisherInv, TypeOK, Commit, tracker, client
    <2>5. inflight' \in [Pkid -> 0..rows']
      BY <2>1 DEF PublisherInv, TypeOK, Commit, tracker
    <2>6. published' \subseteq 1..rows' /\ delivered' \subseteq 1..rows' /\ pending_pubacks' \subseteq 1..rows'
      BY <2>1, Zenon DEF PublisherInv, TypeOK, Commit
    <2> QED
      BY <2>1, <2>3, <2>4, <2>5, <2>6 DEF PublisherInv, TypeOK, Commit, client
  <1>2. AcksDelivered' /\ PublishedWasDelivered'
    BY DEF PublisherInv, AcksDelivered, PublishedWasDelivered, Commit
  <1> QED
    BY <1>1, <1>2, LoopKeeps DEF Commit

\* Acknowledgements are drained and some of them marked.
LEMMA MarkKeeps ==
  ASSUME PublisherInv, UNCHANGED <<rows, delivered, tracker, client, todo>>, puback_rx' = <<>>,
         NEW ids \in SUBSET Drained, published' = published \cup ids, pending_pubacks' = Drained \ ids,
         pc # "send", pc' # "send", pc' \in {"sleep", "fetch", "rows", "send", "drain"}
  PROVE  PublisherInv'
  <1>1. /\ Drained \subseteq delivered /\ IsFiniteSet(Drained) /\ Cardinality(Drained) <= PendingCapacity
    BY DrainFacts DEF PublisherInv, AcksDelivered
  <1>2. pending_pubacks' \subseteq Drained /\ ids \subseteq Drained
    OBVIOUS
  <1>3. Cardinality(pending_pubacks') <= PendingCapacity
    <2>1. /\ IsFiniteSet(pending_pubacks') /\ Cardinality(pending_pubacks') <= Cardinality(Drained)
      BY <1>1, <1>2, FS_Subset
    <2>2. Cardinality(pending_pubacks') \in Nat /\ Cardinality(Drained) \in Nat
      BY <1>1, <2>1, FS_CardinalityType
    <2> QED
      BY <1>1, <2>1, <2>2, PublisherConstants
  <1>4. puback_rx' \in Seq(1..rows) /\ Len(puback_rx') <= PubackCapacity
    BY EmptySeq, PublisherConstants
  <1>5. published' \subseteq 1..rows /\ pending_pubacks' \subseteq 1..rows
    BY <1>1, <1>2 DEF PublisherInv, TypeOK
  <1>6. TypeOK'
    BY <1>3, <1>4, <1>5 DEF PublisherInv, TypeOK, tracker, client
  <1>7. AcksDelivered' /\ PublishedWasDelivered'
    <2>1. SeqSet(puback_rx') = {}
      BY DEF SeqSet
    <2> QED
      BY <1>1, <1>2, <2>1 DEF PublisherInv, AcksDelivered, PublishedWasDelivered
  <1> QED
    BY <1>6, <1>7, LoopKeeps

\* The publish loop's other steps outside a row.
LEMMA RoundKeeps ==
  ASSUME PublisherInv, DrainFirst \/ DrainAgain \/ MarkFails \/ FetchFails \/ RowsDone
  PROVE  PublisherInv'
  <1>1. CASE DrainFirst
    <2>1. PICK ids \in SUBSET Drained : published' = published \cup ids /\ pending_pubacks' = Drained \ ids
      BY <1>1, Zenon DEF DrainFirst, MarkPublished, Markable
    <2> QED
      BY <1>1, <2>1, MarkKeeps DEF DrainFirst, MarkPublished
  <1>2. CASE DrainAgain
    <2>1. PICK ids \in SUBSET Drained : published' = published \cup ids /\ pending_pubacks' = Drained \ ids
      BY <1>2, Zenon DEF DrainAgain, MarkPublished, Markable
    <2> QED
      BY <1>2, <2>1, MarkKeeps DEF DrainAgain, MarkPublished
  <1>3. CASE MarkFails
    <2>1. published' = published \cup {} /\ pending_pubacks' = Drained \ {} /\ {} \in SUBSET Drained
      BY <1>3 DEF MarkFails
    <2> QED
      BY <1>3, <2>1, MarkKeeps DEF MarkFails
  <1>4. CASE FetchFails \/ RowsDone
    <2>1. /\ UNCHANGED <<rows, published, delivered, tracker, client, puback_rx, pending_pubacks, todo>>
          /\ pc # "send" /\ pc' \in {"sleep", "drain"}
      BY <1>4 DEF FetchFails, RowsDone
    <2>2. TypeOK'
      BY <2>1 DEF PublisherInv, TypeOK, tracker, client
    <2>3. AcksDelivered' /\ PublishedWasDelivered'
      BY <2>1 DEF PublisherInv, AcksDelivered, PublishedWasDelivered
    <2> QED
      BY <2>1, <2>2, <2>3, LoopKeeps
  <1> QED
    BY <1>1, <1>2, <1>3, <1>4

\* The oldest unpublished rows are fetched: the rows before one of them are
\* published, hence delivered, or fetched before it.
LEMMA FetchKeeps ==
  ASSUME PublisherInv, FetchUnpublished
  PROVE  PublisherInv'
  <1>1. PICK found \in Results : selects(found) /\ todo' = found
    BY Zenon DEF FetchUnpublished
  <1>2. PICK n \in 0..Limit : found \in [1..n -> Unpublished]
    BY Zenon DEF Results
  <1>3. n \in Nat /\ rows \in Nat /\ Unpublished \subseteq 1..rows
    BY PublisherConstants DEF PublisherInv, TypeOK, Unpublished
  <1>4. found \in Seq(Unpublished) /\ Len(found) = n /\ DOMAIN found = 1..n
    BY <1>2, <1>3, FunctionIsSeq
  <1>5. found \in Seq(1..rows) /\ \A i \in 1..n : found[i] \in Unpublished /\ found[i] \in 1..rows
    BY <1>2, <1>3, <1>4, SeqWidens
  <1>6. /\ UNCHANGED <<rows, published, delivered, tracker, client, puback_rx, pending_pubacks>>
        /\ pc = "fetch" /\ pc' \in {"sleep", "rows"}
    BY DEF FetchUnpublished
  <1>7. TypeOK'
    BY <1>1, <1>5, <1>6 DEF PublisherInv, TypeOK, tracker, client
  <1>8. ASSUME NEW i \in 1..n, NEW r \in 1..found[i]
        PROVE  r \in Settled \/ \E j \in 1..i : found[j] = r
    <2>1. r \in 1..rows /\ found[i] \in 1..rows /\ r <= found[i]
      BY <1>3, <1>5
    <2>2. CASE r \in published
      BY <2>2 DEF PublisherInv, PublishedWasDelivered, Settled
    <2>3. CASE r \notin published
      <3>1. r \in Unpublished
        BY <2>1, <2>3 DEF Unpublished
      <3>2. r \in SeqSet(found)
        <4>1. r \notin SeqSet(found) => found[i] < r
          BY <1>1, <1>4, <3>1 DEF selects
        <4> QED
          BY <1>3, <2>1, <4>1
      <3>3. PICK j \in 1..n : found[j] = r
        BY <1>4, <3>2 DEF SeqSet
      <3>4. i < j => found[i] < found[j]
        BY <1>1, <1>4 DEF selects
      <3>5. j \in 1..i
        BY <1>3, <2>1, <3>3, <3>4
      <3> QED
        BY <3>3, <3>5
    <2> QED
      BY <2>2, <2>3
  <1>9. FetchedInOrder(Pipe, Settled, found)
    BY <1>4, <1>8, Zenon DEF FetchedInOrder
  <1>10. Pipe' = Pipe /\ Settled' = Settled
    BY <1>6, PipeKept DEF client, Settled
  <1>11. TodoInOrder'
    BY <1>1, <1>9, <1>10 DEF TodoInOrder
  <1>12. AcksDelivered' /\ PublishedWasDelivered'
    BY <1>6 DEF PublisherInv, AcksDelivered, PublishedWasDelivered
  <1> QED
    BY <1>6, <1>7, <1>11, <1>12, LoopKeeps

\* A row that the tracker knows is in the pipe.
LEMMA TrackedInPipe ==
  ASSUME PublisherInv, NEW r \in RowId, contains_row(r)
  PROVE  \E j \in 1..Len(Pipe) : Pipe[j][2] = r
  <1>1. Shape /\ SendsRow
    BY ShapeFacts DEF PublisherInv
  <1>2. PICK m : Tracks(Pipe, queued, inflight, last_pkid, m)
    BY DEF PublisherInv, PipeTracked
  <1>3. /\ m \in Nat /\ m <= Len(Pipe) /\ Len(Pipe) \in Nat
        /\ \A i \in 1..m : i \in 1..Len(Pipe) /\ Pipe[i][1] \in Pkid
    BY <1>1, <1>2, SentNumbered, PipeEntries
  <1> HIDE DEF Pipe
  <1>4. CASE r \in SeqSet(queued)
    <2>1. DOMAIN queued = 1..Len(queued)
      BY <1>1, LenProperties DEF Shape
    <2>2. PICK j \in 1..Len(queued) : queued[j] = r
      BY <1>4, <2>1 DEF SeqSet
    <2>3. Len(queued) = Len(Pipe) - m /\ queued[j] = Pipe[m + j][2]
      BY <1>2 DEF Tracks
    <2>4. m + j \in 1..Len(Pipe)
      BY <1>3, <2>3
    <2> QED
      BY <2>2, <2>3, <2>4
  <1>5. CASE \E p \in Pkid : inflight[p] = r
    <2>1. PICK p \in Pkid : inflight[p] = r
      BY <1>5
    <2>2. r # 0
      BY DEF RowId
    <2>3. PICK i \in 1..m : Pipe[i][1] = p
      BY <1>2, <2>1, <2>2 DEF Tracks
    <2>4. Pipe[i][2] = r
      BY <1>2, <2>1, <2>3 DEF Tracks
    <2> QED
      BY <1>3, <2>4
  <1> QED
    BY <1>4, <1>5 DEF contains_row

\* The loop passes over a row that is on its way.
LEMMA SkipKeeps ==
  ASSUME PublisherInv, SkipTracked
  PROVE  PublisherInv'
  <1>1. /\ UNCHANGED <<rows, published, delivered, tracker, client, puback_rx, pending_pubacks, pc>>
        /\ pc = "rows" /\ todo # <<>> /\ todo' = Tail(todo) /\ contains_row(Head(todo))
    BY DEF SkipTracked
  <1>2. todo' \in Seq(1..rows)
    BY <1>1, TailFacts DEF PublisherInv, TypeOK
  <1>3. TypeOK'
    BY <1>1, <1>2 DEF PublisherInv, TypeOK, tracker, client
  <1>4. todo \in Seq(RowId)
    BY ShapeFacts DEF PublisherInv, Shape
  <1>5. Head(todo) = todo[1] /\ todo[1] \in RowId
    BY <1>1, <1>4, TailFacts
  <1>6. \E j \in 1..Len(Pipe) : Pipe[j][2] = todo[1]
    BY <1>1, <1>5, TrackedInPipe
  <1>7. FetchedInOrder(Pipe, Settled, Tail(todo))
    BY <1>1, <1>4, <1>6, OrderFetched DEF PublisherInv, TodoInOrder
  <1>8. Pipe' = Pipe /\ Settled' = Settled
    BY <1>1, PipeKept DEF client, Settled
  <1>9. TodoInOrder'
    BY <1>1, <1>7, <1>8 DEF TodoInOrder
  <1>10. AcksDelivered' /\ PublishedWasDelivered'
    BY <1>1 DEF PublisherInv, AcksDelivered, PublishedWasDelivered
  <1> QED
    BY <1>1, <1>3, <1>9, <1>10, LoopKeeps

-----------------------------------------------------------------------------
(* A row on its way to the client *)

\* The parts of the invariant that a step of the loop on one row leaves alone.
LEMMA RowKeeps ==
  ASSUME PublisherInv, UNCHANGED <<published, delivered, outgoing, accepted, puback_rx, pending_pubacks>>
  PROVE  (/\ AcceptedDelivered /\ AcksDelivered /\ PublishedWasDelivered /\ FirstDeliveryInOrder)'
  BY DEF PublisherInv, AcceptedDelivered, AcksDelivered, PublishedWasDelivered, FirstDeliveryInOrder

\* The row is put at the end of the tracker's queue.
LEMMA QueueRowKeeps ==
  ASSUME PublisherInv, QueueRow
  PROVE  PublisherInv'
  <1> DEFINE h == todo[1]
  <1>1. /\ pc = "rows" /\ pc' = "send" /\ todo # <<>> /\ ~ contains_row(Head(todo))
        /\ queued' = Append(queued, Head(todo))
        /\ UNCHANGED <<rows, published, delivered, inflight, client, puback_rx, pending_pubacks, todo>>
    BY DEF QueueRow
  <1>2. Shape /\ SendsRow
    BY ShapeFacts DEF PublisherInv
  <1>3. Head(todo) = h /\ h \in RowId /\ h \in 1..rows
    BY <1>1, <1>2, TailFacts DEF Shape, PublisherInv, TypeOK
  <1>4. /\ queued' \in Seq(1..rows) /\ Len(queued) \in Nat /\ Len(queued') = Len(queued) + 1
        /\ \A i \in 1..(Len(queued) + 1) : queued'[i] = IF i <= Len(queued) THEN queued[i] ELSE h
        /\ DOMAIN queued = 1..Len(queued)
    <2>1. queued \in Seq(1..rows) /\ queued' = Append(queued, h)
      BY <1>1, <1>3 DEF PublisherInv, TypeOK
    <2>2. Len(queued) \in Nat /\ DOMAIN queued = 1..Len(queued)
      BY <2>1, LenProperties
    <2> HIDE DEF h
    <2>3. /\ Append(queued, h) \in Seq(1..rows) /\ Len(Append(queued, h)) = Len(queued) + 1
          /\ \A i \in 1..(Len(queued) + 1) : Append(queued, h)[i] = IF i <= Len(queued) THEN queued[i] ELSE h
      BY <1>3, <2>1, AppendFacts, ZenonT(60)
    <2> QED
      BY <2>1, <2>2, <2>3
  <1>5. TypeOK'
    BY <1>1, <1>4 DEF PublisherInv, TypeOK, client
  <1>6. Pipe' = Append(Pipe, <<0, h>>)
    <2>1. Pipe = PipeOf(outgoing, pending, requests, 1, 0)
      BY <1>1 DEF Pipe
    <2>2. Pipe' = PipeOf(outgoing, pending, requests, h, 1)
      BY <1>1, <1>3 DEF Pipe, client
    <2>3. 1 \in RowId
      BY DEF RowId
    <2> QED
      BY <1>2, <1>3, <2>1, <2>2, <2>3, PipeGrows, ZenonT(60) DEF Shape
  <1>7. Pipe \in Seq(Entry)
    BY <1>2, PipeEntries
  <1> HIDE DEF Pipe
  <1>8. PipeTracked'
    <2>1. PICK m : Tracks(Pipe, queued, inflight, last_pkid, m)
      BY DEF PublisherInv, PipeTracked
    <2>2. queued \in Seq(RowId) /\ last_pkid \in 0..MaxPkid
      BY <1>2 DEF Shape
    <2>3. Tracks(Append(Pipe, <<0, h>>), Append(queued, h), inflight, last_pkid, m)
      BY <1>3, <1>7, <2>1, <2>2, TracksQueue
    <2>4. queued' = Append(queued, h) /\ inflight' = inflight /\ last_pkid' = last_pkid
      BY <1>1, <1>3 DEF client
    <2>5. Tracks(Pipe', queued', inflight', last_pkid', m)
      BY <1>6, <2>3, <2>4
    <2> QED
      BY <2>5 DEF PipeTracked, Tracks
  <1>9. QueueDistinct'
    <2>1. \A i \in 1..Len(queued) : queued[i] # h
      BY <1>1, <1>3, <1>4 DEF contains_row, SeqSet
    <2>2. ASSUME NEW i \in 1..(Len(queued) + 1), NEW j \in 1..(Len(queued) + 1), queued'[i] = queued'[j]
          PROVE  i = j
      <3>1. /\ i \in 1..Len(queued) \/ (i = Len(queued) + 1 /\ ~ (i <= Len(queued)))
            /\ j \in 1..Len(queued) \/ (j = Len(queued) + 1 /\ ~ (j <= Len(queued)))
        BY <1>4
      <3>2. /\ i \in 1..Len(queued) => queued'[i] = queued[i]
            /\ j \in 1..Len(queued) => queued'[j] = queued[j]
            /\ i = Len(queued) + 1 => queued'[i] = h
            /\ j = Len(queued) + 1 => queued'[j] = h
        BY <1>4, <3>1
      <3> QED
        BY <2>1, <2>2, <3>1, <3>2 DEF PublisherInv, QueueDistinct
    <2> QED
      BY <1>4, <2>2 DEF QueueDistinct
  <1>10. PipeInOrder' /\ TodoInOrder'
    <2>1. InOrder(Append(Pipe, <<0, h>>), Settled) /\ FetchedInOrder(Append(Pipe, <<0, h>>), Settled, todo)
      BY <1>1, <1>2, <1>7, OrderQueue DEF PublisherInv, PipeInOrder, TodoInOrder, Shape
    <2>2. Settled' = Settled /\ todo' = todo
      BY <1>1 DEF Settled
    <2> QED
      BY <1>6, <2>1, <2>2 DEF PipeInOrder, TodoInOrder
  <1>11. SendsRow'
    BY <1>1 DEF SendsRow
  <1>12. (/\ AcceptedDelivered /\ AcksDelivered /\ PublishedWasDelivered /\ FirstDeliveryInOrder)'
    BY <1>1, RowKeeps DEF client
  <1> QED
    BY <1>5, <1>8, <1>9, <1>10, <1>11, <1>12 DEF PublisherInv

\* The row about to be published is the last of the pipe and of the queue.
LEMMA SendFacts ==
  ASSUME PublisherInv, pc = "send"
  PROVE  /\ Shape /\ SendsRow /\ todo # <<>> /\ Head(todo) = todo[1] /\ todo[1] \in RowId
         /\ todo[1] \in 1..rows /\ Tail(todo) \in Seq(1..rows)
         /\ Pipe = Append(PipeOf(outgoing, pending, requests, 1, 0), <<0, todo[1]>>)
         /\ Pipe = PipeOf(outgoing, pending, Append(requests, todo[1]), 1, 0)
         /\ PipeOf(outgoing, pending, requests, 1, 0) \in Seq(Entry)
         /\ \E j \in 1..Len(Pipe) : Pipe[j][2] = todo[1]
  <1>1. Shape /\ SendsRow /\ todo # <<>>
    BY ShapeFacts DEF PublisherInv, SendsRow
  <1>2. /\ Head(todo) = todo[1] /\ todo[1] \in RowId
        /\ todo[1] \in 1..rows /\ Tail(todo) \in Seq(1..rows)
    BY <1>1, TailFacts DEF Shape, PublisherInv, TypeOK
  <1>3. Pipe = PipeOf(outgoing, pending, requests, todo[1], 1)
    BY <1>2 DEF Pipe
  <1>4. 1 \in RowId /\ 0 \in Bit
    BY DEF RowId, Bit
  <1>5. outgoing \in Seq(Entry) /\ pending \in Seq(Entry) /\ requests \in Seq(RowId)
    BY <1>1 DEF Shape
  <1> DEFINE P == PipeOf(outgoing, pending, requests, 1, 0)
  <1>6. P \in Seq(Entry)
    BY <1>4, <1>5, PipeIsSeq DEF IsPipe
  <1>7. Pipe = Append(P, <<0, todo[1]>>) /\ Pipe = PipeOf(outgoing, pending, Append(requests, todo[1]), 1, 0)
    BY <1>2, <1>3, <1>4, <1>5, PipeGrows, SMTT(60)
  <1> HIDE DEF P
  <1>8. <<0, todo[1]>> \in Entry /\ <<0, todo[1]>>[2] = todo[1]
    BY <1>2, PublisherConstants DEF Entry
  <1>9. /\ Len(P) \in Nat /\ Len(Append(P, <<0, todo[1]>>)) = Len(P) + 1
        /\ Append(P, <<0, todo[1]>>)[Len(P) + 1] = <<0, todo[1]>>
    BY <1>6, <1>8, AppendProperties, LenProperties
  <1>10. Len(Pipe) = Len(P) + 1 /\ Pipe[Len(P) + 1] = <<0, todo[1]>> /\ Len(P) + 1 \in 1..Len(Pipe)
    BY <1>7, <1>9
  <1>11. \E j \in 1..Len(Pipe) : Pipe[j][2] = todo[1]
    BY <1>8, <1>10
  <1> QED
    BY <1>1, <1>2, <1>6, <1>7, <1>11 DEF P

\* The client takes the row.
LEMMA PublishRowKeeps ==
  ASSUME PublisherInv, PublishRow
  PROVE  PublisherInv'
  <1>1. /\ pc = "send" /\ pc' = "rows" /\ Len(requests) < RequestCapacity
        /\ requests' = Append(requests, Head(todo)) /\ todo' = Tail(todo)
        /\ UNCHANGED <<rows, published, delivered, tracker, outgoing, accepted, pending,
                       last_pkid, connected, puback_rx, pending_pubacks>>
    BY DEF PublishRow
  <1>2. /\ Shape /\ todo # <<>> /\ Head(todo) = todo[1] /\ todo[1] \in 1..rows /\ Tail(todo) \in Seq(1..rows)
        /\ Pipe = PipeOf(outgoing, pending, Append(requests, todo[1]), 1, 0)
        /\ \E j \in 1..Len(Pipe) : Pipe[j][2] = todo[1]
    BY <1>1, SendFacts
  <1>3. Pipe' = Pipe
    BY <1>1, <1>2 DEF Pipe
  <1>4. TypeOK'
    <2>1. /\ requests' \in Seq(1..rows) /\ Len(requests') = Len(requests) + 1 /\ Len(requests) \in Nat
      BY <1>1, <1>2, AppendFacts DEF PublisherInv, TypeOK
    <2>2. Len(requests') <= RequestCapacity
      BY <1>1, <2>1, PublisherConstants
    <2> QED
      BY <1>1, <1>2, <2>1, <2>2 DEF PublisherInv, TypeOK, tracker
  <1>5. PipeTracked' /\ QueueDistinct' /\ PipeInOrder'
    BY <1>1, <1>3, TrackingKept DEF tracker
  <1>6. TodoInOrder'
    <2>1. FetchedInOrder(Pipe, Settled, Tail(todo))
      BY <1>2, OrderFetched DEF PublisherInv, TodoInOrder, Shape
    <2>2. Settled' = Settled
      BY <1>1 DEF Settled
    <2> QED
      BY <1>1, <1>3, <2>1, <2>2 DEF TodoInOrder
  <1>7. SendsRow'
    BY <1>1 DEF SendsRow
  <1>8. (/\ AcceptedDelivered /\ AcksDelivered /\ PublishedWasDelivered /\ FirstDeliveryInOrder)'
    BY <1>1, RowKeeps
  <1> QED
    BY <1>4, <1>5, <1>6, <1>7, <1>8 DEF PublisherInv

\* The client rejects the row: it leaves the queue, and only it does.
LEMMA PublishFailsKeeps ==
  ASSUME PublisherInv, PublishFails
  PROVE  PublisherInv'
  <1> DEFINE h == todo[1]
             P == PipeOf(outgoing, pending, requests, 1, 0)
  <1>1. /\ pc = "send" /\ pc' = "rows" /\ Head(todo) \in Unpublishable
        /\ queued' = remove_queued(Head(todo)) /\ todo' = Tail(todo)
        /\ UNCHANGED <<rows, published, delivered, inflight, client, puback_rx, pending_pubacks>>
    BY DEF PublishFails
  <1>2. /\ Shape /\ todo # <<>> /\ Head(todo) = h /\ h \in 1..rows /\ h \in RowId
        /\ Tail(todo) \in Seq(1..rows) /\ Pipe = Append(P, <<0, h>>) /\ P \in Seq(Entry)
    BY <1>1, SendFacts
  <1>3. Pipe' = P
    BY <1>1 DEF Pipe, client
  <1>4. PICK m : Tracks(Append(P, <<0, h>>), queued, inflight, last_pkid, m)
    BY <1>2 DEF PublisherInv, PipeTracked
  <1> HIDE DEF P
  <1>5. queued \in Seq(RowId) /\ last_pkid \in 0..MaxPkid /\ Len(queued) \in Nat
    BY <1>2, LenProperties DEF Shape
  <1>6. queued # <<>> /\ queued[Len(queued)] = h
    <2>1. /\ <<0, h>> \in Entry /\ <<0, h>>[1] = 0 /\ <<0, h>>[2] = h
      BY <1>2, PublisherConstants DEF Entry
    <2>2. /\ Append(P, <<0, h>>) \in Seq(Entry) /\ Len(P) \in Nat
          /\ Len(Append(P, <<0, h>>)) = Len(P) + 1 /\ Append(P, <<0, h>>)[Len(P) + 1] = <<0, h>>
      BY <1>2, <2>1, AppendProperties, LenProperties
    <2> DEFINE Q == Append(P, <<0, h>>)
    <2> HIDE DEF Q
    <2>3. Numbered(Q, last_pkid, m)
      BY <1>4, <1>5, <2>2, TracksIds DEF Q
    <2>4. Len(P) + 1 \in 1..Len(Q) /\ Q[Len(P) + 1][1] = 0 /\ Q[Len(P) + 1][2] = h /\ Len(Q) = Len(P) + 1
      BY <2>1, <2>2 DEF Q
    <2>5. m \in 0..Len(P)
      BY <2>2, <2>3, <2>4 DEF Numbered
    <2>6. Len(queued) = Len(Q) - m /\ \A j \in 1..Len(queued) : queued[j] = Q[m + j][2]
      BY <1>4 DEF Tracks, Q
    <2>7. Len(queued) \in 1..Len(queued) /\ m + Len(queued) = Len(P) + 1
      BY <2>2, <2>4, <2>5, <2>6
    <2>8. queued[Len(queued)] = h
      BY <2>4, <2>6, <2>7
    <2> QED
      BY <2>7, <2>8, EmptySeq
  <1>7. /\ queued' \in Seq(1..rows) /\ Len(queued') = Len(queued) - 1
        /\ \A i \in 1..(Len(queued) - 1) : queued'[i] = queued[i]
    BY <1>1, <1>2, <1>6, RemovesLast DEF PublisherInv, TypeOK
  <1>8. queued' \in Seq(RowId)
    BY <1>2, <1>7, SeqWidens DEF Shape
  <1>9. TypeOK'
    BY <1>1, <1>2, <1>7 DEF PublisherInv, TypeOK, client
  <1>10. PipeTracked'
    <2>1. \A i \in 1..Len(queued') : queued'[i] = queued[i]
      BY <1>7
    <2>2. Tracks(P, queued', inflight, last_pkid, m)
      BY <1>2, <1>4, <1>5, <1>7, <1>8, <2>1, TracksUnqueue
    <2>3. Tracks(Pipe', queued', inflight', last_pkid', m)
      BY <1>1, <1>3, <2>2 DEF client
    <2> QED
      BY <2>3 DEF PipeTracked, Tracks
  <1>11. QueueDistinct'
    <2>1. 1..Len(queued') = 1..(Len(queued) - 1) /\ \A i \in 1..(Len(queued) - 1) : i \in 1..Len(queued)
      BY <1>5, <1>7
    <2> QED
      BY <1>7, <2>1, Zenon DEF PublisherInv, QueueDistinct
  <1>12. PipeInOrder' /\ TodoInOrder'
    <2>1. h \in Settled /\ Settled' = Settled
      BY <1>1, <1>2 DEF Settled
    <2>2. InOrder(P, Settled) /\ FetchedInOrder(P, Settled, todo)
      BY <1>2, <2>1, OrderUnqueue DEF PublisherInv, PipeInOrder, TodoInOrder
    <2>3. FetchedInOrder(P, Settled, Tail(todo))
      BY <1>2, <2>1, <2>2, OrderFetched DEF Shape
    <2> QED
      BY <1>1, <1>3, <2>1, <2>2, <2>3 DEF PipeInOrder, TodoInOrder
  <1>13. SendsRow'
    BY <1>1 DEF SendsRow
  <1>14. (/\ AcceptedDelivered /\ AcksDelivered /\ PublishedWasDelivered /\ FirstDeliveryInOrder)'
    BY <1>1, RowKeeps DEF client
  <1> QED
    BY <1>9, <1>10, <1>11, <1>12, <1>13, <1>14 DEF PublisherInv

-----------------------------------------------------------------------------
(* The event loop, the broker and the connection *)

\* What stays when a publication is sent.
LEMMA SentKeeps ==
  ASSUME PublisherInv, NEW p \in Pkid, NEW v \in 1..rows, Sent(p, v)
  PROVE  /\ outgoing' \in Seq(Pkid \X (1..rows)) /\ Len(outgoing') = Len(outgoing) + 1
         /\ Len(outgoing) \in Nat /\ accepted' \in 0..Len(outgoing') /\ outgoing' = Append(outgoing, <<p, v>>)
         /\ (/\ SendsRow /\ AcceptedDelivered /\ AcksDelivered /\ PublishedWasDelivered /\ FirstDeliveryInOrder)'
  <1>1. /\ outgoing' = Append(outgoing, <<p, v>>)
        /\ UNCHANGED <<rows, published, delivered, accepted, connected, puback_rx,
                       pending_pubacks, pc, todo>>
    BY DEF Sent
  <1>2. <<p, v>> \in Pkid \X (1..rows) /\ outgoing \in Seq(Pkid \X (1..rows))
    BY DEF PublisherInv, TypeOK
  <1>3. /\ outgoing' \in Seq(Pkid \X (1..rows)) /\ Len(outgoing') = Len(outgoing) + 1
        /\ Len(outgoing) \in Nat /\ \A i \in 1..Len(outgoing) : outgoing'[i] = outgoing[i]
    BY <1>1, <1>2, AppendProperties, LenProperties
  <1>4. accepted \in 0..Len(outgoing) /\ accepted' = accepted
    BY <1>1 DEF PublisherInv, TypeOK
  <1>5. AcceptedDelivered'
    <2>1. \A i \in 1..accepted : outgoing'[i] = outgoing[i]
      BY <1>3, <1>4
    <2> QED
      BY <1>1, <2>1 DEF PublisherInv, AcceptedDelivered
  <1>6. SendsRow'
    BY <1>1 DEF PublisherInv, SendsRow
  <1>7. AcksDelivered' /\ PublishedWasDelivered' /\ FirstDeliveryInOrder'
    BY <1>1 DEF PublisherInv, AcksDelivered, PublishedWasDelivered, FirstDeliveryInOrder
  <1> QED
    BY <1>1, <1>3, <1>4, <1>5, <1>6, <1>7

\* A publication of an earlier connection is sent again: the tracker knows its
\* packet id and nothing moves.
LEMMA RetransmitKeeps ==
  ASSUME PublisherInv, Retransmit
  PROVE  PublisherInv'
  <1> DEFINE e == Head(pending)
             k == Len(outgoing) + 1
  <1>1. /\ pending # <<>> /\ e[1] # 0 /\ Sent(e[1], e[2]) /\ pending' = Tail(pending)
        /\ UNCHANGED <<requests, last_pkid>>
    BY DEF Retransmit
  <1>2. Shape /\ SendsRow
    BY ShapeFacts DEF PublisherInv
  <1>3. e \in (0..MaxPkid) \X (1..rows) /\ pending' \in Seq((0..MaxPkid) \X (1..rows))
    BY <1>1, TailFacts, SMTT(60) DEF PublisherInv, TypeOK
  <1>4. e[1] \in Pkid /\ e[2] \in 1..rows /\ e = <<e[1], e[2]>> /\ e[2] # 0
    BY <1>1, <1>3, PublisherConstants DEF Pkid
  <1>5. /\ outgoing' \in Seq(Pkid \X (1..rows)) /\ Len(outgoing') = k /\ outgoing' = Append(outgoing, e)
        /\ Len(outgoing) \in Nat /\ accepted' \in 0..Len(outgoing')
        /\ (/\ SendsRow /\ AcceptedDelivered /\ AcksDelivered /\ PublishedWasDelivered /\ FirstDeliveryInOrder)'
    BY <1>1, <1>4, SentKeeps
  <1>6. /\ Pipe = PipeOf(outgoing, pending, requests, Next1, Sending) /\ Next1 \in RowId /\ Sending \in Bit
        /\ Next1' = Next1 /\ Sending' = Sending
        /\ Pipe' = PipeOf(outgoing', pending', requests', Next1', Sending')
    <2>1. pc' = pc /\ todo' = todo
      BY <1>1 DEF Sent
    <2> QED
      BY <1>2, <2>1, PipeShape DEF Next1, Sending, Pipe
  <1>7. e \in Entry /\ outgoing \in Seq(Entry) /\ pending \in Seq(Entry) /\ requests \in Seq(RowId)
    BY <1>1, <1>2, TailFacts DEF Shape
  <1>8. /\ PipeOf(Append(outgoing, e), Tail(pending), requests, Next1, Sending) = [Pipe EXCEPT ![k] = e]
        /\ At(outgoing, pending, requests, Next1, k) = e
    BY <1>1, <1>6, <1>7, PipeMoves
  <1>9. Pipe' = [Pipe EXCEPT ![k] = e]
    BY <1>1, <1>5, <1>6, <1>8
  <1>10. Pipe \in Seq(Entry) /\ Len(Pipe) \in Nat /\ k \in 1..Len(Pipe) /\ Pipe[k] = e
    <2>1. /\ Pipe \in Seq(Entry) /\ Len(Pipe) \in Nat
          /\ Len(Pipe) = Len(outgoing) + Len(pending) + Len(requests) + Sending
          /\ \A i \in 1..Len(Pipe) : Pipe[i] = At(outgoing, pending, requests, Next1, i)
      BY <1>2, PipeEntries
    <2>2. Len(pending) \in Nat \ {0} /\ Len(requests) \in Nat /\ Sending \in Nat
      BY <1>1, <1>2, <1>6, EmptySeq DEF Shape, Bit
    <2>3. k \in 1..Len(Pipe)
      BY <1>5, <2>1, <2>2
    <2> QED
      BY <1>8, <2>1, <2>3
  <1> HIDE DEF Pipe, e
  <1>11. Pipe' = Pipe
    <2>1. Pipe \in [1..Len(Pipe) -> Entry]
      BY <1>10, LenProperties
    <2> QED
      BY <1>9, <1>10, <2>1
  <1>12. PICK m : Tracks(Pipe, queued, inflight, last_pkid, m)
    BY DEF PublisherInv, PipeTracked
  <1>13. k <= m /\ m <= MaxPkid /\ m \in Nat
    BY <1>1, <1>2, <1>5, <1>10, <1>12, SentNumbered
  <1>14. inflight[e[1]] # 0
    <2>1. k \in 1..m
      BY <1>5, <1>13
    <2> QED
      BY <1>4, <1>10, <1>12, <2>1 DEF Tracks
  <1>15. UNCHANGED tracker
    BY <1>1, <1>14 DEF Sent, on_outgoing_publish
  <1>16. TypeOK'
    <2>1. Len(outgoing') <= MaxPkid
      BY <1>5, <1>13, PublisherConstants
    <2> QED
      BY <1>1, <1>3, <1>5, <1>15, <2>1 DEF PublisherInv, TypeOK, Sent, tracker
  <1>17. PipeTracked' /\ QueueDistinct' /\ PipeInOrder' /\ TodoInOrder'
    BY <1>1, <1>11, <1>15, TrackingKept DEF Sent, tracker
  <1> QED
    BY <1>5, <1>16, <1>17 DEF PublisherInv

\* A publication is sent for the first time, with the next packet id.
LEMMA FirstSendKeeps ==
  ASSUME PublisherInv, NEW v \in 1..rows, Sent(NextPkid, v), last_pkid' = NextPkid,
         Len(outgoing) < MaxPkid, Len(outgoing) + 1 \in 1..Len(Pipe),
         Pipe[Len(outgoing) + 1] = <<0, v>>,
         Pipe' = [Pipe EXCEPT ![Len(outgoing) + 1] = <<NextPkid, v>>],
         pending' \in Seq((0..MaxPkid) \X (1..rows)),
         requests' \in Seq(1..rows), Len(requests') <= RequestCapacity
  PROVE  PublisherInv'
  <1> DEFINE k == Len(outgoing) + 1
             x == NextPkid
  <1>1. Shape /\ SendsRow
    BY ShapeFacts DEF PublisherInv
  <1>2. /\ Pipe \in Seq(Entry) /\ Len(Pipe) \in Nat /\ Len(outgoing) \in Nat /\ last_pkid \in 0..MaxPkid
        /\ queued \in Seq(RowId) /\ inflight \in [Pkid -> Nat]
    BY <1>1, PipeEntries DEF Shape
  <1>3. Pipe[k][1] = 0 /\ Pipe[k][2] = v /\ k \in 1..Len(Pipe)
    OBVIOUS
  <1>4. PICK m : Tracks(Pipe, queued, inflight, last_pkid, m)
    BY DEF PublisherInv, PipeTracked
  <1>5. m \in Nat /\ m + 1 = k /\ m < MaxPkid /\ m < Len(Pipe)
    <2>1. /\ m \in Nat /\ Len(outgoing) <= m
          /\ \A i \in 1..Len(Pipe) : Pipe[i][1] = 0 <=> ~ (i <= m)
      BY <1>1, <1>4, SentNumbered
    <2>2. ~ (k <= m)
      BY <1>3, <2>1
    <2>3. m = Len(outgoing)
      BY <1>2, <2>1, <2>2
    <2> QED
      BY <1>2, <1>3, <2>3
  <1>6. x = After(last_pkid) /\ x \in Pkid /\ x \in 1..MaxPkid
    BY <1>2, AfterFacts DEF NextPkid, After
  <1> HIDE DEF Pipe, x
  <1>7. /\ queued # <<>> /\ Head(queued) = v /\ inflight[x] = 0
        /\ Tracks([Pipe EXCEPT ![m + 1] = <<x, Pipe[m + 1][2]>>], Tail(queued),
                  [inflight EXCEPT ![x] = Head(queued)], x, m + 1)
    <2>1. m < Len(Pipe) /\ m < MaxPkid /\ Pipe[m + 1][2] = v
      BY <1>3, <1>5
    <2>2. /\ queued # <<>> /\ Head(queued) = Pipe[m + 1][2] /\ inflight[After(last_pkid)] = 0
          /\ Tracks([Pipe EXCEPT ![m + 1] = <<After(last_pkid), Pipe[m + 1][2]>>], Tail(queued),
                    [inflight EXCEPT ![After(last_pkid)] = Head(queued)], After(last_pkid), m + 1)
      BY <1>2, <1>4, <2>1, TracksSend, Zenon
    <2> QED
      BY <1>6, <2>1, <2>2, Zenon
  <1>8. queued' = Tail(queued) /\ inflight' = [inflight EXCEPT ![x] = v]
    BY <1>7 DEF Sent, on_outgoing_publish, x
  <1>9. Pipe' = [Pipe EXCEPT ![k] = <<x, v>>] /\ last_pkid' = x
    BY DEF x
  <1>10. Tracks(Pipe', queued', inflight', last_pkid', m + 1)
    BY <1>3, <1>5, <1>7, <1>8, <1>9
  <1>11. PipeTracked'
    BY <1>10 DEF PipeTracked, Tracks
  <1>12. /\ queued' \in Seq(1..rows) /\ Len(queued) \in Nat \ {0} /\ Len(queued') = Len(queued) - 1
         /\ \A i \in 1..(Len(queued) - 1) : queued'[i] = queued[i + 1]
    BY <1>7, <1>8, TailFacts DEF PublisherInv, TypeOK
  <1>13. QueueDistinct'
    <2>1. ASSUME NEW i \in 1..(Len(queued) - 1), NEW j \in 1..(Len(queued) - 1), queued'[i] = queued'[j]
          PROVE  i = j
      <3>1. i + 1 \in 1..Len(queued) /\ j + 1 \in 1..Len(queued) /\ queued[i + 1] = queued[j + 1]
        BY <1>12, <2>1, SMTT(60)
      <3>2. i + 1 = j + 1
        BY <3>1 DEF PublisherInv, QueueDistinct
      <3> QED
        BY <1>12, <3>2
    <2> QED
      BY <1>12, <2>1 DEF QueueDistinct
  <1>14. /\ outgoing' \in Seq(Pkid \X (1..rows)) /\ Len(outgoing') = k
         /\ accepted' \in 0..Len(outgoing')
         /\ (/\ SendsRow /\ AcceptedDelivered /\ AcksDelivered /\ PublishedWasDelivered /\ FirstDeliveryInOrder)'
    BY <1>6, SentKeeps DEF x
  <1>15. inflight' \in [Pkid -> 0..rows]
    <2>1. v \in 0..rows
      BY <1>1 DEF Shape
    <2> QED
      BY <1>8, <2>1 DEF PublisherInv, TypeOK
  <1>16. TypeOK'
    <2>1. Len(outgoing') <= MaxPkid /\ last_pkid' \in 0..MaxPkid
      BY <1>2, <1>6, <1>9, <1>14, PublisherConstants, SMTT(60)
    <2> QED
      BY <1>12, <1>14, <1>15, <2>1 DEF PublisherInv, TypeOK, Sent
  <1>17. PipeInOrder' /\ TodoInOrder'
    <2>1. <<x, v>> \in Entry /\ <<x, v>>[2] = v
      <3>1. x \in 0..MaxPkid /\ v \in RowId
        BY <1>1, <1>6, PublisherConstants, SMTT(60) DEF Shape
      <3> QED
        BY <3>1 DEF Entry
    <2>2. /\ Len(Pipe') = Len(Pipe)
          /\ \A j \in 1..Len(Pipe) : Pipe'[j] = IF j = k THEN <<x, v>> ELSE Pipe[j]
      BY <1>2, <1>3, <1>9, <2>1, ExceptSeq
    <2>3. \A j \in 1..Len(Pipe) : Pipe'[j][2] = Pipe[j][2]
      BY <1>3, <2>1, <2>2
    <2>4. Settled' = Settled /\ todo' = todo
      BY DEF Sent, Settled
    <2>5. InOrder(Pipe', Settled) /\ FetchedInOrder(Pipe', Settled, todo)
      BY <1>2, <2>2, <2>3, OrderNumbers, ZenonT(60) DEF PublisherInv, PipeInOrder, TodoInOrder
    <2> QED
      BY <2>4, <2>5 DEF PipeInOrder, TodoInOrder
  <1> QED
    BY <1>11, <1>13, <1>14, <1>16, <1>17 DEF PublisherInv

\* What sending leaves of the pipe's last entry.
LEMMA SentPipe ==
  ASSUME PublisherInv, NEW p, NEW v, Sent(p, v)
  PROVE  /\ Pipe = PipeOf(outgoing, pending, requests, Next1, Sending)
         /\ Pipe' = PipeOf(outgoing', pending', requests', Next1, Sending)
         /\ Next1 \in RowId /\ Sending \in Bit /\ Sending \in Nat
  <1>1. Shape /\ SendsRow
    BY ShapeFacts DEF PublisherInv
  <1>2. pc' = pc /\ todo' = todo
    BY DEF Sent
  <1>3. Pipe = PipeOf(outgoing, pending, requests, Next1, Sending) /\ Next1 \in RowId /\ Sending \in Bit
    BY <1>1, PipeShape
  <1>4. Pipe' = PipeOf(outgoing', pending', requests', Next1, Sending)
    BY <1>2 DEF Pipe, Next1, Sending
  <1> QED
    BY <1>3, <1>4 DEF Bit

\* A request kept from an earlier connection is sent.
LEMMA TransmitPendingKeeps ==
  ASSUME PublisherInv, TransmitPending
  PROVE  PublisherInv'
  <1> DEFINE v == Head(pending)[2]
             k == Len(outgoing) + 1
             e == <<NextPkid, v>>
  <1>1. /\ pending # <<>> /\ Head(pending)[1] = 0 /\ Len(outgoing) < MaxPkid /\ Sent(NextPkid, v)
        /\ pending' = Tail(pending) /\ last_pkid' = NextPkid /\ requests' = requests
    BY DEF TransmitPending
  <1>2. Shape /\ SendsRow
    BY ShapeFacts DEF PublisherInv
  <1>3. Head(pending) \in (0..MaxPkid) \X (1..rows) /\ pending' \in Seq((0..MaxPkid) \X (1..rows))
    BY <1>1, TailFacts, SMTT(60) DEF PublisherInv, TypeOK
  <1>4. v \in 1..rows /\ Head(pending) = <<0, v>>
    BY <1>1, <1>3
  <1> HIDE DEF v
  <1>5. e \in Entry /\ outgoing \in Seq(Entry) /\ pending \in Seq(Entry) /\ requests \in Seq(RowId)
    <2>1. NextPkid \in 0..MaxPkid /\ v \in RowId
      BY <1>2, <1>4, PublisherConstants DEF Shape, NextPkid
    <2> QED
      BY <1>2, <2>1 DEF Shape, Entry
  <1>6. outgoing' = Append(outgoing, e)
    BY <1>1 DEF Sent
  <1>7. /\ Pipe = PipeOf(outgoing, pending, requests, Next1, Sending)
        /\ Pipe' = PipeOf(outgoing', pending', requests', Next1, Sending)
        /\ Next1 \in RowId /\ Sending \in Bit /\ Sending \in Nat
    BY <1>1, SentPipe
  <1> HIDE DEF e, Pipe
  <1>8. /\ PipeOf(Append(outgoing, e), Tail(pending), requests, Next1, Sending) = [Pipe EXCEPT ![k] = e]
        /\ At(outgoing, pending, requests, Next1, k) = Head(pending)
    BY <1>1, <1>5, <1>7, PipeMoves
  <1>9. Pipe' = [Pipe EXCEPT ![k] = e]
    BY <1>1, <1>6, <1>7, <1>8
  <1>10. k \in 1..Len(Pipe) /\ Pipe[k] = <<0, v>>
    <2>1. /\ Len(Pipe) = Len(outgoing) + Len(pending) + Len(requests) + Sending
          /\ \A i \in 1..Len(Pipe) : Pipe[i] = At(outgoing, pending, requests, Next1, i)
      BY <1>2, PipeEntries
    <2>2. Len(pending) \in Nat \ {0} /\ Len(requests) \in Nat /\ Len(outgoing) \in Nat
      BY <1>1, <1>2, EmptySeq DEF Shape
    <2>3. k \in 1..Len(Pipe)
      BY <1>7, <2>1, <2>2
    <2> QED
      BY <1>4, <1>8, <2>1, <2>3
  <1>11. requests' \in Seq(1..rows) /\ Len(requests') <= RequestCapacity
    BY <1>1 DEF PublisherInv, TypeOK
  <1> QED
    BY <1>1, <1>3, <1>4, <1>9, <1>10, <1>11, FirstSendKeeps DEF e

\* A request of this connection is sent.
LEMMA TransmitKeeps ==
  ASSUME PublisherInv, Transmit
  PROVE  PublisherInv'
  <1> DEFINE v == Head(requests)
             k == Len(outgoing) + 1
             e == <<NextPkid, v>>
  <1>1. /\ pending = <<>> /\ requests # <<>> /\ Len(outgoing) < MaxPkid /\ Sent(NextPkid, v)
        /\ requests' = Tail(requests) /\ last_pkid' = NextPkid /\ pending' = <<>>
    BY DEF Transmit
  <1>2. Shape /\ SendsRow
    BY ShapeFacts DEF PublisherInv
  <1>3. /\ v \in 1..rows /\ requests' \in Seq(1..rows) /\ Len(requests) \in Nat \ {0}
        /\ Len(requests') = Len(requests) - 1
    BY <1>1, TailFacts DEF PublisherInv, TypeOK
  <1>4. Len(requests') <= RequestCapacity /\ pending' \in Seq((0..MaxPkid) \X (1..rows))
    BY <1>1, <1>3, PublisherConstants DEF PublisherInv, TypeOK
  <1> HIDE DEF v
  <1>5. e \in Entry /\ outgoing \in Seq(Entry) /\ requests \in Seq(RowId)
    <2>1. NextPkid \in 0..MaxPkid /\ v \in RowId
      BY <1>2, <1>3, PublisherConstants DEF Shape, NextPkid
    <2> QED
      BY <1>2, <2>1 DEF Shape, Entry
  <1>6. outgoing' = Append(outgoing, e)
    BY <1>1 DEF Sent
  <1>7. /\ Pipe = PipeOf(outgoing, pending, requests, Next1, Sending)
        /\ Pipe' = PipeOf(outgoing', pending', requests', Next1, Sending)
        /\ Next1 \in RowId /\ Sending \in Bit /\ Sending \in Nat
    BY <1>1, SentPipe
  <1> HIDE DEF e, Pipe
  <1>8. /\ PipeOf(Append(outgoing, e), <<>>, Tail(requests), Next1, Sending)
             = [PipeOf(outgoing, <<>>, requests, Next1, Sending) EXCEPT ![k] = e]
        /\ At(outgoing, <<>>, requests, Next1, k) = <<0, v>>
    BY <1>1, <1>5, <1>7, PipeTakes DEF v
  <1>9. Pipe' = [Pipe EXCEPT ![k] = e]
    BY <1>1, <1>6, <1>7, <1>8
  <1>10. k \in 1..Len(Pipe) /\ Pipe[k] = <<0, v>>
    <2>1. /\ Len(Pipe) = Len(outgoing) + Len(pending) + Len(requests) + Sending
          /\ \A i \in 1..Len(Pipe) : Pipe[i] = At(outgoing, pending, requests, Next1, i)
      BY <1>2, PipeEntries
    <2>2. Len(pending) \in Nat /\ Len(outgoing) \in Nat
      BY <1>2 DEF Shape
    <2>3. k \in 1..Len(Pipe)
      BY <1>3, <1>7, <2>1, <2>2
    <2> QED
      BY <1>1, <1>8, <2>1, <2>3
  <1> QED
    BY <1>1, <1>3, <1>4, <1>9, <1>10, FirstSendKeeps DEF e

\* The broker accepts the next publication: every earlier row is in front of it
\* in the pipe, and accepted, or settled.
LEMMA BrokerAcceptsKeeps ==
  ASSUME PublisherInv, BrokerAccepts
  PROVE  PublisherInv'
  <1> DEFINE a == accepted + 1
             v == outgoing[a][2]
  <1>1. /\ accepted < Len(outgoing) /\ accepted' = a /\ delivered' = delivered \cup {v}
        /\ UNCHANGED <<rows, published, tracker, requests, outgoing, pending, last_pkid,
                       connected, puback_rx, pending_pubacks, pc, todo>>
    BY DEF BrokerAccepts
  <1>2. Shape /\ SendsRow
    BY ShapeFacts DEF PublisherInv
  <1>3. accepted \in Nat /\ Len(outgoing) \in Nat /\ a \in 1..Len(outgoing) /\ a \in 0..Len(outgoing)
    BY <1>1, <1>2 DEF Shape
  <1>4. v \in 1..rows
    BY <1>2, <1>3 DEF Shape
  <1>5. Pipe' = Pipe
    BY <1>1, PipeKept
  <1>6. TypeOK'
    <2>1. delivered' \subseteq 1..rows
      BY <1>1, <1>4 DEF PublisherInv, TypeOK
    <2> QED
      BY <1>1, <1>3, <2>1 DEF PublisherInv, TypeOK, tracker
  <1>7. PipeTracked' /\ QueueDistinct' /\ PipeInOrder' /\ TodoInOrder'
    BY <1>1, <1>5, TrackingKept DEF tracker
  <1>8. AcceptedDelivered'
    <2>1. \A i \in 1..a : i \in 1..accepted \/ i = a
      BY <1>3
    <2> HIDE DEF a
    <2>2. \A i \in 1..a : outgoing[i][2] \in delivered'
      BY <1>1, <2>1 DEF PublisherInv, AcceptedDelivered
    <2> QED
      BY <1>1, <2>2 DEF AcceptedDelivered
  <1>9. \A i \in 1..Len(outgoing) : i \in 1..Len(Pipe) /\ Pipe[i] = outgoing[i]
    BY <1>2, PipeEntries
  <1> HIDE DEF Pipe
  <1>10. \A r \in 1..v : r \in delivered' \cup Unpublishable
    <2> SUFFICES ASSUME NEW r \in 1..v PROVE r \in delivered' \cup Unpublishable
      OBVIOUS
    <2>1. a \in 1..Len(Pipe) /\ Pipe[a][2] = v
      BY <1>3, <1>9
    <2>2. r \in Settled \/ \E j \in 1..a : Pipe[j][2] = r
      BY <2>1 DEF PublisherInv, PipeInOrder, InOrder
    <2>3. CASE r \in Settled
      BY <1>1, <2>3 DEF Settled
    <2>4. CASE \E j \in 1..a : Pipe[j][2] = r
      <3>1. PICK j \in 1..a : Pipe[j][2] = r
        BY <2>4
      <3>2. j \in 1..Len(outgoing)
        BY <1>3
      <3>3. outgoing[j][2] = r
        BY <1>9, <3>1, <3>2
      <3>4. outgoing[j][2] \in delivered'
        BY <1>1, <1>8, <3>1 DEF AcceptedDelivered
      <3> QED
        BY <3>3, <3>4
    <2> QED
      BY <2>2, <2>3, <2>4
  <1>11. FirstDeliveryInOrder'
    <2> HIDE DEF v
    <2>1. \A r \in delivered : \A q \in 1..r : q \in delivered' \cup Unpublishable
      BY <1>1 DEF PublisherInv, FirstDeliveryInOrder
    <2> QED
      BY <1>1, <1>10, <2>1 DEF FirstDeliveryInOrder
  <1>12. SendsRow' /\ AcksDelivered' /\ PublishedWasDelivered'
    BY <1>1 DEF PublisherInv, SendsRow, AcksDelivered, PublishedWasDelivered
  <1> QED
    BY <1>6, <1>7, <1>8, <1>11, <1>12 DEF PublisherInv

\* A PUBACK: its row, which the broker has accepted, leaves the tracker.
LEMMA ReceivePubackKeeps ==
  ASSUME PublisherInv, ReceivePuback
  PROVE  PublisherInv'
  <1> DEFINE p == Head(outgoing)[1]
             v == outgoing[1][2]
  <1>1. /\ accepted > 0 /\ inflight' = [inflight EXCEPT ![p] = 0] /\ queued' = queued
        /\ outgoing' = Tail(outgoing) /\ accepted' = accepted - 1
        /\ puback_rx' = IF inflight[p] # 0 /\ Len(puback_rx) < PubackCapacity
                          THEN Append(puback_rx, inflight[p]) ELSE puback_rx
        /\ UNCHANGED <<rows, published, delivered, requests, pending, last_pkid, connected,
                       pending_pubacks, pc, todo>>
    BY DEF ReceivePuback, on_puback
  <1>2. Shape /\ SendsRow
    BY ShapeFacts DEF PublisherInv
  <1>3. accepted \in Nat \ {0} /\ accepted <= Len(outgoing) /\ Len(outgoing) \in Nat /\ outgoing # <<>>
    BY <1>1, <1>2, EmptySeq DEF Shape
  <1>4. /\ outgoing' \in Seq(Pkid \X (1..rows)) /\ Len(outgoing') = Len(outgoing) - 1
        /\ Head(outgoing) = outgoing[1] /\ \A i \in 1..(Len(outgoing) - 1) : outgoing'[i] = outgoing[i + 1]
    BY <1>1, <1>3, TailFacts DEF PublisherInv, TypeOK
  <1>5. 1 \in 1..Len(outgoing) /\ p = outgoing[1][1] /\ p \in Pkid /\ v \in 1..rows /\ v \in delivered
    <2>1. 1 \in 1..Len(outgoing) /\ 1 \in 1..accepted
      BY <1>3
    <2>2. v \in delivered
      BY <2>1 DEF PublisherInv, AcceptedDelivered
    <2>3. outgoing[1] \in Pkid \X (1..rows)
      BY <1>2, <2>1 DEF Shape
    <2> QED
      BY <1>4, <2>1, <2>2, <2>3
  <1>6. /\ Pipe \in Seq(Entry) /\ Len(Pipe) \in Nat /\ 1 \in 1..Len(Pipe) /\ Pipe[1] = outgoing[1]
    BY <1>2, <1>5, PipeEntries
  <1>7. Pipe' = Tail(Pipe)
    <2>1. /\ Pipe = PipeOf(outgoing, pending, requests, Next1, Sending) /\ Next1 \in RowId /\ Sending \in Bit
      BY <1>2, PipeShape
    <2>2. Pipe' = PipeOf(outgoing', pending, requests, Next1, Sending)
      BY <1>1 DEF Pipe, Next1, Sending
    <2>3. outgoing \in Seq(Entry) /\ pending \in Seq(Entry) /\ requests \in Seq(RowId)
      BY <1>2 DEF Shape
    <2> HIDE DEF Pipe
    <2>4. PipeOf(Tail(outgoing), pending, requests, Next1, Sending)
            = Tail(PipeOf(outgoing, pending, requests, Next1, Sending))
      BY <1>3, <2>1, <2>3, PipeDrops
    <2> QED
      BY <1>1, <2>1, <2>2, <2>4
  <1> HIDE DEF Pipe
  <1>8. PICK m : Tracks(Pipe, queued, inflight, last_pkid, m)
    BY DEF PublisherInv, PipeTracked
  <1>9. m \in Nat /\ m > 0
    <2>1. m \in Nat /\ Len(outgoing) <= m
      BY <1>2, <1>8, SentNumbered
    <2> QED
      BY <1>3, <2>1
  <1>10. /\ inflight[Pipe[1][1]] = Pipe[1][2]
         /\ Tracks(Tail(Pipe), queued, [inflight EXCEPT ![Pipe[1][1]] = 0], last_pkid, m - 1)
    <2>1. inflight \in [Pkid -> Nat] /\ last_pkid \in 0..MaxPkid
      BY <1>2 DEF Shape
    <2> QED
      BY <1>6, <1>8, <1>9, <2>1, TracksAck
  <1>11. inflight[p] = v
    BY <1>5, <1>6, <1>10
  <1> HIDE DEF p, v
  <1>12. PipeTracked'
    <2>1. Pipe[1][1] = p
      BY <1>5, <1>6
    <2>2. Tracks(Pipe', queued', inflight', last_pkid', m - 1)
      BY <1>1, <1>7, <1>10, <2>1
    <2> QED
      BY <2>2 DEF PipeTracked, Tracks
  <1>13. QueueDistinct' /\ SendsRow'
    BY <1>1 DEF PublisherInv, QueueDistinct, SendsRow
  <1>14. PipeInOrder' /\ TodoInOrder'
    <2>1. Pipe # <<>> /\ Pipe[1][2] \in Settled /\ Settled' = Settled
      BY <1>1, <1>5, <1>6, EmptySeq DEF Settled, v
    <2>2. InOrder(Tail(Pipe), Settled) /\ FetchedInOrder(Tail(Pipe), Settled, todo)
      BY <1>6, <2>1, OrderAck DEF PublisherInv, PipeInOrder, TodoInOrder
    <2> QED
      BY <1>1, <1>7, <2>1, <2>2 DEF PipeInOrder, TodoInOrder
  <1>15. /\ puback_rx' \in Seq(1..rows) /\ Len(puback_rx') <= PubackCapacity
         /\ SeqSet(puback_rx') \subseteq SeqSet(puback_rx) \cup {v}
    <2>1. puback_rx \in Seq(1..rows) /\ Len(puback_rx) \in Nat /\ Len(puback_rx) <= PubackCapacity
      BY LenProperties DEF PublisherInv, TypeOK
    <2>2. CASE puback_rx' = puback_rx
      BY <2>1, <2>2
    <2>3. CASE puback_rx' = Append(puback_rx, v) /\ Len(puback_rx) < PubackCapacity
      <3>1. /\ puback_rx' \in Seq(1..rows) /\ Len(puback_rx') = Len(puback_rx) + 1
            /\ \A i \in 1..(Len(puback_rx) + 1) :
                 puback_rx'[i] = IF i <= Len(puback_rx) THEN puback_rx[i] ELSE v
        BY <1>5, <2>1, <2>3, AppendFacts
      <3>2. DOMAIN puback_rx' = 1..(Len(puback_rx) + 1) /\ DOMAIN puback_rx = 1..Len(puback_rx)
        BY <2>1, <3>1, LenProperties
      <3>3. \A i \in 1..(Len(puback_rx) + 1) : puback_rx'[i] \in SeqSet(puback_rx) \cup {v}
        <4> SUFFICES ASSUME NEW i \in 1..(Len(puback_rx) + 1)
                     PROVE  puback_rx'[i] \in SeqSet(puback_rx) \cup {v}
          OBVIOUS
        <4>1. CASE i <= Len(puback_rx)
          <5>1. i \in DOMAIN puback_rx
            BY <2>1, <3>2, <4>1
          <5> QED
            BY <3>1, <4>1, <5>1 DEF SeqSet
        <4>2. CASE ~ (i <= Len(puback_rx))
          BY <3>1, <4>2
        <4> QED
          BY <4>1, <4>2
      <3>4. SeqSet(puback_rx') \subseteq SeqSet(puback_rx) \cup {v}
        BY <3>2, <3>3 DEF SeqSet
      <3>5. Len(puback_rx') <= PubackCapacity
        BY <2>1, <2>3, <3>1, PublisherConstants
      <3> QED
        BY <3>1, <3>4, <3>5
    <2> QED
      BY <1>1, <1>11, <2>2, <2>3
  <1>16. AcksDelivered'
    BY <1>1, <1>5, <1>15 DEF PublisherInv, AcksDelivered
  <1>17. AcceptedDelivered'
    <2>1. ASSUME NEW i \in 1..(accepted - 1) PROVE outgoing'[i][2] \in delivered
      <3>1. i \in 1..(Len(outgoing) - 1) /\ i + 1 \in 1..accepted
        BY <1>3
      <3> QED
        BY <1>4, <3>1 DEF PublisherInv, AcceptedDelivered
    <2> QED
      BY <1>1, <2>1 DEF AcceptedDelivered
  <1>18. PublishedWasDelivered' /\ FirstDeliveryInOrder'
    BY <1>1 DEF PublisherInv, PublishedWasDelivered, FirstDeliveryInOrder
  <1>19. TypeOK'
    <2>1. inflight' \in [Pkid -> 0..rows]
      <3>1. 0 \in 0..rows
        BY <1>2 DEF Shape
      <3> QED
        BY <1>1, <3>1 DEF PublisherInv, TypeOK
    <2>2. Len(outgoing') <= MaxPkid /\ accepted' \in 0..Len(outgoing')
      BY <1>1, <1>3, <1>4, PublisherConstants DEF PublisherInv, TypeOK
    <2> QED
      BY <1>1, <1>4, <1>15, <2>1, <2>2 DEF PublisherInv, TypeOK
  <1> QED
    BY <1>12, <1>13, <1>14, <1>16, <1>17, <1>18, <1>19 DEF PublisherInv

\* The connection breaks: the pipe stays, and none of it is acknowledged.
LEMMA DisconnectKeeps ==
  ASSUME PublisherInv, Disconnect
  PROVE  PublisherInv'
  <1> DEFINE z == [i \in DOMAIN requests |-> <<0, requests[i]>>]
  <1>1. /\ connected' = 0 /\ pending' = outgoing \o pending \o z
        /\ outgoing' = <<>> /\ accepted' = 0 /\ requests' = <<>>
        /\ UNCHANGED <<rows, published, delivered, tracker, last_pkid, puback_rx,
                       pending_pubacks, pc, todo>>
    BY DEF Disconnect
  <1>2. Shape /\ SendsRow
    BY ShapeFacts DEF PublisherInv
  <1>3. Pipe' = Pipe
    <2>1. /\ Pipe = PipeOf(outgoing, pending, requests, Next1, Sending) /\ Next1 \in RowId /\ Sending \in Bit
      BY <1>2, PipeShape
    <2>2. Pipe' = PipeOf(<<>>, pending', <<>>, Next1, Sending)
      BY <1>1 DEF Pipe, Next1, Sending
    <2>3. outgoing \in Seq(Entry) /\ pending \in Seq(Entry) /\ requests \in Seq(RowId)
      BY <1>2 DEF Shape
    <2>4. PipeOf(<<>>, outgoing \o pending \o z, <<>>, Next1, Sending)
            = PipeOf(outgoing, pending, requests, Next1, Sending)
      BY <2>1, <2>3, PipeWaits
    <2> QED
      BY <1>1, <2>1, <2>2, <2>4
  <1>4. pending' \in Seq((0..MaxPkid) \X (1..rows))
    <2> DEFINE S == (0..MaxPkid) \X (1..rows)
    <2>1. Pkid \X (1..rows) \subseteq S /\ 0 \in 0..MaxPkid
      BY PublisherConstants DEF Pkid
    <2>2. outgoing \in Seq(Pkid \X (1..rows)) /\ pending \in Seq(S) /\ requests \in Seq(1..rows)
      BY DEF PublisherInv, TypeOK
    <2>3. outgoing \in Seq(S)
      BY <2>1, <2>2, SeqWidens
    <2>4. z \in Seq(S)
      <3>1. DOMAIN requests = 1..Len(requests) /\ Len(requests) \in Nat
        BY <2>2, LenProperties
      <3>2. \A i \in 1..Len(requests) : requests[i] \in 1..rows
        BY <2>2, ElementOfSeq
      <3>3. z \in [1..Len(requests) -> S]
        BY <2>1, <3>1, <3>2
      <3> HIDE DEF z, S
      <3> QED
        BY <3>1, <3>3, FunctionIsSeq
    <2> HIDE DEF z, S
    <2>5. outgoing \o pending \in Seq(S)
      BY <2>2, <2>3, ConcatProperties
    <2>6. outgoing \o pending \o z \in Seq(S)
      BY <2>4, <2>5, ConcatProperties
    <2> QED
      BY <1>1, <2>6 DEF S
  <1> HIDE DEF z
  <1>5. TypeOK'
    <2>1. /\ outgoing' \in Seq(Pkid \X (1..rows)) /\ requests' \in Seq(1..rows)
          /\ Len(outgoing') = 0 /\ Len(requests') = 0
      BY <1>1, EmptySeq
    <2>2. accepted' \in 0..Len(outgoing') /\ Len(outgoing') <= MaxPkid /\ Len(requests') <= RequestCapacity
      BY <1>1, <2>1, PublisherConstants
    <2> QED
      BY <1>1, <1>4, <2>1, <2>2 DEF PublisherInv, TypeOK, tracker
  <1>6. PipeTracked' /\ QueueDistinct' /\ PipeInOrder' /\ TodoInOrder'
    BY <1>1, <1>3, TrackingKept DEF tracker
  <1>7. AcceptedDelivered'
    BY <1>1 DEF AcceptedDelivered
  <1>8. SendsRow' /\ AcksDelivered' /\ PublishedWasDelivered' /\ FirstDeliveryInOrder'
    BY <1>1 DEF PublisherInv, SendsRow, AcksDelivered, PublishedWasDelivered, FirstDeliveryInOrder
  <1> QED
    BY <1>5, <1>6, <1>7, <1>8 DEF PublisherInv

\* The session is resumed.
LEMMA ResumeKeeps ==
  ASSUME PublisherInv, Resume
  PROVE  PublisherInv'
  <1>1. /\ connected' = 1
        /\ UNCHANGED <<rows, published, delivered, tracker, requests, outgoing, accepted,
                       pending, last_pkid, puback_rx, pending_pubacks, pc, todo>>
    BY DEF Resume
  <1>2. Pipe' = Pipe
    BY <1>1, PipeKept
  <1>3. PipeTracked' /\ QueueDistinct' /\ PipeInOrder' /\ TodoInOrder'
    BY <1>1, <1>2, TrackingKept DEF tracker
  <1>4. TypeOK'
    BY <1>1 DEF PublisherInv, TypeOK, tracker
  <1>5. SendsRow'
    BY <1>1 DEF PublisherInv, SendsRow
  <1>6. (/\ AcceptedDelivered /\ AcksDelivered /\ PublishedWasDelivered /\ FirstDeliveryInOrder)'
    BY <1>1, RowKeeps
  <1> QED
    BY <1>3, <1>4, <1>5, <1>6 DEF PublisherInv

\* kill -9: the pipe is empty, and what was marked or accepted stays so.
LEMMA RestartKeeps ==
  ASSUME PublisherInv, Restart
  PROVE  PublisherInv'
  <1>1. /\ queued' = <<>> /\ inflight' = [p \in Pkid |-> 0]
        /\ requests' = <<>> /\ outgoing' = <<>> /\ accepted' = 0 /\ pending' = <<>>
        /\ last_pkid' = 0 /\ connected' = 1 /\ puback_rx' = <<>> /\ pending_pubacks' = {}
        /\ pc' = "sleep" /\ todo' = <<>> /\ UNCHANGED <<rows, published, delivered>>
    BY DEF Restart
  <1>2. TypeOK'
    <2>1. /\ queued' \in Seq(1..rows) /\ requests' \in Seq(1..rows) /\ puback_rx' \in Seq(1..rows)
          /\ todo' \in Seq(1..rows) /\ outgoing' \in Seq(Pkid \X (1..rows))
          /\ pending' \in Seq((0..MaxPkid) \X (1..rows)) /\ Len(<<>>) = 0
      BY <1>1, EmptySeq
    <2>2. Cardinality(pending_pubacks') <= PendingCapacity
      BY <1>1, FS_EmptySet, PublisherConstants
    <2>3. inflight' \in [Pkid -> 0..rows]
      <3>1. 0 \in 0..rows
        BY PublisherConstants DEF PublisherInv, TypeOK
      <3> QED
        BY <1>1, <3>1
    <2> QED
      BY <1>1, <2>1, <2>2, <2>3, PublisherConstants DEF PublisherInv, TypeOK
  <1>3. PublishedWasDelivered' /\ FirstDeliveryInOrder'
    BY <1>1 DEF PublisherInv, PublishedWasDelivered, FirstDeliveryInOrder
  <1>4. (TypeOK /\ outgoing = <<>> /\ pending = <<>> /\ requests = <<>> /\ queued = <<>> /\ todo = <<>>
           /\ pc = "sleep" /\ inflight = [p \in Pkid |-> 0] /\ accepted = 0
           /\ puback_rx = <<>> /\ pending_pubacks = {} /\ PublishedWasDelivered /\ FirstDeliveryInOrder
         => PublisherInv)'
    BY EmptyPipe, PTL
  <1> QED
    BY <1>1, <1>2, <1>3, <1>4

-----------------------------------------------------------------------------
(* The invariant of the specification *)

\* Every step keeps the inductive invariant.
LEMMA PublisherStep == PublisherInv /\ [Next]_vars => PublisherInv'
  <1> SUFFICES ASSUME PublisherInv, [Next]_vars PROVE PublisherInv'
    OBVIOUS
  <1>1. CASE Commit
    BY <1>1, CommitKeeps
  <1>2. CASE DrainFirst \/ DrainAgain \/ MarkFails \/ FetchFails \/ RowsDone
    BY <1>2, RoundKeeps
  <1>3. CASE FetchUnpublished
    BY <1>3, FetchKeeps
  <1>4. CASE SkipTracked
    BY <1>4, SkipKeeps
  <1>5. CASE QueueRow
    BY <1>5, QueueRowKeeps
  <1>6. CASE PublishRow
    BY <1>6, PublishRowKeeps
  <1>7. CASE PublishFails
    BY <1>7, PublishFailsKeeps
  <1>8. CASE Retransmit
    BY <1>8, RetransmitKeeps
  <1>9. CASE TransmitPending
    BY <1>9, TransmitPendingKeeps
  <1>10. CASE Transmit
    BY <1>10, TransmitKeeps
  <1>11. CASE ReceivePuback
    BY <1>11, ReceivePubackKeeps
  <1>12. CASE BrokerAccepts
    BY <1>12, BrokerAcceptsKeeps
  <1>13. CASE Resume
    BY <1>13, ResumeKeeps
  <1>14. CASE Disconnect
    BY <1>14, DisconnectKeeps
  <1>15. CASE Restart
    BY <1>15, RestartKeeps
  <1>16. CASE UNCHANGED vars
    <2>1. /\ UNCHANGED <<delivered, tracker, client>> /\ UNCHANGED <<pc, todo>>
          /\ UNCHANGED <<rows, published, puback_rx, pending_pubacks>>
      BY <1>16 DEF vars, tracker, client
    <2>2. TypeOK' /\ AcksDelivered' /\ PublishedWasDelivered'
      BY <1>16 DEF vars, PublisherInv, TypeOK, AcksDelivered, PublishedWasDelivered
    <2> QED
      BY <2>1, <2>2, LoopKeeps
  <1> QED
    BY <1>1, <1>2, <1>3, <1>4, <1>5, <1>6, <1>7, <1>8, <1>9, <1>10, <1>11, <1>12, <1>13,
       <1>14, <1>15, <1>16 DEF Next, PublishLoop, EventLoop, Fault

\* The inductive invariant holds in every reachable state.
LEMMA PublisherInductive == Spec => []PublisherInv
  BY PublisherInit, PublisherStep, PTL DEF Spec

-----------------------------------------------------------------------------
(* The tracker and the client *)

\* The numbered entries are those of outgoing and the first k of pending.
LEMMA NumberedAreKept ==
  ASSUME Shape, SendsRow, NEW m, Tracks(Pipe, queued, inflight, last_pkid, m)
  PROVE  /\ m - Len(outgoing) \in 0..Len(pending)
         /\ \A i \in 1..Len(pending) : /\ Len(outgoing) + i \in 1..Len(Pipe)
                                       /\ Pipe[Len(outgoing) + i] = pending[i]
  <1> DEFINE o == Len(outgoing)
             p == Len(pending)
  <1>1. /\ Len(Pipe) \in Nat /\ Len(Pipe) = o + p + Len(requests) + Sending
        /\ \A i \in 1..Len(Pipe) : Pipe[i] = At(outgoing, pending, requests, Next1, i)
    BY PipeEntries
  <1>2. o \in Nat /\ p \in Nat /\ Len(requests) \in Nat /\ Sending \in Nat
    BY DEF Shape, Sending
  <1>3. /\ m \in Nat /\ o <= m /\ m <= Len(Pipe)
        /\ \A i \in 1..m : i \in 1..Len(Pipe) /\ Pipe[i][1] \in Pkid
    BY SentNumbered
  <1> HIDE DEF Pipe
  <1>4. m <= o + p
    <2> SUFFICES ASSUME ~ (m <= o + p) PROVE FALSE
      OBVIOUS
    <2>1. m \in 1..m /\ m \in 1..Len(Pipe) /\ ~ (m <= o)
      BY <1>2, <1>3
    <2>2. At(outgoing, pending, requests, Next1, m)[1] = 0
      BY <2>1 DEF At
    <2> QED
      BY <1>1, <1>3, <2>1, <2>2 DEF Pkid
  <1>5. ASSUME NEW i \in 1..p PROVE o + i \in 1..Len(Pipe) /\ Pipe[o + i] = pending[i]
    <2>1. o + i \in 1..Len(Pipe) /\ ~ (o + i <= o) /\ o + i <= o + p /\ (o + i) - o = i
      BY <1>1, <1>2
    <2>2. At(outgoing, pending, requests, Next1, o + i) = pending[i]
      BY <2>1 DEF At
    <2> QED
      BY <1>1, <2>1, <2>2
  <1>6. m - o \in 0..p
    BY <1>2, <1>3, <1>4
  <1> QED
    BY <1>5, <1>6

\* The sequence w is a, then b, then c.
Joins(w, S, a, b, c) ==
  /\ w \in Seq(S) /\ Len(w) = Len(a) + Len(b) + Len(c)
  /\ \A i \in 1..(Len(a) + Len(b) + Len(c)) :
       w[i] = IF i <= Len(a) THEN a[i]
              ELSE IF i <= Len(a) + Len(b) THEN b[i - Len(a)]
              ELSE c[i - Len(a) - Len(b)]

\* Sequences one after the other, element by element.
LEMMA ConcatThree ==
  ASSUME NEW S, NEW a \in Seq(S), NEW b \in Seq(S), NEW c \in Seq(S)
  PROVE  Joins(a \o b \o c, S, a, b, c)
  <1> DEFINE d == a \o b
  <1>1. Len(a) \in Nat /\ Len(b) \in Nat /\ Len(c) \in Nat
    BY LenProperties
  <1>2. /\ d \in Seq(S) /\ Len(d) = Len(a) + Len(b)
        /\ \A i \in 1..(Len(a) + Len(b)) : d[i] = IF i <= Len(a) THEN a[i] ELSE b[i - Len(a)]
    BY ConcatProperties
  <1> HIDE DEF d
  <1>3. /\ d \o c \in Seq(S) /\ Len(d \o c) = Len(d) + Len(c)
        /\ \A i \in 1..(Len(d) + Len(c)) : (d \o c)[i] = IF i <= Len(d) THEN d[i] ELSE c[i - Len(d)]
    <2>1. d \in Seq(S)
      BY <1>2
    <2> QED
      BY <2>1, ConcatProperties, Zenon
  <1>4. ASSUME NEW i \in 1..(Len(a) + Len(b) + Len(c))
        PROVE  (d \o c)[i] = IF i <= Len(a) THEN a[i]
                             ELSE IF i <= Len(a) + Len(b) THEN b[i - Len(a)]
                             ELSE c[i - Len(a) - Len(b)]
    <2>1. (d \o c)[i] = IF i <= Len(d) THEN d[i] ELSE c[i - Len(d)]
      BY <1>2, <1>3
    <2>2. CASE i <= Len(a) + Len(b)
      <3>1. i \in 1..(Len(a) + Len(b)) /\ i <= Len(d)
        BY <1>1, <1>2, <2>2
      <3> QED
        BY <1>1, <1>2, <2>1, <2>2, <3>1
    <2>3. CASE ~ (i <= Len(a) + Len(b))
      <3>1. ~ (i <= Len(d)) /\ ~ (i <= Len(a)) /\ i - Len(d) = i - Len(a) - Len(b)
        BY <1>1, <1>2, <2>3
      <3> QED
        BY <2>1, <2>3, <3>1
    <2> QED
      BY <2>2, <2>3
  <1>5. Joins(d \o c, S, a, b, c)
    BY <1>1, <1>2, <1>3, <1>4 DEF Joins
  <1> QED
    BY <1>5 DEF d

\* The tracker's queue is the list of rows without a packet id.
LEMMA QueueIsUnsent ==
  ASSUME Shape, SendsRow, NEW m, Tracks(Pipe, queued, inflight, last_pkid, m)
  PROVE  queued = Unsent(m - Len(outgoing))
  <1> DEFINE o == Len(outgoing)
             p == Len(pending)
             k == m - o
             a == [i \in 1..(p - k) |-> pending[k + i][2]]
             c == IF pc = "send" THEN <<Head(todo)>> ELSE <<>>
             u == a \o requests \o c
  <1>1. /\ Len(Pipe) \in Nat /\ Len(Pipe) = o + p + Len(requests) + Sending
        /\ \A i \in 1..Len(Pipe) : Pipe[i] = At(outgoing, pending, requests, Next1, i)
    BY PipeEntries
  <1>2. o \in Nat /\ p \in Nat /\ Len(requests) \in Nat /\ Sending \in Nat
    BY DEF Shape, Sending
  <1>3. k \in 0..p /\ m \in Nat /\ m = o + k /\ p - k \in Nat
    BY <1>2, NumberedAreKept, SentNumbered
  <1>4. /\ queued \in Seq(RowId) /\ requests \in Seq(RowId)
        /\ Len(queued) = Len(Pipe) - m /\ \A j \in 1..Len(queued) : queued[j] = Pipe[m + j][2]
    BY DEF Shape, Tracks
  <1>5. a \in Seq(RowId) /\ Len(a) = p - k /\ \A i \in 1..(p - k) : a[i] = pending[k + i][2]
    <2>1. ASSUME NEW i \in 1..(p - k) PROVE pending[k + i][2] \in RowId
      <3>1. k + i \in 1..p
        BY <1>2, <1>3
      <3>2. pending[k + i] \in Entry
        BY <3>1, ElementOfSeq DEF Shape
      <3> QED
        BY <3>2 DEF Entry
    <2>2. a \in [1..(p - k) -> RowId]
      BY <2>1
    <2>3. \A i \in 1..(p - k) : a[i] = pending[k + i][2]
      OBVIOUS
    <2> HIDE DEF a, k
    <2> QED
      BY <1>3, <2>2, <2>3, FunctionIsSeq
  <1>6. c \in Seq(RowId) /\ Len(c) = Sending /\ (Sending # 0 => Sending = 1 /\ c[1] = Next1)
    <2>1. CASE pc = "send"
      <3>1. Next1 \in RowId /\ Next1 = Head(todo) /\ Sending = 1
        BY <2>1, PipeShape DEF Next1, Sending
      <3>2. <<Next1>> \in Seq(RowId) /\ Len(<<Next1>>) = 1 /\ <<Next1>>[1] = Next1
        BY <3>1
      <3> QED
        BY <2>1, <3>1, <3>2
    <2>2. CASE pc # "send"
      BY <2>2, EmptySeq DEF Sending
    <2> QED
      BY <2>1, <2>2
  <1>7. Unsent(k) = u
    BY DEF Unsent
  <1> HIDE DEF a, c, Pipe, k
  <1>8. /\ u \in Seq(RowId) /\ Len(u) = Len(a) + Len(requests) + Len(c)
        /\ \A i \in 1..(Len(a) + Len(requests) + Len(c)) :
             u[i] = IF i <= Len(a) THEN a[i]
                    ELSE IF i <= Len(a) + Len(requests) THEN requests[i - Len(a)]
                    ELSE c[i - Len(a) - Len(requests)]
    <2>1. a \in Seq(RowId) /\ requests \in Seq(RowId) /\ c \in Seq(RowId)
      BY <1>4, <1>5, <1>6
    <2>2. Joins(u, RowId, a, requests, c)
      BY <2>1, ConcatThree
    <2> HIDE DEF u
    <2> QED
      BY <2>2 DEF Joins
  <1> HIDE DEF u
  <1>9. Len(u) = Len(queued)
    BY <1>1, <1>2, <1>3, <1>4, <1>5, <1>6, <1>8
  <1>10. ASSUME NEW j \in 1..Len(queued) PROVE queued[j] = u[j]
    <2>1. m + j \in 1..Len(Pipe) /\ j \in Nat /\ j >= 1
      BY <1>1, <1>3, <1>4
    <2>2. queued[j] = At(outgoing, pending, requests, Next1, m + j)[2]
      BY <1>1, <1>4, <2>1
    <2>3. j \in 1..(Len(a) + Len(requests) + Len(c))
      BY <1>8, <1>9
    <2>4. CASE j <= p - k
      <3>1. ~ (m + j <= o) /\ m + j <= o + p /\ (m + j) - o = k + j /\ j \in 1..(p - k)
        BY <1>2, <1>3, <2>1, <2>4
      <3>2. At(outgoing, pending, requests, Next1, m + j) = pending[k + j]
        BY <3>1 DEF At
      <3>3. u[j] = a[j]
        BY <1>5, <1>8, <2>3, <2>4
      <3> QED
        BY <1>5, <2>2, <3>1, <3>2, <3>3
    <2>5. CASE ~ (j <= p - k) /\ j <= p - k + Len(requests)
      <3>1. /\ ~ (m + j <= o) /\ ~ (m + j <= o + p) /\ m + j <= o + p + Len(requests)
            /\ (m + j) - o - p = j - Len(a) /\ ~ (j <= Len(a)) /\ j <= Len(a) + Len(requests)
        BY <1>2, <1>3, <1>5, <2>1, <2>5
      <3>2. At(outgoing, pending, requests, Next1, m + j) = <<0, requests[j - Len(a)]>>
        BY <3>1 DEF At
      <3>3. u[j] = requests[j - Len(a)]
        BY <1>8, <2>3, <3>1
      <3> QED
        BY <2>2, <3>2, <3>3
    <2>6. CASE ~ (j <= p - k + Len(requests))
      <3>1. /\ ~ (m + j <= o) /\ ~ (m + j <= o + p) /\ ~ (m + j <= o + p + Len(requests))
            /\ ~ (j <= Len(a)) /\ ~ (j <= Len(a) + Len(requests))
        BY <1>2, <1>3, <1>5, <2>1, <2>6, SMTT(60)
      <3>2. Sending = 1 /\ j - Len(a) - Len(requests) = 1
        BY <1>2, <1>5, <1>6, <2>3, <2>6
      <3>3. At(outgoing, pending, requests, Next1, m + j) = <<0, Next1>>
        BY <3>1 DEF At
      <3>4. u[j] = c[1]
        BY <1>8, <2>3, <3>1, <3>2
      <3> QED
        BY <1>6, <2>2, <3>2, <3>3, <3>4
    <2> QED
      BY <1>2, <1>3, <2>4, <2>5, <2>6
  <1>11. queued = u
    BY <1>4, <1>8, <1>9, <1>10, SeqEqual
  <1> QED
    BY <1>7, <1>11 DEF k

\* The tracker's map gives the packet ids in use, and only them, their rows.
LEMMA MapIsSent ==
  ASSUME Shape, SendsRow, NEW m, Tracks(Pipe, queued, inflight, last_pkid, m), NEW x \in Pkid
  PROVE  \/ \E e \in SeqSet(outgoing \o pending) : e = <<x, inflight[x]>>
         \/ inflight[x] = 0 /\ \A e \in SeqSet(outgoing \o pending) : e[1] # x
  <1> DEFINE o == Len(outgoing)
             p == Len(pending)
             w == outgoing \o pending
  <1>1. /\ Pipe \in Seq(Entry) /\ Len(Pipe) \in Nat
        /\ \A i \in 1..o : i \in 1..Len(Pipe) /\ Pipe[i] = outgoing[i]
    BY PipeEntries
  <1>2. o \in Nat /\ p \in Nat /\ outgoing \in Seq(Entry) /\ pending \in Seq(Entry)
    BY DEF Shape
  <1>3. /\ m - o \in 0..p
        /\ \A i \in 1..p : o + i \in 1..Len(Pipe) /\ Pipe[o + i] = pending[i]
    BY NumberedAreKept
  <1>4. /\ m \in Nat /\ \A i \in 1..Len(Pipe) : Pipe[i][1] = 0 <=> ~ (i <= m)
    BY SentNumbered
  <1>5. /\ w \in Seq(Entry) /\ Len(w) = o + p
        /\ \A i \in 1..(o + p) : w[i] = IF i <= o THEN outgoing[i] ELSE pending[i - o]
    BY <1>2, ConcatProperties
  <1> HIDE DEF Pipe, w
  <1>6. DOMAIN w = 1..(o + p)
    BY <1>5, LenProperties
  <1>7. ASSUME NEW i \in 1..(o + p) PROVE i \in 1..Len(Pipe) /\ w[i] = Pipe[i]
    <2>1. CASE i <= o
      <3>1. i \in 1..o
        BY <1>2, <2>1
      <3> QED
        BY <1>1, <1>5, <2>1, <3>1
    <2>2. CASE ~ (i <= o)
      <3>1. i - o \in 1..p /\ o + (i - o) = i
        BY <1>2, <2>2
      <3> QED
        BY <1>3, <1>5, <2>2, <3>1
    <2> QED
      BY <2>1, <2>2
  <1>8. CASE \E i \in 1..m : Pipe[i][1] = x
    <2>1. PICK i \in 1..m : Pipe[i][1] = x
      BY <1>8
    <2>2. i \in 1..(o + p)
      BY <1>2, <1>3, <1>4
    <2>3. inflight[x] = Pipe[i][2]
      BY <2>1 DEF Tracks
    <2>4. Pipe[i] \in Entry
      BY <1>1, <1>7, <2>2, ElementOfSeq
    <2>5. Pipe[i] = <<Pipe[i][1], Pipe[i][2]>>
      BY <2>4 DEF Entry
    <2>6. w[i] = <<x, inflight[x]>> /\ i \in DOMAIN w
      BY <1>6, <1>7, <2>1, <2>2, <2>3, <2>5
    <2> QED
      BY <2>6 DEF SeqSet, w
  <1>9. CASE ~ \E i \in 1..m : Pipe[i][1] = x
    <2>1. inflight[x] = 0
      BY <1>9 DEF Tracks
    <2>2. ASSUME NEW i \in 1..(o + p) PROVE w[i][1] # x
      <3>1. CASE i <= m
        <4>1. i \in 1..m
          BY <1>2, <1>4, <3>1
        <4> QED
          BY <1>7, <1>9, <4>1
      <3>2. CASE ~ (i <= m)
        <4>1. Pipe[i][1] = 0
          BY <1>4, <1>7, <3>2
        <4> QED
          BY <1>7, <4>1 DEF Pkid
      <3> QED
        BY <3>1, <3>2
    <2> QED
      BY <1>6, <2>1, <2>2 DEF SeqSet, w
  <1> QED
    BY <1>8, <1>9

\* The correlation follows from the invariant.
LEMMA InvTracksClient == PublisherInv => TrackerMatchesClient
  <1> SUFFICES ASSUME PublisherInv PROVE TrackerMatchesClient
    OBVIOUS
  <1>1. Shape /\ SendsRow
    BY ShapeFacts DEF PublisherInv
  <1>2. PICK m : Tracks(Pipe, queued, inflight, last_pkid, m)
    BY DEF PublisherInv, PipeTracked
  <1> DEFINE k == m - Len(outgoing)
  <1>3. /\ k \in 0..Len(pending)
        /\ \A i \in 1..Len(pending) : /\ Len(outgoing) + i \in 1..Len(Pipe)
                                      /\ Pipe[Len(outgoing) + i] = pending[i]
    BY <1>1, <1>2, NumberedAreKept
  <1>4. m \in Nat /\ \A i \in 1..Len(Pipe) : Pipe[i][1] = 0 <=> ~ (i <= m)
    BY <1>1, <1>2, SentNumbered
  <1>5. queued = Unsent(k)
    BY <1>1, <1>2, QueueIsUnsent
  <1>6. \A x \in Pkid :
          \/ \E e \in SeqSet(outgoing \o pending) : e = <<x, inflight[x]>>
          \/ inflight[x] = 0 /\ \A e \in SeqSet(outgoing \o pending) : e[1] # x
    BY <1>1, <1>2, MapIsSent
  <1>7. DOMAIN pending = 1..Len(pending) /\ Len(pending) \in Nat /\ Len(outgoing) \in Nat
    BY <1>1, LenProperties DEF Shape
  <1> HIDE DEF Pipe
  <1>8. ASSUME NEW i \in 1..Len(pending) PROVE pending[i][1] = 0 <=> i > k
    <2>1. pending[i][1] = 0 <=> ~ (Len(outgoing) + i <= m)
      BY <1>3, <1>4
    <2>2. ~ (Len(outgoing) + i <= m) <=> i > k
      BY <1>4, <1>7
    <2> QED
      BY <2>1, <2>2
  <1> HIDE DEF k
  <1>9. \A i \in DOMAIN pending : pending[i][1] = 0 <=> i > k
    BY <1>7, <1>8
  <1> QED
    BY <1>3, <1>5, <1>6, <1>9 DEF TrackerMatchesClient

-----------------------------------------------------------------------------
(* The theorems *)

\* Every variable keeps its type, and the request channel, the client's window,
\* the PUBACK channel and the set of pending acknowledgements keep to their
\* capacities.
THEOREM PublisherTypeCorrect == Spec => []TypeOK
  <1>1. PublisherInv => TypeOK
    BY DEF PublisherInv
  <1> QED
    BY <1>1, PublisherInductive, PTL

\* PublishTracker attributes every packet id to the row published under it, and
\* its queue lists the rows that wait for one in the client's order, through
\* retransmissions, reconnections, rejected rows and restarts, as long as the
\* broker keeps the session.
THEOREM TrackerIsRight == Spec => []TrackerMatchesClient
  BY InvTracksClient, PublisherInductive, PTL

\* A row is marked published only if the broker has accepted its event: no crash,
\* failed UPDATE, dropped PUBACK or reconnection loses one (SPEC.md RNF-2, CA-10).
THEOREM NoEventLost == Spec => []PublishedWasDelivered
  <1>1. PublisherInv => PublishedWasDelivered
    BY DEF PublisherInv
  <1> QED
    BY <1>1, PublisherInductive, PTL

\* When an event reaches the broker, every row committed before it has reached
\* the broker or is one that the client rejects.
THEOREM FirstDeliveriesOrdered == Spec => []FirstDeliveryInOrder
  <1>1. PublisherInv => FirstDeliveryInOrder
    BY DEF PublisherInv
  <1> QED
    BY <1>1, PublisherInductive, PTL
=============================================================================
