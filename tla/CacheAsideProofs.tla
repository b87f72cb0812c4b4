-------------------------- MODULE CacheAsideProofs --------------------------
(***************************************************************************)
(* What may go wrong between the rows of a store and the cache, for every  *)
(* set of keys, any number of readers and changes, batches and queues of   *)
(* any size, and crashes of both processes at any step.                    *)
(***************************************************************************)
EXTENDS CacheAside, SequenceTheorems, WellFoundedInduction, TLAPS

One(b) == IF b THEN 1 ELSE 0

\* Jobs are never empty, so that a job received is still there when it is counted out.
JobsFull ==
  /\ counted => made # <<>>
  /\ taken => job # <<>>
  /\ \A i \in DOMAIN queue : queue[i] # <<>>

\* The gauge counts the channel, a job about to enter it and one that has just left it.
DepthExact == depth = Len(queue) + One(counted) + One(taken)

\* A row holds a change that was committed.
RowsCommitted ==
  \A k \in Keys : db[k].n <= commits /\ (db[k].live => db[k].n > 0)

\* A reader about to fill the cache holds a change no newer than the row, and the
\* row's own only while the row exists.
FillsKnown ==
  \A r \in Readers :
    reads[r].pc = "fill" => /\ reads[r].n <= db[reads[r].key].n
                            /\ reads[r].n = db[reads[r].key].n => db[reads[r].key].live

CacheInv == TypeOK /\ JobsFull /\ DepthExact /\ RowsCommitted /\ FillsKnown

-----------------------------------------------------------------------------
\* A non-empty set of positions up to n has a last one.
LEMMA LastPosition ==
  ASSUME NEW n \in Nat, NEW T, T \subseteq 1..n, T # {}
  PROVE  Max(T) \in T /\ \A y \in T : y <= Max(T)
  <1> DEFINE R == {ss \in Nat \X Nat : ss[1] < ss[2]}
             D == {n - x : x \in T}
  <1>1. IsWellFoundedOn(R, Nat)
    BY NatLessThanWellFounded, Zenon DEF OpToRel
  <1>2. D \subseteq Nat /\ D # {}
    <2>1. \A x \in T : n - x \in Nat
      OBVIOUS
    <2>2. PICK x \in T : TRUE
      OBVIOUS
    <2>3. n - x \in D
      BY <2>2
    <2> QED
      BY <2>1, <2>3
  <1>3. PICK d \in D : \A y \in D : ~ (<<y, d>> \in R)
    <2> HIDE DEF D, R
    <2> QED
      BY <1>1, <1>2, WFMin, Zenon
  <1>4. PICK x \in T : d = n - x
    OBVIOUS
  <1>5. \A y \in T : y <= x
    <2> SUFFICES ASSUME NEW y \in T PROVE y <= x
      OBVIOUS
    <2>1. n - y \in D /\ n - y \in Nat /\ d \in Nat
      BY <1>2
    <2>2. ~ (n - y < d)
      BY <1>3, <2>1
    <2> QED
      BY <1>4, <2>2
  <1> QED
    BY <1>5, Zenon DEF Max

\* What becomes of a row: the batch's last update of the key decides.
RowAfter(md, len, k, old, new) ==
  \/ Spares(md, k) /\ new = old
  \/ \E i \in 1..len : /\ md[i].key = k
                       /\ new = [n |-> md[i].n, live |-> ~ md[i].del]
                       /\ \A x \in 1..len : x > i => md[x].key # k

\* What a commit leaves in made and in the rows.
LEMMA CommitFacts ==
  ASSUME CacheInv, NEW len \in 1..MaxBatch, NEW ks \in [1..len -> Keys],
         NEW dels \in [1..len -> BOOLEAN], Commit(ks, dels)
  PROVE  /\ commits' \in 0..MaxCommits /\ commits <= commits' /\ made = <<>> /\ made' \in Seq(Updates)
         /\ made' # <<>> /\ DOMAIN made' = 1..len
         /\ \A i \in 1..len : made'[i].n > commits /\ made'[i].n <= commits'
         /\ DOMAIN db' = Keys
         /\ \A k \in Keys : RowAfter(made', len, k, db[k], db'[k])
  <1>1. len \in Nat /\ len > 0 /\ Len(ks) = len /\ DOMAIN ks = 1..len /\ ks \in Seq(Keys)
    BY CacheConstants
  <1>2. commits \in Nat /\ commits' = commits + len /\ commits + len <= MaxCommits
    BY <1>1, CacheConstants DEF CacheInv, TypeOK, Commit
  <1>3. made' = [i \in 1..len |-> [key |-> ks[i], n |-> commits + i, del |-> dels[i]]]
    BY <1>1 DEF Commit
  <1>4. \A i \in 1..len : /\ made'[i] \in Updates
                          /\ made'[i].n > commits /\ made'[i].n <= commits'
    BY <1>1, <1>2, <1>3, CacheConstants DEF Updates, Change
  <1>5. DOMAIN made' = 1..len /\ made' \in Seq(Updates) /\ Len(made') = len
    <2>1. DOMAIN made' = 1..len /\ made' \in [1..len -> Updates]
      BY <1>3, <1>4
    <2> QED
      BY <1>1, <2>1
  <1>6. made' # <<>>
    BY <1>1, <1>5
  <1>7. ASSUME NEW k \in Keys
        PROVE  RowAfter(made', len, k, db[k], db'[k])
    <2> DEFINE I == {i \in 1..len : made'[i].key = k}
               last == IF I # {} THEN Max(I) ELSE 0
    <2>1. db'[k] = IF last = 0 THEN db[k] ELSE [n |-> made'[last].n, live |-> ~ made'[last].del]
      BY <1>1 DEF Commit, SelectLastInSubSeq
    <2>2. \/ last = 0 /\ Spares(made', k)
          \/ /\ last \in DOMAIN made' /\ last # 0 /\ made'[last].key = k
             /\ \A x \in DOMAIN made' : x > last => made'[x].key # k
      <3>1. \A i : i \in I <=> (i \in 1..len /\ made'[i].key = k)
        OBVIOUS
      <3>2. (I # {} /\ last = Max(I)) \/ (I = {} /\ last = 0)
        OBVIOUS
      <3> HIDE DEF I, last
      <3>3. CASE I = {}
        BY <1>5, <3>1, <3>2, <3>3 DEF Spares
      <3>4. CASE I # {}
        <4>1. I \subseteq 1..len
          BY <3>1
        <4>2. Max(I) \in I /\ \A y \in I : y <= Max(I)
          BY <1>1, <3>4, <4>1, LastPosition
        <4>3. last \in I /\ \A y \in I : y <= last
          BY <3>2, <3>4, <4>2
        <4>4. ASSUME NEW x \in 1..len, x > last PROVE x \notin I
          BY <4>1, <4>3, <4>4
        <4> QED
          BY <1>1, <1>5, <3>1, <4>1, <4>3, <4>4
      <3> QED
        BY <3>3, <3>4
    <2> HIDE DEF last
    <2> QED
      BY <1>5, <2>1, <2>2 DEF RowAfter
  <1>8. DOMAIN db' = Keys /\ made = <<>>
    BY DEF Commit
  <1> QED
    BY <1>1, <1>2, <1>4, <1>5, <1>6, <1>7, <1>8, CacheConstants

-----------------------------------------------------------------------------
(* The invariant *)

\* A reader's state is told by its pc.
LEMMA ReadingFacts ==
  ASSUME TypeOK, NEW r \in Readers
  PROVE  /\ reads[r].pc = "fill" => reads[r] \in [pc : {"fill"}, key : Keys, n : Change]
         /\ reads[r].pc \in {"get", "select"} => reads[r] \in [pc : {"get", "select"}, key : Keys]
  <1> DEFINE x == reads[r]
  <1>1. \/ x = Idle
        \/ x \in [pc : {"get", "select"}, key : Keys]
        \/ x \in [pc : {"fill"}, key : Keys, n : Change]
    BY DEF TypeOK
  <1> HIDE DEF x
  <1>2. CASE x = Idle
    BY <1>2 DEF Idle, x
  <1>3. CASE x \in [pc : {"get", "select"}, key : Keys]
    BY <1>3 DEF x
  <1>4. CASE x \in [pc : {"fill"}, key : Keys, n : Change]
    BY <1>4 DEF x
  <1> QED
    BY <1>1, <1>2, <1>3, <1>4

\* The initial state.
LEMMA InitCache == Init => CacheInv
  <1> SUFFICES ASSUME Init PROVE CacheInv
    OBVIOUS
  <1>1. TypeOK
    <2>1. /\ commits \in 0..MaxCommits /\ depth \in 0..(QueueCapacity + 2)
          /\ Len(queue) <= QueueCapacity /\ cache \in [Keys -> 0..MaxCommits]
          /\ db \in [Keys -> [n : 0..MaxCommits, live : BOOLEAN]]
      BY CacheConstants DEF Init
    <2>2. made \in Seq(Updates) /\ queue \in Seq(Seq(Updates)) /\ job \in Seq(Updates)
      BY DEF Init
    <2>4. counted \in BOOLEAN /\ taken \in BOOLEAN /\ up \in BOOLEAN
      BY Zenon DEF Init
    <2>3. reads \in [Readers -> {Idle} \cup [pc : {"get", "select"}, key : Keys]
                                    \cup [pc : {"fill"}, key : Keys, n : Change]]
      BY DEF Init
    <2> QED
      BY <2>1, <2>2, <2>3, <2>4 DEF Init, TypeOK
  <1>2. JobsFull /\ DepthExact /\ RowsCommitted /\ FillsKnown
    BY DEF Init, JobsFull, DepthExact, RowsCommitted, FillsKnown, Idle, One
  <1> QED
    BY <1>1, <1>2 DEF CacheInv

\* A commit makes changes newer than all before.
LEMMA CommitKeeps ==
  ASSUME CacheInv, NEW len \in 1..MaxBatch, NEW ks \in [1..len -> Keys],
         NEW dels \in [1..len -> BOOLEAN], Commit(ks, dels)
  PROVE  CacheInv'
  <1>1. UNCHANGED <<counted, queue, job, taken, depth, link, up, cache, reads>>
    BY DEF Commit
  <1>2. ASSUME NEW k \in Keys
        PROVE  \/ db'[k] = db[k]
               \/ /\ db'[k] \in [n : 0..MaxCommits, live : BOOLEAN]
                  /\ db'[k].n > commits /\ db'[k].n <= commits'
    <2>1. ASSUME NEW i \in 1..len, db'[k] = [n |-> made'[i].n, live |-> ~ made'[i].del]
          PROVE  /\ db'[k] \in [n : 0..MaxCommits, live : BOOLEAN]
                 /\ db'[k].n > commits /\ db'[k].n <= commits'
      <3>1. made'[i] \in Updates
        BY CommitFacts, ElementOfSeq
      <3>2. made'[i].n \in 0..MaxCommits
        BY <3>1, CacheConstants DEF Updates, Change
      <3>3. made'[i].n > commits /\ made'[i].n <= commits'
        BY CommitFacts
      <3>4. db'[k].n = made'[i].n
        BY <2>1
      <3>5. db'[k] \in [n : 0..MaxCommits, live : BOOLEAN]
        BY <2>1, <3>2
      <3> QED
        BY <3>3, <3>4, <3>5
    <2>2. RowAfter(made', len, k, db[k], db'[k])
      BY CommitFacts
    <2> QED
      BY <2>1, <2>2 DEF RowAfter
  <1>3. TypeOK'
    <2>1. db' \in [Keys -> [n : 0..MaxCommits, live : BOOLEAN]]
      <3>1. \A k \in Keys : db'[k] \in [n : 0..MaxCommits, live : BOOLEAN]
        BY <1>2 DEF CacheInv, TypeOK
      <3>2. db' = [k \in Keys |-> db'[k]]
        BY DEF Commit
      <3> QED
        BY <3>1, <3>2, Zenon
    <2> QED
      BY <1>1, <2>1, CommitFacts DEF CacheInv, TypeOK
  <1>4. JobsFull' /\ DepthExact'
    BY <1>1, CommitFacts DEF CacheInv, JobsFull, DepthExact
  <1>5. \A k \in Keys : db[k].n \in Nat /\ db[k].n <= commits /\ (db[k].live => db[k].n > 0)
    BY CacheConstants DEF CacheInv, TypeOK, RowsCommitted
  <1>6. commits \in Nat /\ commits' \in Nat /\ commits <= commits'
    <2>1. commits' \in 0..MaxCommits /\ commits <= commits'
      BY CommitFacts, Zenon
    <2> QED
      BY <2>1, CacheConstants DEF CacheInv, TypeOK
  <1>7. RowsCommitted'
    <2> SUFFICES ASSUME NEW k \in Keys PROVE db'[k].n <= commits' /\ (db'[k].live => db'[k].n > 0)
      BY DEF RowsCommitted
    <2>1. CASE db'[k] = db[k]
      BY <1>5, <1>6, <2>1
    <2>2. CASE db'[k] # db[k]
      <3>1. db'[k].n \in Nat /\ db'[k].n > commits /\ db'[k].n <= commits'
        BY <1>2, <2>2, CacheConstants
      <3> QED
        BY <1>6, <3>1
    <2> QED
      BY <2>1, <2>2
  <1>8. FillsKnown'
    <2> SUFFICES ASSUME NEW r \in Readers, reads[r].pc = "fill"
                 PROVE  /\ reads[r].n <= db'[reads[r].key].n
                        /\ reads[r].n = db'[reads[r].key].n => db'[reads[r].key].live
      BY <1>1 DEF FillsKnown
    <2> DEFINE k == reads[r].key
    <2>1. k \in Keys /\ reads[r].n \in Nat
      <3>1. reads[r] \in [pc : {"fill"}, key : Keys, n : Change]
        BY ReadingFacts DEF CacheInv
      <3> QED
        BY <3>1, CacheConstants DEF Change
    <2>2. reads[r].n <= db[k].n /\ (reads[r].n = db[k].n => db[k].live)
      BY DEF CacheInv, FillsKnown
    <2> HIDE DEF k
    <2>3. CASE db'[k] = db[k]
      BY <2>2, <2>3 DEF k
    <2>4. CASE db'[k] # db[k]
      <3>1. db'[k].n \in Nat /\ db'[k].n > commits
        BY <1>2, <2>1, <2>4, CacheConstants
      <3>2. reads[r].n < db'[k].n
        BY <1>5, <1>6, <2>1, <2>2, <3>1
      <3> QED
        BY <2>1, <3>1, <3>2 DEF k
    <2> QED
      BY <2>3, <2>4
  <1> QED
    BY <1>3, <1>4, <1>7, <1>8 DEF CacheInv

\* The writer's main loop and the cache-sync thread, counting.
LEMMA QueueKeeps ==
  ASSUME CacheInv, MainLoop \/ Worker
  PROVE  CacheInv'
  <1> USE DEF CacheInv
  <1>1. /\ Len(queue) \in Nat /\ Len(queue) <= QueueCapacity /\ depth \in Nat
        /\ counted \in BOOLEAN /\ taken \in BOOLEAN /\ QueueCapacity \in Nat \ {0}
        /\ queue \in Seq(Seq(Updates)) /\ made \in Seq(Updates) /\ job \in Seq(Updates)
    BY CacheConstants, LenProperties DEF TypeOK
  <1>2. ASSUME UNCHANGED <<commits, db, link, up, reads>>, cache' \in [Keys -> 0..MaxCommits],
               made' \in Seq(Updates), counted' \in BOOLEAN,
               queue' \in Seq(Seq(Updates)), Len(queue') <= QueueCapacity, Len(queue') \in Nat,
               job' \in Seq(Updates), taken' \in BOOLEAN, JobsFull', DepthExact'
        PROVE  CacheInv'
    <2>1. depth' \in 0..(QueueCapacity + 2)
      <3>1. One(counted') \in {0, 1} /\ One(taken') \in {0, 1}
        BY DEF One
      <3>2. depth' = Len(queue') + One(counted') + One(taken')
        BY <1>2 DEF DepthExact
      <3> QED
        BY <1>1, <1>2, <3>1, <3>2, SMTT(60)
    <2>2. TypeOK'
      BY <1>2, <2>1 DEF TypeOK
    <2>3. RowsCommitted' /\ FillsKnown'
      BY <1>2 DEF RowsCommitted, FillsKnown
    <2> QED
      BY <1>2, <2>2, <2>3
  <1>3. CASE CountIn
    <2>1. JobsFull' /\ DepthExact'
      BY <1>1, <1>3 DEF CountIn, JobsFull, DepthExact, One
    <2> QED
      BY <1>1, <1>2, <1>3, <2>1 DEF CountIn, TypeOK
  <1>4. CASE TrySend
    <2>1. /\ queue' \in Seq(Seq(Updates)) /\ Len(queue') = Len(queue) + 1
          /\ \A i \in DOMAIN queue' : queue'[i] = IF i = Len(queue) + 1 THEN made ELSE queue[i]
          /\ DOMAIN queue' = 1..(Len(queue) + 1) /\ DOMAIN queue = 1..Len(queue)
      BY <1>1, <1>4, AppendProperties, LenProperties DEF TrySend
    <2>2. JobsFull'
      BY <1>1, <1>4, <2>1 DEF TrySend, JobsFull
    <2>3. DepthExact'
      BY <1>1, <1>4, <2>1 DEF TrySend, DepthExact, One
    <2>4. Len(queue') <= QueueCapacity /\ Len(queue') \in Nat
      BY <1>1, <1>4, <2>1 DEF TrySend
    <2>5. made' \in Seq(Updates)
      BY <1>4 DEF TrySend
    <2>6. counted' \in BOOLEAN
      BY <1>4, Zenon DEF TrySend
    <2> QED
      BY <1>1, <1>2, <1>4, <2>1, <2>2, <2>3, <2>4, <2>5, <2>6 DEF TrySend, TypeOK
  <1>5. CASE TrySendFull
    <2>1. JobsFull' /\ DepthExact'
      BY <1>1, <1>5 DEF TrySendFull, JobsFull, DepthExact, One
    <2>2. made' \in Seq(Updates)
      BY <1>5 DEF TrySendFull
    <2>3. counted' \in BOOLEAN
      BY <1>5, Zenon DEF TrySendFull
    <2> QED
      BY <1>1, <1>2, <1>5, <2>1, <2>2, <2>3 DEF TrySendFull, TypeOK
  <1>6. CASE WorkerReceives
    <2>1. /\ queue # <<>> /\ job' = queue[1] /\ queue[1] \in Seq(Updates) /\ 1 \in DOMAIN queue
          /\ queue' \in Seq(Seq(Updates)) /\ Len(queue') = Len(queue) - 1 /\ Len(queue') \in Nat
      BY <1>1, <1>6, HeadTailProperties, LenProperties, EmptySeq, ElementOfSeq DEF WorkerReceives
    <2>2. \A i \in DOMAIN queue' : i + 1 \in DOMAIN queue /\ queue'[i] = queue[i + 1]
      BY <1>1, <1>6, <2>1, HeadTailProperties, LenProperties DEF WorkerReceives
    <2>3. JobsFull'
      BY <1>6, <2>1, <2>2 DEF WorkerReceives, JobsFull
    <2>4. DepthExact'
      <3>1. taken = FALSE /\ taken' = TRUE /\ counted' = counted /\ depth' = depth
        BY <1>1, <1>6 DEF WorkerReceives, JobsFull
      <3>2. One(taken) = 0 /\ One(taken') = 1 /\ One(counted) \in {0, 1} /\ One(counted') = One(counted)
        BY <3>1 DEF One
      <3>3. depth = Len(queue) + One(counted) + One(taken)
        BY DEF DepthExact
      <3>4. depth' = Len(queue') + One(counted') + One(taken')
        BY <1>1, <2>1, <3>1, <3>2, <3>3
      <3> QED
        BY <3>4 DEF DepthExact
    <2> QED
      BY <1>1, <1>2, <1>6, <2>1, <2>3, <2>4 DEF WorkerReceives, TypeOK
  <1>7. CASE CountOut
    <2>1. JobsFull' /\ DepthExact'
      BY <1>1, <1>7 DEF CountOut, JobsFull, DepthExact, One
    <2> QED
      BY <1>1, <1>2, <1>7, <2>1 DEF CountOut, TypeOK
  <1>8. CASE WorkerApplies \/ WorkerLosesWrite \/ WorkerFails
    <2>1. ~ taken /\ job # <<>> /\ job' = Tail(job) /\ UNCHANGED <<commits, db, made, counted, queue, taken, depth, link, up, reads>>
      BY <1>8 DEF WorkerApplies, WorkerLosesWrite, WorkerFails
    <2>2. job' \in Seq(Updates) /\ job[1] \in Updates /\ Head(job) = job[1]
      BY <1>1, <2>1, HeadTailProperties, EmptySeq, ElementOfSeq, LenProperties
    <2>3. cache' \in [Keys -> 0..MaxCommits]
      <3>1. entry(job[1]) \in 0..MaxCommits
        BY <2>2, CacheConstants DEF entry, Updates, Change
      <3> QED
        BY <1>8, <2>2, <3>1, ZenonT(60) DEF WorkerApplies, WorkerLosesWrite, WorkerFails, TypeOK
    <2>4. JobsFull' /\ DepthExact'
      BY <2>1 DEF JobsFull, DepthExact
    <2> QED
      BY <1>1, <1>2, <2>1, <2>2, <2>3, <2>4
  <1> QED
    BY <1>3, <1>4, <1>5, <1>6, <1>7, <1>8 DEF MainLoop, Worker

\* A read.
LEMMA ReadKeeps ==
  ASSUME CacheInv, NEW r \in Readers, Read(r) \/ \E k \in Keys : StartRead(r, k)
  PROVE  CacheInv'
  <1> USE DEF CacheInv
  <1> DEFINE Reading == {Idle} \cup [pc : {"get", "select"}, key : Keys]
                               \cup [pc : {"fill"}, key : Keys, n : Change]
  <1>1. UNCHANGED <<commits, db, made, counted, queue, job, taken, depth, link, up>>
    BY DEF Read, StartRead, GetHit, GetMiss, Select, Fill, writer
  <1>2. ASSUME NEW x \in Reading, reads' = [reads EXCEPT ![r] = x], cache' \in [Keys -> 0..MaxCommits],
               x.pc = "fill" => db[x.key].live /\ x.n = db[x.key].n
        PROVE  CacheInv'
    <2>1. TypeOK' /\ JobsFull' /\ DepthExact' /\ RowsCommitted'
      BY <1>1, <1>2 DEF TypeOK, JobsFull, DepthExact, RowsCommitted
    <2>2. FillsKnown'
      <3> SUFFICES ASSUME NEW q \in Readers, reads'[q].pc = "fill"
                   PROVE  /\ reads'[q].n <= db[reads'[q].key].n
                          /\ reads'[q].n = db[reads'[q].key].n => db[reads'[q].key].live
        BY <1>1 DEF FillsKnown
      <3>1. CASE q # r
        BY <1>2, <3>1 DEF FillsKnown, TypeOK
      <3>2. CASE q = r
        <4>1. reads'[q] = x
          BY <1>2, <3>2 DEF TypeOK
        <4>2. x.n \in Nat
          BY <1>2, <4>1, CacheConstants DEF Change, Idle
        <4> QED
          BY <1>2, <4>1, <4>2
      <3> QED
        BY <3>1, <3>2
    <2> QED
      BY <2>1, <2>2
  <1>3. ASSUME NEW k \in Keys, StartRead(r, k) PROVE CacheInv'
    <2>1. [pc |-> "get", key |-> k] \in Reading
      OBVIOUS
    <2> QED
      BY <1>2, <1>3, <2>1 DEF StartRead, TypeOK
  <1>4. Idle \in Reading /\ Idle.pc = "idle"
    BY DEF Idle
  <1>5. CASE GetHit(r)
    BY <1>2, <1>4, <1>5 DEF GetHit, TypeOK
  <1>6. CASE GetMiss(r)
    <2>1. reads[r] \in [pc : {"get", "select"}, key : Keys]
      BY <1>6, ReadingFacts DEF GetMiss
    <2>2. [pc |-> "select", key |-> reads[r].key] \in Reading
      BY <2>1
    <2>3. reads' = [reads EXCEPT ![r] = [pc |-> "select", key |-> reads[r].key]]
      <3>1. [reads[r] EXCEPT !.pc = "select"] = [pc |-> "select", key |-> reads[r].key]
        BY <2>1
      <3> QED
        BY <1>6, <3>1 DEF GetMiss
    <2> QED
      BY <1>2, <1>6, <2>2, <2>3 DEF GetMiss, TypeOK
  <1>7. CASE Select(r)
    <2> DEFINE k == reads[r].key
               x == IF db[k].live THEN [pc |-> "fill", key |-> k, n |-> db[k].n] ELSE Idle
    <2>1. k \in Keys
      BY <1>7, ReadingFacts DEF Select
    <2>2. x \in Reading /\ (x.pc = "fill" => db[x.key].live /\ x.n = db[x.key].n)
      <3>1. db[k].live => db[k].n \in Change
        BY <2>1, CacheConstants DEF TypeOK, RowsCommitted, Change
      <3> HIDE DEF k
      <3> QED
        BY <1>4, <2>1, <3>1
    <2>3. reads' = [reads EXCEPT ![r] = x]
      BY <1>7 DEF Select
    <2> HIDE DEF x
    <2> QED
      BY <1>2, <1>7, <2>2, <2>3 DEF Select, TypeOK
  <1>8. CASE Fill(r)
    <2>1. reads[r] \in [pc : {"fill"}, key : Keys, n : Change]
      BY <1>8, ReadingFacts DEF Fill
    <2>2. cache' \in [Keys -> 0..MaxCommits]
      <3>1. reads[r].n \in 0..MaxCommits
        BY <2>1, CacheConstants DEF Change
      <3>2. \/ cache' = [cache EXCEPT ![reads[r].key] = reads[r].n]
            \/ cache' = cache
        BY <1>8, Zenon DEF Fill
      <3> QED
        BY <3>1, <3>2, Zenon DEF TypeOK
    <2> QED
      BY <1>2, <1>4, <1>8, <2>2 DEF Fill
  <1> QED
    BY <1>3, <1>5, <1>6, <1>7, <1>8 DEF Read

\* Processes stop and start.
LEMMA ProcessKeeps ==
  ASSUME CacheInv, CacheServerStops \/ CacheServerStarts \/ WriterStops \/ WriterStarts
  PROVE  CacheInv'
  <1> USE DEF CacheInv
  <1>1. CASE CacheServerStops
    <2>1. link' \in {"open", "broken", "none"} /\ up' \in BOOLEAN
      BY <1>1, Zenon DEF CacheServerStops, TypeOK
    <2> QED
      BY <1>1, <2>1 DEF CacheServerStops, TypeOK, JobsFull, DepthExact, RowsCommitted, FillsKnown
  <1>2. CASE CacheServerStarts
    <2>1. up' \in BOOLEAN
      BY <1>2, Zenon DEF CacheServerStarts
    <2> QED
      BY <1>2, <2>1 DEF CacheServerStarts, writer, TypeOK, JobsFull, DepthExact, RowsCommitted, FillsKnown
  <1>3. CASE WriterStops
    <2>1. counted' = FALSE /\ taken' = FALSE /\ made' = <<>> /\ queue' = <<>> /\ job' = <<>> /\ depth' = 0
          /\ link' = "none" /\ UNCHANGED <<commits, db, up, cache, reads>>
      BY <1>3 DEF WriterStops
    <2>2. counted' \in BOOLEAN /\ taken' \in BOOLEAN
      BY <2>1, Zenon
    <2>3. /\ made' \in Seq(Updates) /\ queue' \in Seq(Seq(Updates)) /\ job' \in Seq(Updates)
          /\ Len(queue') <= QueueCapacity /\ depth' \in 0..(QueueCapacity + 2)
      BY <2>1, CacheConstants
    <2>4. TypeOK'
      BY <2>1, <2>2, <2>3 DEF TypeOK
    <2>5. JobsFull' /\ DepthExact'
      BY <2>1 DEF JobsFull, DepthExact, One
    <2>6. RowsCommitted' /\ FillsKnown'
      BY <2>1 DEF RowsCommitted, FillsKnown
    <2> QED
      BY <2>4, <2>5, <2>6
  <1>4. CASE WriterStarts
    BY <1>4 DEF WriterStarts, TypeOK, JobsFull, DepthExact, RowsCommitted, FillsKnown
  <1> QED
    BY <1>1, <1>2, <1>3, <1>4

\* Every step keeps the inductive invariant.
LEMMA CacheStep == CacheInv /\ [Next]_vars => CacheInv'
  <1> SUFFICES ASSUME CacheInv, [Next]_vars PROVE CacheInv'
    OBVIOUS
  <1>1. ASSUME NEW len \in 1..MaxBatch, NEW ks \in [1..len -> Keys], NEW dels \in [1..len -> BOOLEAN],
               Commit(ks, dels)
        PROVE  CacheInv'
    BY <1>1, CommitKeeps
  <1>2. CASE MainLoop \/ Worker
    BY <1>2, QueueKeeps
  <1>3. ASSUME NEW r \in Readers, Read(r) \/ \E k \in Keys : StartRead(r, k) PROVE CacheInv'
    BY <1>3, ReadKeeps
  <1>4. CASE CacheServerStops \/ CacheServerStarts \/ WriterStops \/ WriterStarts
    BY <1>4, ProcessKeeps
  <1>5. CASE UNCHANGED vars
    BY <1>5 DEF vars, CacheInv, TypeOK, JobsFull, DepthExact, RowsCommitted, FillsKnown
  <1> QED
    BY <1>1, <1>2, <1>3, <1>4, <1>5, Zenon DEF Next

\* The inductive invariant always holds.
LEMMA CacheInductive == Spec => []CacheInv
  BY InitCache, CacheStep, PTL DEF Spec

\* Every variable keeps its type, and the queue of jobs never outgrows its capacity.
THEOREM CacheTypeCorrect == Spec => []TypeOK
  <1>1. CacheInv => TypeOK
    BY DEF CacheInv
  <1> QED
    BY <1>1, CacheInductive, PTL

\* The depth gauge, changed by two threads before and after the channel itself,
\* never counts fewer jobs than wait in the channel, so that the unsigned counter
\* never wraps below zero.
THEOREM DepthNeverShort == Spec => []DepthCountsQueue
  <1>1. CacheInv => DepthCountsQueue
    <2> SUFFICES ASSUME CacheInv PROVE depth >= Len(queue)
      BY DEF DepthCountsQueue
    <2>1. Len(queue) \in Nat
      BY LenProperties DEF CacheInv, TypeOK
    <2>2. One(counted) \in {0, 1} /\ One(taken) \in {0, 1}
      BY DEF One
    <2>3. depth = Len(queue) + One(counted) + One(taken)
      BY DEF CacheInv, DepthExact
    <2> QED
      BY <2>1, <2>2, <2>3
  <1> QED
    BY <1>1, CacheInductive, PTL

-----------------------------------------------------------------------------
(* The losses *)

\* Coming and Settled as functions of what they are about.
Lines(jb, q, md) == [j \in 0..(Len(q) + 1) |-> IF j = 0 THEN jb
                                               ELSE IF j <= Len(q) THEN q[j] ELSE md]
SettledIn(C, c, row, k) ==
  \/ Agrees(c, row) /\ \A j \in DOMAIN C : Spares(C[j], k)
  \/ \E j \in DOMAIN C : Mends(C[j], k, row) /\ \A x \in DOMAIN C : x > j => Spares(C[x], k)

\* The last of batch, channel, job and entry that touches the key decides.
QueueSpares(q, k) == \A x \in DOMAIN q : Spares(q[x], k)
QueueMends(q, k, row) ==
  \E j \in DOMAIN q : Mends(q[j], k, row) /\ \A x \in DOMAIN q : x > j => Spares(q[x], k)
Decided(jb, q, md, c, row, k) ==
  \/ Mends(md, k, row)
  \/ Spares(md, k) /\ QueueMends(q, k, row)
  \/ Spares(md, k) /\ QueueSpares(q, k) /\ Mends(jb, k, row)
  \/ Spares(md, k) /\ QueueSpares(q, k) /\ Spares(jb, k) /\ Agrees(c, row)

\* What an entry settles to, by the last update on its way.
LEMMA SettledAsDecided ==
  ASSUME NEW jb, NEW q, Len(q) \in Nat, DOMAIN q = 1..Len(q), NEW md, NEW c, NEW row, NEW k
  PROVE  SettledIn(Lines(jb, q, md), c, row, k) <=> Decided(jb, q, md, c, row, k)
  <1> DEFINE n == Len(q)
             C == Lines(jb, q, md)
             Sp(s) == Spares(s, k)
             Me(s) == Mends(s, k, row)
  <1>1. /\ DOMAIN C = 0..(n + 1) /\ C[0] = jb /\ C[n + 1] = md
        /\ \A j \in 1..n : C[j] = q[j]
    BY DEF Lines
  <1>2. \A j \in DOMAIN C : j \in Int /\ (j = 0 \/ j \in 1..n \/ j = n + 1)
    BY <1>1
  <1>3. n \in Nat /\ DOMAIN q = 1..n
    OBVIOUS
  <1> HIDE DEF n, C
  <1>4. (\A j \in DOMAIN C : Sp(C[j])) <=> (Sp(md) /\ Sp(jb) /\ \A j \in 1..n : Sp(q[j]))
    <2> HIDE DEF Sp
    <2> QED
      BY <1>1, <1>2, <1>3
  <1>5. (\A x \in DOMAIN C : x > 0 => Sp(C[x])) <=> (Sp(md) /\ \A j \in 1..n : Sp(q[j]))
    <2> HIDE DEF Sp
    <2> QED
      BY <1>1, <1>2, <1>3
  <1>6. \A x \in DOMAIN C : x > n + 1 => Sp(C[x])
    BY <1>1, <1>2, <1>3
  <1>7. ASSUME NEW j \in 1..n
        PROVE  (\A x \in DOMAIN C : x > j => Sp(C[x])) <=> (Sp(md) /\ \A x \in 1..n : x > j => Sp(q[x]))
    <2> HIDE DEF Sp
    <2> QED
      BY <1>1, <1>2, <1>3
  <1> HIDE DEF Sp, Me
  <1>8. (\E j \in DOMAIN C : Me(C[j]) /\ \A x \in DOMAIN C : x > j => Sp(C[x]))
          <=> \/ Me(md)
              \/ \E j \in 1..n : Me(q[j]) /\ Sp(md) /\ \A x \in 1..n : x > j => Sp(q[x])
              \/ Me(jb) /\ Sp(md) /\ \A x \in 1..n : Sp(q[x])
    <2>1. ASSUME NEW j \in DOMAIN C, Me(C[j]), \A x \in DOMAIN C : x > j => Sp(C[x])
          PROVE  \/ Me(md)
                 \/ \E y \in 1..n : Me(q[y]) /\ Sp(md) /\ \A x \in 1..n : x > y => Sp(q[x])
                 \/ Me(jb) /\ Sp(md) /\ \A x \in 1..n : Sp(q[x])
      <3>1. CASE j = 0
        BY <1>1, <1>5, <2>1, <3>1
      <3>2. CASE j \in 1..n
        BY <1>1, <1>7, <2>1, <3>2
      <3>3. CASE j = n + 1
        BY <1>1, <2>1, <3>3
      <3> QED
        BY <1>2, <3>1, <3>2, <3>3
    <2>2. ASSUME Me(md) PROVE \E j \in DOMAIN C : Me(C[j]) /\ \A x \in DOMAIN C : x > j => Sp(C[x])
      <3>1. n + 1 \in DOMAIN C /\ Me(C[n + 1])
        BY <1>1, <1>3, <2>2
      <3> QED
        BY <1>6, <3>1
    <2>3. ASSUME NEW j \in 1..n, Me(q[j]), Sp(md), \A x \in 1..n : x > j => Sp(q[x])
          PROVE  \E y \in DOMAIN C : Me(C[y]) /\ \A x \in DOMAIN C : x > y => Sp(C[x])
      <3>1. j \in DOMAIN C /\ Me(C[j])
        BY <1>1, <1>3, <2>3
      <3> QED
        BY <1>7, <2>3, <3>1
    <2>4. ASSUME Me(jb), Sp(md), \A x \in 1..n : Sp(q[x])
          PROVE  \E j \in DOMAIN C : Me(C[j]) /\ \A x \in DOMAIN C : x > j => Sp(C[x])
      <3>1. 0 \in DOMAIN C /\ Me(C[0])
        BY <1>1, <1>3, <2>4
      <3> QED
        BY <1>5, <2>4, <3>1
    <2> QED
      BY <2>1, <2>2, <2>3, <2>4, Zenon
  <1>9. SettledIn(C, c, row, k) <=>
          \/ Agrees(c, row) /\ \A j \in DOMAIN C : Sp(C[j])
          \/ \E j \in DOMAIN C : Me(C[j]) /\ \A x \in DOMAIN C : x > j => Sp(C[x])
    BY Zenon DEF SettledIn, Sp, Me
  <1>10. Decided(jb, q, md, c, row, k) <=>
           \/ Me(md)
           \/ Sp(md) /\ \E j \in 1..n : Me(q[j]) /\ \A x \in 1..n : x > j => Sp(q[x])
           \/ Sp(md) /\ (\A j \in 1..n : Sp(q[j])) /\ Me(jb)
           \/ Sp(md) /\ (\A j \in 1..n : Sp(q[j])) /\ Sp(jb) /\ Agrees(c, row)
    BY <1>3, Zenon DEF Decided, QueueMends, QueueSpares, Sp, Me
  <1>11. C = Lines(jb, q, md)
    BY DEF C
  <1> QED
    BY <1>4, <1>8, <1>9, <1>10, <1>11, Zenon

\* Whether key k is settled, before and after a step.
LEMMA SettledDecided ==
  ASSUME CacheInv, CacheInv', NEW k \in Keys
  PROVE  /\ Settled(k) <=> Decided(job, queue, made, cache[k], db[k], k)
         /\ Settled(k)' <=> Decided(job', queue', made', cache'[k], db'[k], k)
  <1>1. /\ Len(queue) \in Nat /\ DOMAIN queue = 1..Len(queue)
        /\ Len(queue') \in Nat /\ DOMAIN queue' = 1..Len(queue')
    BY LenProperties DEF CacheInv, TypeOK
  <1>2. Settled(k) <=> SettledIn(Lines(job, queue, made), cache[k], db[k], k)
    BY Zenon DEF Settled, SettledIn, Coming, Lines
  <1>3. Settled(k)' <=> SettledIn(Lines(job', queue', made'), cache'[k], db'[k], k)
    BY Zenon DEF Settled, SettledIn, Coming, Lines
  <1> QED
    BY <1>1, <1>2, <1>3, SettledAsDecided

\* An empty job updates nothing.
LEMMA EmptyFacts ==
  ASSUME NEW k, NEW row
  PROVE  Spares(<<>>, k) /\ ~ Mends(<<>>, k, row)
  BY DEF Spares, Mends

\* A batch that enters the channel is still the last.
LEMMA AppendedJob ==
  ASSUME NEW q \in Seq(Seq(Updates)), NEW md \in Seq(Updates), NEW k, NEW row
  PROVE  /\ QueueSpares(Append(q, md), k) <=> QueueSpares(q, k) /\ Spares(md, k)
         /\ Mends(md, k, row) => QueueMends(Append(q, md), k, row)
         /\ Spares(md, k) /\ QueueMends(q, k, row) => QueueMends(Append(q, md), k, row)
  <1> DEFINE n == Len(q)
             a == Append(q, md)
  <1>1. /\ n \in Nat /\ DOMAIN q = 1..n /\ DOMAIN a = 1..(n + 1) /\ a[n + 1] = md
        /\ \A i \in 1..n : a[i] = q[i]
    BY AppendProperties, LenProperties
  <1> HIDE DEF n, a
  <1>2. QueueSpares(a, k) <=> QueueSpares(q, k) /\ Spares(md, k)
    BY <1>1 DEF QueueSpares
  <1>3. Mends(md, k, row) => QueueMends(a, k, row)
    BY <1>1 DEF QueueMends
  <1>4. ASSUME Spares(md, k), QueueMends(q, k, row) PROVE QueueMends(a, k, row)
    <2>1. PICK j \in 1..n : Mends(q[j], k, row) /\ \A x \in 1..n : x > j => Spares(q[x], k)
      BY <1>1, <1>4 DEF QueueMends
    <2>2. j \in DOMAIN a /\ Mends(a[j], k, row)
      BY <1>1, <2>1
    <2>3. \A x \in DOMAIN a : x > j => Spares(a[x], k)
      <3> SUFFICES ASSUME NEW x \in DOMAIN a, x > j PROVE Spares(a[x], k)
        OBVIOUS
      <3>1. CASE x = n + 1
        BY <1>1, <1>4, <3>1
      <3>2. CASE x \in 1..n
        BY <1>1, <2>1, <3>2
      <3>3. x = n + 1 \/ x \in 1..n
        <4>1. n \in Nat /\ x \in 1..(n + 1)
          BY <1>1
        <4> QED
          BY <4>1
      <3> QED
        BY <3>1, <3>2, <3>3
    <2> QED
      BY <2>2, <2>3 DEF QueueMends
  <1> QED
    BY <1>2, <1>3, <1>4 DEF a

\* The first job of the channel becomes the worker's.
LEMMA ReceivedJob ==
  ASSUME NEW q \in Seq(Seq(Updates)), q # <<>>, NEW k, NEW row
  PROVE  /\ QueueSpares(q, k) <=> QueueSpares(Tail(q), k) /\ Spares(Head(q), k)
         /\ QueueMends(q, k, row) =>
              QueueMends(Tail(q), k, row) \/ (QueueSpares(Tail(q), k) /\ Mends(Head(q), k, row))
  <1> DEFINE n == Len(q)
             t == Tail(q)
  <1>1. /\ n \in Nat /\ n > 0 /\ DOMAIN q = 1..n /\ DOMAIN t = 1..(n - 1) /\ Head(q) = q[1]
        /\ \A i \in 1..(n - 1) : t[i] = q[i + 1]
    BY HeadTailProperties, LenProperties, EmptySeq
  <1> HIDE DEF n, t
  <1>2. \A x \in 2..n : x - 1 \in 1..(n - 1) /\ t[x - 1] = q[x]
    <2> SUFFICES ASSUME NEW x \in 2..n PROVE x - 1 \in 1..(n - 1) /\ t[x - 1] = q[x]
      OBVIOUS
    <2>1. x - 1 \in 1..(n - 1) /\ (x - 1) + 1 = x
      BY <1>1
    <2> QED
      BY <1>1, <2>1
  <1>3. QueueSpares(q, k) <=> QueueSpares(t, k) /\ Spares(q[1], k)
    <2>1. ASSUME QueueSpares(q, k) PROVE QueueSpares(t, k) /\ Spares(q[1], k)
      <3>1. 1 \in DOMAIN q /\ \A x \in DOMAIN t : x + 1 \in DOMAIN q /\ t[x] = q[x + 1]
        BY <1>1
      <3> QED
        BY <2>1, <3>1, Zenon DEF QueueSpares
    <2>2. ASSUME QueueSpares(t, k), Spares(q[1], k) PROVE QueueSpares(q, k)
      <3> SUFFICES ASSUME NEW x \in 1..n PROVE Spares(q[x], k)
        BY <1>1 DEF QueueSpares
      <3>1. CASE x = 1
        BY <2>2, <3>1
      <3>2. CASE x \in 2..n
        BY <1>1, <1>2, <2>2, <3>2 DEF QueueSpares
      <3> QED
        BY <1>1, <3>1, <3>2
    <2> QED
      BY <2>1, <2>2
  <1>4. ASSUME QueueMends(q, k, row)
        PROVE  QueueMends(t, k, row) \/ (QueueSpares(t, k) /\ Mends(q[1], k, row))
    <2>1. PICK j \in 1..n : Mends(q[j], k, row) /\ \A x \in 1..n : x > j => Spares(q[x], k)
      BY <1>1, <1>4 DEF QueueMends
    <2>2. \A x \in 1..(n - 1) : x + 1 \in 1..n /\ t[x] = q[x + 1]
      BY <1>1
    <2>3. CASE j = 1
      <3>1. \A x \in 1..(n - 1) : x + 1 > j
        BY <1>1, <2>3
      <3>2. QueueSpares(t, k)
        BY <1>1, <2>1, <2>2, <3>1 DEF QueueSpares
      <3> QED
        BY <2>1, <2>3, <3>2
    <2>4. CASE j \in 2..n
      <3>1. j - 1 \in DOMAIN t /\ Mends(t[j - 1], k, row)
        BY <1>1, <1>2, <2>1, <2>4
      <3>2. \A x \in DOMAIN t : x > j - 1 => x + 1 > j
        BY <1>1, <2>4
      <3>3. \A x \in DOMAIN t : x > j - 1 => Spares(t[x], k)
        BY <1>1, <2>1, <2>2, <3>2
      <3> QED
        BY <3>1, <3>3 DEF QueueMends
    <2> QED
      BY <1>1, <2>3, <2>4
  <1> QED
    BY <1>1, <1>3, <1>4 DEF t

\* The first update of the worker's job reaches the entry.
LEMMA AppliedUpdate ==
  ASSUME NEW jb \in Seq(Updates), jb # <<>>, NEW k, NEW row
  PROVE  /\ Spares(jb, k) <=> Spares(Tail(jb), k) /\ Head(jb).key # k
         /\ Mends(jb, k, row) =>
              \/ Mends(Tail(jb), k, row)
              \/ Spares(Tail(jb), k) /\ Head(jb).key = k /\ Agrees(entry(Head(jb)), row)
  <1> DEFINE n == Len(jb)
             t == Tail(jb)
             Touch(u) == u.key = k
             Right(u) == Agrees(entry(u), row)
  <1>1. /\ n \in Nat /\ n > 0 /\ DOMAIN jb = 1..n /\ DOMAIN t = 1..(n - 1) /\ Head(jb) = jb[1]
        /\ \A i \in 1..(n - 1) : t[i] = jb[i + 1]
    BY HeadTailProperties, LenProperties, EmptySeq
  <1> HIDE DEF n, t
  <1>2. \A x \in 2..n : x - 1 \in 1..(n - 1) /\ t[x - 1] = jb[x]
    <2> SUFFICES ASSUME NEW x \in 2..n PROVE x - 1 \in 1..(n - 1) /\ t[x - 1] = jb[x]
      OBVIOUS
    <2>1. x - 1 \in 1..(n - 1) /\ (x - 1) + 1 = x
      BY <1>1
    <2> QED
      BY <1>1, <2>1
  <1>3. \A x \in 1..(n - 1) : x + 1 \in 1..n /\ t[x] = jb[x + 1]
    BY <1>1
  <1>4. /\ Spares(jb, k) <=> \A i \in 1..n : ~ Touch(jb[i])
        /\ Spares(t, k) <=> \A i \in 1..(n - 1) : ~ Touch(t[i])
    BY <1>1, Zenon DEF Spares
  <1>5. /\ Mends(jb, k, row) <=> \E i \in 1..n : /\ Touch(jb[i]) /\ Right(jb[i])
                                                /\ \A x \in 1..n : x > i => ~ Touch(jb[x])
        /\ Mends(t, k, row) <=> \E i \in 1..(n - 1) : /\ Touch(t[i]) /\ Right(t[i])
                                                      /\ \A x \in 1..(n - 1) : x > i => ~ Touch(t[x])
    BY <1>1, Zenon DEF Mends
  <1> HIDE DEF Touch, Right
  <1>6. Spares(jb, k) <=> Spares(t, k) /\ ~ Touch(jb[1])
    <2>1. ASSUME Spares(jb, k) PROVE Spares(t, k) /\ ~ Touch(jb[1])
      BY <1>1, <1>3, <1>4, <2>1
    <2>2. ASSUME Spares(t, k), ~ Touch(jb[1]) PROVE Spares(jb, k)
      <3> SUFFICES ASSUME NEW x \in 1..n PROVE ~ Touch(jb[x])
        BY <1>4
      <3>1. CASE x = 1
        BY <2>2, <3>1
      <3>2. CASE x \in 2..n
        BY <1>2, <1>4, <2>2, <3>2
      <3> QED
        BY <1>1, <3>1, <3>2
    <2> QED
      BY <2>1, <2>2
  <1>7. ASSUME Mends(jb, k, row)
        PROVE  Mends(t, k, row) \/ (Spares(t, k) /\ Touch(jb[1]) /\ Right(jb[1]))
    <2>1. PICK j \in 1..n : /\ Touch(jb[j]) /\ Right(jb[j])
                            /\ \A x \in 1..n : x > j => ~ Touch(jb[x])
      BY <1>5, <1>7
    <2>2. CASE j = 1
      <3>1. \A x \in 1..(n - 1) : x + 1 > j
        BY <1>1, <2>2
      <3>2. Spares(t, k)
        BY <1>3, <1>4, <2>1, <3>1
      <3> QED
        BY <2>1, <2>2, <3>2
    <2>3. CASE j \in 2..n
      <3>1. j - 1 \in 1..(n - 1) /\ Touch(t[j - 1]) /\ Right(t[j - 1])
        BY <1>2, <2>1, <2>3
      <3>2. \A x \in 1..(n - 1) : x > j - 1 => x + 1 > j
        BY <1>1, <2>3
      <3>3. \A x \in 1..(n - 1) : x > j - 1 => ~ Touch(t[x])
        BY <1>3, <2>1, <3>2
      <3> QED
        BY <1>5, <3>1, <3>3
    <2> QED
      BY <1>1, <2>2, <2>3
  <1> QED
    BY <1>1, <1>6, <1>7 DEF t, Touch, Right

\* A commit settles every key it touches.
LEMMA CommitSettles ==
  ASSUME CacheInv, CacheInv', NEW len \in 1..MaxBatch, NEW ks \in [1..len -> Keys],
         NEW dels \in [1..len -> BOOLEAN], Commit(ks, dels), NEW k \in Keys, Settled(k)
  PROVE  Settled(k)'
  <1>1. UNCHANGED <<queue, job, cache>>
    BY DEF Commit
  <1>2. made = <<>> /\ Decided(job, queue, made, cache[k], db[k], k)
    BY SettledDecided, CommitFacts
  <1>3. CASE Spares(made', k) /\ db'[k] = db[k]
    BY <1>1, <1>2, <1>3, EmptyFacts, SettledDecided DEF Decided
  <1>4. ASSUME NEW i \in 1..len, made'[i].key = k,
               db'[k] = [n |-> made'[i].n, live |-> ~ made'[i].del],
               \A x \in 1..len : x > i => made'[x].key # k
        PROVE  Settled(k)'
    <2>1. made'[i] \in Updates /\ DOMAIN made' = 1..len
      BY CommitFacts, ElementOfSeq
    <2>2. Agrees(entry(made'[i]), db'[k])
      <3>1. db'[k].n = made'[i].n /\ db'[k].live = ~ made'[i].del
        BY <1>4
      <3>2. CASE made'[i].del
        BY <3>2 DEF Agrees, entry
      <3>3. CASE ~ made'[i].del
        BY <3>1, <3>3, Zenon DEF Agrees, entry
      <3> QED
        BY <3>2, <3>3
    <2>3. Mends(made', k, db'[k])
      BY <1>4, <2>1, <2>2, Zenon DEF Mends
    <2> QED
      BY <2>3, SettledDecided DEF Decided
  <1>5. RowAfter(made', len, k, db[k], db'[k])
    BY CommitFacts
  <1> QED
    BY <1>3, <1>4, <1>5, Zenon DEF RowAfter

\* The threads settle what they apply and lose nothing on the way.
LEMMA QueueSettles ==
  ASSUME CacheInv, CacheInv', CountIn \/ TrySend \/ WorkerReceives \/ CountOut \/ WorkerApplies,
         NEW k \in Keys, Settled(k)
  PROVE  Settled(k)'
  <1>1. Decided(job, queue, made, cache[k], db[k], k)
    BY SettledDecided
  <1>2. /\ queue \in Seq(Seq(Updates)) /\ made \in Seq(Updates) /\ job \in Seq(Updates)
        /\ cache \in [Keys -> 0..MaxCommits]
    BY DEF CacheInv, TypeOK
  <1> SUFFICES Decided(job', queue', made', cache'[k], db'[k], k)
    BY SettledDecided
  <1>3. CASE CountIn \/ CountOut
    BY <1>1, <1>3 DEF CountIn, CountOut
  <1>4. CASE TrySend
    <2>1. queue' = Append(queue, made) /\ made' = <<>> /\ UNCHANGED <<db, job, cache>>
      BY <1>4 DEF TrySend
    <2>2. Spares(made', k)
      BY <2>1, EmptyFacts
    <2>3. /\ QueueSpares(queue', k) <=> QueueSpares(queue, k) /\ Spares(made, k)
          /\ Mends(made, k, db[k]) => QueueMends(queue', k, db[k])
          /\ Spares(made, k) /\ QueueMends(queue, k, db[k]) => QueueMends(queue', k, db[k])
      BY <1>2, <2>1, AppendedJob
    <2> QED
      BY <1>1, <2>1, <2>2, <2>3 DEF Decided
  <1>5. CASE WorkerReceives
    <2>1. /\ queue # <<>> /\ job = <<>> /\ job' = Head(queue) /\ queue' = Tail(queue)
          /\ UNCHANGED <<db, made, cache>>
      BY <1>5 DEF WorkerReceives
    <2>2. Spares(job, k) /\ ~ Mends(job, k, db[k])
      BY <2>1, EmptyFacts
    <2>3. /\ QueueSpares(queue, k) <=> QueueSpares(queue', k) /\ Spares(job', k)
          /\ QueueMends(queue, k, db[k]) =>
               QueueMends(queue', k, db[k]) \/ (QueueSpares(queue', k) /\ Mends(job', k, db[k]))
      BY <1>2, <2>1, ReceivedJob
    <2> QED
      BY <1>1, <2>1, <2>2, <2>3 DEF Decided
  <1>6. CASE WorkerApplies
    <2>1. /\ job # <<>> /\ job' = Tail(job) /\ UNCHANGED <<db, made, queue>>
          /\ cache' = [cache EXCEPT ![Head(job).key] = entry(Head(job))]
      BY <1>6 DEF WorkerApplies
    <2>2. /\ Spares(job, k) <=> Spares(job', k) /\ Head(job).key # k
          /\ Mends(job, k, db[k]) =>
               \/ Mends(job', k, db[k])
               \/ Spares(job', k) /\ Head(job).key = k /\ Agrees(entry(Head(job)), db[k])
      BY <1>2, <2>1, AppliedUpdate
    <2>3. cache'[k] = IF Head(job).key = k THEN entry(Head(job)) ELSE cache[k]
      BY <1>2, <2>1
    <2> QED
      BY <1>1, <2>1, <2>2, <2>3 DEF Decided
  <1> QED
    BY <1>3, <1>4, <1>5, <1>6

\* A read unsettles a key only by filling it with a change older than its row.
LEMMA ReadSettles ==
  ASSUME CacheInv, CacheInv', NEW r \in Readers, Read(r) \/ (\E q \in Keys : StartRead(r, q)),
         NEW k \in Keys, Settled(k),
         ~ (Fill(r) /\ reads[r].key = k /\ reads[r].n < db[k].n)
  PROVE  Settled(k)'
  <1>1. Decided(job, queue, made, cache[k], db[k], k)
    BY SettledDecided
  <1>2. UNCHANGED <<db, made, queue, job>>
    BY DEF Read, StartRead, GetHit, GetMiss, Select, Fill, writer
  <1> SUFFICES cache'[k] = cache[k] \/ Agrees(cache'[k], db[k])
    BY <1>1, <1>2, SettledDecided, Zenon DEF Decided
  <1>3. CASE ~ Fill(r)
    BY <1>3 DEF Read, StartRead, GetHit, GetMiss, Select
  <1>4. CASE Fill(r)
    <2>1. reads[r] \in [pc : {"fill"}, key : Keys, n : Change]
      BY <1>4, ReadingFacts DEF Fill, CacheInv
    <2>2. reads[r].key # k => cache'[k] = cache[k]
      BY <1>4 DEF Fill, CacheInv, TypeOK
    <2>3. ASSUME reads[r].key = k PROVE cache'[k] = cache[k] \/ Agrees(cache'[k], db[k])
      <3>1. cache'[k] = cache[k] \/ cache'[k] = reads[r].n
        BY <1>4, <2>3 DEF Fill, CacheInv, TypeOK
      <3>2. reads[r].n <= db[k].n /\ (reads[r].n = db[k].n => db[k].live)
        BY <1>4, <2>3 DEF Fill, CacheInv, FillsKnown
      <3>3. reads[r].n \in Nat /\ db[k].n \in Nat
        <4>1. reads[r].n \in Nat
          BY <2>1, CacheConstants DEF Change
        <4>2. db[k].n \in 0..MaxCommits
          BY DEF CacheInv, TypeOK
        <4> QED
          BY <4>1, <4>2, CacheConstants
      <3>4. reads[r].n = db[k].n
        BY <1>4, <2>3, <3>2, <3>3
      <3> QED
        BY <3>1, <3>2, <3>4 DEF Agrees
    <2> QED
      BY <2>2, <2>3
  <1> QED
    BY <1>3, <1>4

\* The cache server stops and starts, the writer starts, or nothing happens.
LEMMA ProcessSettles ==
  ASSUME CacheInv, CacheInv', CacheServerStops \/ CacheServerStarts \/ WriterStarts \/ UNCHANGED vars,
         NEW k \in Keys, Settled(k)
  PROVE  Settled(k)'
  <1>1. UNCHANGED <<db, made, queue, job, cache>>
    BY DEF CacheServerStops, CacheServerStarts, WriterStarts, vars, writer
  <1> QED
    BY <1>1, SettledDecided

\* An entry that would have come to agree with its row stops doing so only when the
\* queue is full, the worker's socket is broken, a transaction of the cache's database
\* fails, the writer dies, or a reader fills in a row older than the present one: for
\* any keys, readers, batches and queue.
THEOREM LossesAreKnown == Spec => OnlyKnownLosses
  <1> DEFINE Loses(k) ==
        \/ TrySendFull
        \/ WorkerFails
        \/ WorkerLosesWrite
        \/ WriterStops
        \/ \E r \in Readers : Fill(r) /\ reads[r].key = k /\ reads[r].n < db[k].n
  <1>1. ASSUME CacheInv, CacheInv', [Next]_vars, NEW k \in Keys, Settled(k), ~ Loses(k)
        PROVE  Settled(k)'
    <2>1. ASSUME NEW len \in 1..MaxBatch, NEW ks \in [1..len -> Keys], NEW dels \in [1..len -> BOOLEAN],
                 Commit(ks, dels)
          PROVE  Settled(k)'
      BY <1>1, <2>1, CommitSettles
    <2>2. CASE MainLoop \/ Worker
      BY <1>1, <2>2, QueueSettles DEF MainLoop, Worker
    <2>3. ASSUME NEW r \in Readers, Read(r) \/ \E q \in Keys : StartRead(r, q) PROVE Settled(k)'
      BY <1>1, <2>3, ReadSettles
    <2>4. CASE CacheServerStops \/ CacheServerStarts \/ WriterStarts \/ UNCHANGED vars
      BY <1>1, <2>4, ProcessSettles
    <2> QED
      BY <1>1, <2>1, <2>2, <2>3, <2>4, Zenon DEF Next
  <1>2. CacheInv /\ CacheInv' /\ [Next]_vars =>
          [\A k \in Keys : Settled(k) /\ ~Settled(k)' => Loses(k)]_vars
    BY <1>1
  <1> QED
    BY <1>2, CacheInductive, PTL DEF Spec, OnlyKnownLosses

=============================================================================
