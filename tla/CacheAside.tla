----------------------------- MODULE CacheAside -----------------------------
(***************************************************************************)
(* The cache-aside of one store: the writer's main loop hands the events   *)
(* of each committed batch to a bounded queue, the cache-sync thread       *)
(* applies them to the cache server one at a time over a socket it never   *)
(* opens again (ixmati-writer/cache_sync.rs, ixmati-cache), and the API    *)
(* reads through the cache in socket mode (ixmati-api/rest.rs), filling it *)
(* after a miss.                                                           *)
(*                                                                         *)
(* The n-th change ever committed to a store is n: db[k].n is the last one *)
(* that touched k, and a cache entry is the change whose payload it holds, *)
(* or 0.  The cache server keeps its entries on disk and serves each       *)
(* request atomically; a slow answer is a late WorkerApplies.              *)
(***************************************************************************)
EXTENDS Integers, Sequences, FiniteSets, SequencesExt

CONSTANTS
  Keys,
  Readers,          \* concurrent read requests
  MaxCommits,       \* bound on the changes ever committed
  MaxBatch,         \* events in one batch
  QueueCapacity,    \* CACHE_SYNC_QUEUE_CAPACITY
  Crashes           \* whether processes crash and transactions of the cache's
                    \* database fail in this instance

ASSUME CacheConstants ==
  /\ MaxCommits \in Nat /\ MaxBatch \in Nat \ {0}
  /\ QueueCapacity \in Nat \ {0}
  /\ Crashes \in BOOLEAN

VARIABLES
  commits,    \* changes committed so far
  db,         \* the row of each key: its last change and whether it exists
  made,       \* events of the batch just committed, not yet enqueued
  counted,    \* try_enqueue has counted them in depth
  queue,      \* the sync_channel of jobs
  job,        \* what the cache-sync thread has still to apply
  taken,      \* it has received a job and not yet counted it out
  depth,      \* CacheSyncWorker.depth
  link,       \* SyncCacheClient's socket: "open", "broken", "none" (no writer)
  up,         \* the cache server is listening
  cache,      \* entries c:<store>:<entity>:<key>
  reads       \* state of each reader

writer == <<made, counted, queue, job, taken, depth, link>>
vars == <<commits, db, made, counted, queue, job, taken, depth, link, up, cache, reads>>

Change == 1..MaxCommits
Updates == [key : Keys, n : Change, del : BOOLEAN]
Idle == [pc |-> "idle"]

Init ==
  /\ commits = 0
  /\ db = [k \in Keys |-> [n |-> 0, live |-> FALSE]]
  /\ made = <<>> /\ counted = FALSE /\ queue = <<>> /\ job = <<>> /\ taken = FALSE
  /\ depth = 0 /\ link = "open" /\ up = TRUE
  /\ cache = [k \in Keys |-> 0]
  /\ reads = [r \in Readers |-> Idle]

-----------------------------------------------------------------------------
(* The writer *)

\* write_engine commits a batch that changes keys ks in this order; the event
\* of a delete carries the suffix .eliminado.  A batch of duplicates and
\* conflicts makes no event and is of no interest here.
Commit(ks, dels) ==
  /\ link # "none" /\ made = <<>>
  /\ commits + Len(ks) <= MaxCommits
  /\ commits' = commits + Len(ks)
  /\ made' = [i \in DOMAIN ks |-> [key |-> ks[i], n |-> commits + i, del |-> dels[i]]]
  /\ db' = [k \in Keys |->
             LET last == SelectLastInSubSeq(made', 1, Len(ks), LAMBDA u : u.key = k)
             IN  IF last = 0 THEN db[k]
                 ELSE [n |-> made'[last].n, live |-> ~made'[last].del]]
  /\ UNCHANGED <<counted, queue, job, taken, depth, link, up, cache, reads>>

\* Mutant: the queue has no bound.
SendUnbounded ==
  /\ counted
  /\ queue' = Append(queue, made)
  /\ made' = <<>> /\ counted' = FALSE
  /\ UNCHANGED <<commits, db, job, taken, depth, link, up, cache, reads>>

\* Mutant: the job is offered to the channel uncounted.
CountLate ==
  /\ made # <<>> /\ ~counted
  /\ counted' = TRUE /\ depth' = depth
  /\ UNCHANGED <<commits, db, made, queue, job, taken, link, up, cache, reads>>

\* try_enqueue counts the job first ...
CountIn ==
  /\ made # <<>> /\ ~counted
  /\ counted' = TRUE /\ depth' = depth + 1
  /\ UNCHANGED <<commits, db, made, queue, job, taken, link, up, cache, reads>>

\* ... and then offers it to the channel.
TrySend ==
  /\ counted /\ Len(queue) < QueueCapacity
  /\ queue' = Append(queue, made)
  /\ made' = <<>> /\ counted' = FALSE
  /\ UNCHANGED <<commits, db, job, taken, depth, link, up, cache, reads>>

\* A full channel: the job is dropped and counted out again.
TrySendFull ==
  /\ counted /\ Len(queue) = QueueCapacity
  /\ made' = <<>> /\ counted' = FALSE /\ depth' = depth - 1
  /\ UNCHANGED <<commits, db, queue, job, taken, link, up, cache, reads>>

-----------------------------------------------------------------------------
(* The cache-sync thread *)

WorkerReceives ==
  /\ link # "none" /\ job = <<>> /\ queue # <<>>
  /\ job' = Head(queue) /\ queue' = Tail(queue) /\ taken' = TRUE
  /\ UNCHANGED <<commits, db, made, counted, depth, link, up, cache, reads>>

CountOut ==
  /\ taken
  /\ taken' = FALSE /\ depth' = depth - 1
  /\ UNCHANGED <<commits, db, made, counted, queue, job, link, up, cache, reads>>

\* Mutant: the event of a delete is taken for an upsert.
entry_of_any(u) == u.n

\* What event_to_cache_command and sync_batch leave in the entry.
entry(u) == IF u.del THEN 0 ELSE u.n

\* sync_batch: the server carries out the SET or DEL and answers OK.
WorkerApplies ==
  /\ ~taken /\ job # <<>> /\ link = "open"
  /\ cache' = [cache EXCEPT ![Head(job).key] = entry(Head(job))]
  /\ job' = Tail(job)
  /\ UNCHANGED <<commits, db, made, counted, queue, taken, depth, link, up, reads>>

\* The transaction of the cache's database fails: RedbCacheBackend returns without
\* a word, the entry stays as it is, and the server answers OK all the same.
WorkerLosesWrite ==
  /\ Crashes
  /\ ~taken /\ job # <<>> /\ link = "open"
  /\ job' = Tail(job)
  /\ UNCHANGED <<commits, db, made, counted, queue, taken, depth, link, up, cache, reads>>

\* Mutant: the worker tries the failed update again on the same socket.
WorkerRetries ==
  /\ ~taken /\ job # <<>> /\ link = "broken"
  /\ UNCHANGED <<commits, db, made, counted, queue, job, taken, depth, link, up, cache, reads>>

\* The socket is broken: the request fails, the error is counted and sync_batch goes on.
WorkerFails ==
  /\ ~taken /\ job # <<>> /\ link = "broken"
  /\ job' = Tail(job)
  /\ UNCHANGED <<commits, db, made, counted, queue, taken, depth, link, up, cache, reads>>

-----------------------------------------------------------------------------
(* read_handler in socket mode *)

StartRead(r, k) ==
  /\ reads[r] = Idle
  /\ reads' = [reads EXCEPT ![r] = [pc |-> "get", key |-> k]]
  /\ UNCHANGED <<commits, db, writer, up, cache>>

\* CacheClient.get, which opens its socket again when it has to: a hit is the answer.
GetHit(r) ==
  /\ reads[r].pc = "get" /\ up /\ cache[reads[r].key] # 0
  /\ reads' = [reads EXCEPT ![r] = Idle]
  /\ UNCHANGED <<commits, db, writer, up, cache>>

\* A miss, no server, or a failed read of the cache's database, which is answered MISS.
GetMiss(r) ==
  /\ reads[r].pc = "get" /\ (Crashes \/ ~up \/ cache[reads[r].key] = 0)
  /\ reads' = [reads EXCEPT ![r].pc = "select"]
  /\ UNCHANGED <<commits, db, writer, up, cache>>

\* SELECT payload from the store's database; without a row the answer is 404.
Select(r) ==
  /\ reads[r].pc = "select"
  /\ LET row == db[reads[r].key]
     IN  reads' = [reads EXCEPT ![r] = IF row.live
                                         THEN [pc |-> "fill", key |-> @.key, n |-> row.n]
                                         ELSE Idle]
  /\ UNCHANGED <<commits, db, writer, up, cache>>

\* client.set: the row just read goes into the cache, if the server is there and
\* its transaction does not fail, and is the answer.
Fill(r) ==
  /\ reads[r].pc = "fill"
  /\ \/ up /\ cache' = [cache EXCEPT ![reads[r].key] = reads[r].n]
     \/ (Crashes \/ ~up) /\ cache' = cache
  /\ reads' = [reads EXCEPT ![r] = Idle]
  /\ UNCHANGED <<commits, db, writer, up>>

-----------------------------------------------------------------------------
(* Processes stop and are started again by the supervisor.                 *)

CacheServerStops ==
  /\ Crashes /\ up
  /\ up' = FALSE
  /\ link' = IF link = "open" THEN "broken" ELSE link
  /\ UNCHANGED <<commits, db, made, counted, queue, job, taken, depth, cache, reads>>

CacheServerStarts ==
  /\ ~up
  /\ up' = TRUE
  /\ UNCHANGED <<commits, db, writer, cache, reads>>

\* Everything the writer holds in memory is lost.
WriterStops ==
  /\ Crashes /\ link # "none"
  /\ link' = "none" /\ made' = <<>> /\ counted' = FALSE
  /\ queue' = <<>> /\ job' = <<>> /\ taken' = FALSE /\ depth' = 0
  /\ UNCHANGED <<commits, db, up, cache, reads>>

\* main: SyncCacheClient.connect must succeed or the writer exits again.
WriterStarts ==
  /\ link = "none" /\ up
  /\ link' = "open"
  /\ UNCHANGED <<commits, db, made, counted, queue, job, taken, depth, up, cache, reads>>

-----------------------------------------------------------------------------
Worker == WorkerReceives \/ CountOut \/ WorkerApplies \/ WorkerLosesWrite \/ WorkerFails
MainLoop == CountIn \/ TrySend \/ TrySendFull
Read(r) == GetHit(r) \/ GetMiss(r) \/ Select(r) \/ Fill(r)

Next ==
  \/ \E len \in 1..MaxBatch : \E ks \in [1..len -> Keys], dels \in [1..len -> BOOLEAN] :
       Commit(ks, dels)
  \/ MainLoop
  \/ Worker
  \/ \E r \in Readers : \/ \E k \in Keys : StartRead(r, k)
                        \/ Read(r)
  \/ CacheServerStops \/ CacheServerStarts
  \/ WriterStops \/ WriterStarts

(* The threads of a running process make progress, a request that was      *)
(* started is carried on, and the supervisor starts a stopped process.     *)
Fairness ==
  /\ WF_vars(MainLoop) /\ WF_vars(Worker)
  /\ \A r \in Readers : WF_vars(Read(r))
  /\ WF_vars(CacheServerStarts) /\ WF_vars(WriterStarts)

Spec == Init /\ [][Next]_vars /\ Fairness

-----------------------------------------------------------------------------
(* Properties *)

\* Every variable keeps its type; the queue of jobs never outgrows its capacity.
TypeOK ==
  /\ commits \in 0..MaxCommits
  /\ db \in [Keys -> [n : 0..MaxCommits, live : BOOLEAN]]
  /\ made \in Seq(Updates) /\ counted \in BOOLEAN
  /\ queue \in Seq(Seq(Updates)) /\ Len(queue) <= QueueCapacity
  /\ job \in Seq(Updates) /\ taken \in BOOLEAN
  /\ depth \in 0..(QueueCapacity + 2)
  /\ link \in {"open", "broken", "none"} /\ up \in BOOLEAN
  /\ cache \in [Keys -> 0..MaxCommits]
  /\ reads \in [Readers -> {Idle} \cup [pc : {"get", "select"}, key : Keys]
                               \cup [pc : {"fill"}, key : Keys, n : Change]]

\* The updates on their way to the cache, in the order they will be applied: the
\* worker's job, the jobs in the channel and the batch just committed.
Coming == [j \in 0..(Len(queue) + 1) |-> IF j = 0 THEN job
                                         ELSE IF j <= Len(queue) THEN queue[j] ELSE made]

\* Entry n agrees with a row: it is missing, or it holds the row's last change.
Agrees(n, row) == n = 0 \/ (row.live /\ n = row.n)

\* The updates s leave key k's entry as it is, or make it agree with the row.
Spares(s, k) == \A i \in DOMAIN s : s[i].key # k
Mends(s, k, row) ==
  \E i \in DOMAIN s : /\ s[i].key = k /\ Agrees(entry(s[i]), row)
                      /\ \A x \in DOMAIN s : x > i => s[x].key # k

\* When all that is on its way has been applied, key k's entry is its row or missing.
Settled(k) ==
  \/ Agrees(cache[k], db[k]) /\ \A j \in DOMAIN Coming : Spares(Coming[j], k)
  \/ \E j \in DOMAIN Coming : /\ Mends(Coming[j], k, db[k])
                              /\ \A x \in DOMAIN Coming : x > j => Spares(Coming[x], k)

\* SPEC.md RF-10.  An update is lost only in these ways: the queue was full,
\* the worker's socket is broken, a transaction of the cache's database failed,
\* the writer died, or a reader overwrote the entry with a row it had read
\* before a later change.  Whatever else happens,
\* in any order, what is on its way to the cache repairs every entry.
OnlyKnownLosses ==
  [][\A k \in Keys : Settled(k) /\ ~Settled(k)' =>
       \/ TrySendFull
       \/ WorkerFails
       \/ WorkerLosesWrite
       \/ WriterStops
       \/ \E r \in Readers : Fill(r) /\ reads[r].key = k /\ reads[r].n < db[k].n]_vars

\* cache_sync.rs: the u64 depth gauge, changed by two threads, never counts
\* fewer jobs than wait in the channel and so never passes below zero.
DepthCountsQueue == depth >= Len(queue)

\* cache_sync.rs: the queue of cache updates drains; in particular a broken
\* socket does not hold back the updates behind a failed one.
UpdatesDrain == (queue # <<>>) ~> (queue = <<>>)

=============================================================================
