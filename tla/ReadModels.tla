----------------------------- MODULE ReadModels -----------------------------
(***************************************************************************)
(* The read models: the projector (crates/ixmati-projector), which applies *)
(* the events of the broker to projections in the cache, and the           *)
(* reconciler (crates/ixmati-reconciler), which rebuilds them from the     *)
(* databases.  There is one projection of each pattern: R joins an order   *)
(* (primary store) with the user it refers to, and keeps in the cache a    *)
(* reverse index from a user to the orders that show it; M copies fields   *)
(* of a user.                                                              *)
(*                                                                         *)
(* The n-th change committed to the stores is log[n], and n is also its    *)
(* event id and version.  A view is the change each of its two parts was   *)
(* made from, 0 for a part it lacks.  Payloads keep the fields the         *)
(* projections use, and the target key is the key.  The cache's row        *)
(* entries, which the projector joins with, are brought up to date by      *)
(* other threads (module CacheAside) and are not state here: a reading of  *)
(* one returns any row its key has had, or nothing.                        *)
(*                                                                         *)
(* env.hazards says what a behaviour may meet besides late row entries and *)
(* events that come late, twice or out of order across stores:             *)
(*   "move"    an order comes to refer to another user;                    *)
(*   "loss"    the projector crashes, its clean MQTT session ends with all *)
(*             that waits in it, and the cache server cannot be reached;   *)
(*   "online"  the reconciler runs while the projector works.              *)
(***************************************************************************)
EXTENDS Integers, Sequences, FiniteSets, SequencesExt

CONSTANTS
  Orders, Users,   \* keys of the two stores, each with the name of its store
  MaxCommits,      \* bound on the changes
  MaxLosses,       \* bound on losses
  MaxDependents,   \* MAX_DEPENDENTS (100)
  DedupCapacity,   \* IXMATI_DEDUP_CAPACITY
  Environments     \* hazards met together, with the numbers of changes, of events
                   \* published again and of runs of the reconciler

ASSUME ReadModelConstants ==
  /\ Orders \cap Users = {}
  /\ MaxCommits \in Nat /\ MaxLosses \in Nat
  /\ MaxDependents \in Nat \ {0} /\ DedupCapacity \in Nat \ {0}
  /\ Environments \subseteq [hazards : SUBSET {"move", "loss", "online"},
                            commits : 0..MaxCommits, resends : Nat, runs : Nat]

VARIABLES
  env,       \* the environment of this behaviour
  log,       \* all changes committed to the two stores
  queue,     \* events on their way to the projector, by store
  seen,      \* ids of processed events
  latest,    \* latest_versions
  work,      \* what the projector does with the event it has taken
  view,      \* projection R of each order
  copy,      \* projection M of each user: a change, or 0
  ridx,      \* reverse index
  lagged,    \* orders for whose view the cache was last read too early or too late
             \* (a history variable)
  rec,       \* state of the reconciler
  repaired,  \* mark of its last complete run (a history variable)
  resends, losses, reconciles

projector == <<seen, latest, work>>
caches == <<view, copy, ridx, lagged>>
bounds == <<resends, losses, reconciles>>

\* What may make the views wrong has not happened since it had this value.
mark == <<Len(log), resends, losses>>

vars == <<env, log, queue, seen, latest, work, view, copy, ridx, lagged, rec,
          repaired, resends, losses, reconciles>>

Keys == Orders \cup Users
Stores == {"orders", "users"}
store_of(k) == IF k \in Orders THEN "orders" ELSE "users"
NoView == [order |-> 0, user |-> 0]
Idle == [pc |-> "idle"]

\* The last change of a key, or 0, and the one that made its current row, or 0.
last(k) == SelectLastInSeq(log, LAMBDA c : c.key = k)
row(k) == IF last(k) = 0 \/ log[last(k)].del THEN 0 ELSE last(k)

\* resolve_lookup_key, for the order that change n wrote.
reference(n) == log[n].user

Init ==
  /\ env \in Environments
  /\ log = <<>>
  /\ queue = [s \in Stores |-> <<>>]
  /\ seen = {} /\ latest = [k \in Keys |-> 0] /\ work = Idle
  /\ view = [o \in Orders |-> NoView] /\ copy = [u \in Users |-> 0]
  /\ ridx = [u \in Users |-> {}] /\ lagged = {}
  /\ rec = Idle /\ repaired = <<>>
  /\ resends = 0 /\ losses = 0 /\ reconciles = 0

-----------------------------------------------------------------------------
(* What surrounds projector and reconciler *)

\* A writer commits a change and its event is published, in commit order per
\* store.  A delete may find no row; of its payload nothing is used.
Commit(c) ==
  /\ Len(log) < env.commits
  /\ "online" \in env.hazards \/ rec = Idle
  /\ c.del /\ last(c.key) # 0 => log[last(c.key)].user = c.user
  /\ c.key \in Orders /\ "move" \notin env.hazards
       => \A n \in DOMAIN log : log[n].key = c.key => log[n].user = c.user
  /\ log' = Append(log, c)
  /\ queue' = [queue EXCEPT ![store_of(c.key)] = Append(@, Len(log) + 1)]
  /\ UNCHANGED <<env, projector, caches, rec, repaired, bounds>>

\* An event whose row was not marked is published again (module EventPublisher).
Resend(n) ==
  /\ resends < env.resends /\ n \in DOMAIN log
  /\ "online" \in env.hazards \/ rec = Idle
  /\ resends' = resends + 1
  /\ queue' = [queue EXCEPT ![store_of(log[n].key)] = Append(@, n)]
  /\ UNCHANGED <<env, log, caches, projector, rec, repaired, losses, reconciles>>

-----------------------------------------------------------------------------
(* CacheClient: with the cache server out of reach a SET or DEL is given up *)
(* after two attempts and a GET finds nothing; a SET or DEL whose           *)
(* transaction fails in the backend is answered OK all the same.            *)

Lossy == "loss" \in env.hazards /\ losses < MaxLosses

\* The row entry of a key: written when a change was synchronised or a read missed, and
\* deleted, evicted, or out of reach.
Entries(k) == {0} \cup {n \in DOMAIN log : log[n].key = k /\ ~log[n].del}

\* An entry has been read for the view of o, and it was the current row or not.
Note(o, current) == lagged' = IF current THEN lagged \ {o} ELSE lagged \cup {o}

\* The outcomes of a request, each with the losses it leaves: the new value, or the
\* old one (of a SET or DEL) or nothing (of a GET) if the request is lost.
Store(new, old) == {<<new, losses>>} \cup (IF Lossy THEN {<<old, losses + 1>>} ELSE {})

-----------------------------------------------------------------------------
(* The projector's main loop *)

\* Mutant: versions are not looked at.
never_stale(n) == FALSE

is_stale(n) == n < latest[log[n].key]

Received(s) ==
  /\ work = Idle /\ queue[s] # <<>>
  /\ queue' = [queue EXCEPT ![s] = Tail(@)]

SkipStale(s) ==
  /\ Received(s) /\ is_stale(Head(queue[s]))
  /\ UNCHANGED <<env, log, caches, projector, rec, repaired, bounds>>

\* The set of seen ids is emptied when it is full.
seen_before == IF Cardinality(seen) >= DedupCapacity THEN {} ELSE seen

SkipDuplicate(s) ==
  /\ Received(s) /\ ~is_stale(Head(queue[s])) /\ Head(queue[s]) \in seen_before
  /\ latest' = [latest EXCEPT ![log[Head(queue[s])].key] = Head(queue[s])]
  /\ seen' = seen_before
  /\ UNCHANGED <<env, log, caches, work, rec, repaired, bounds>>

\* process_event_async: what happens first depends on the event's store.
Take(s) ==
  /\ Received(s) /\ ~is_stale(Head(queue[s])) /\ Head(queue[s]) \notin seen_before
  /\ latest' = [latest EXCEPT ![log[Head(queue[s])].key] = Head(queue[s])]
  /\ seen' = seen_before \cup {Head(queue[s])}
  /\ work' = [pc |-> IF s = "orders" THEN "lookup" ELSE "targets", n |-> Head(queue[s])]
  /\ UNCHANGED <<env, log, caches, rec, repaired, bounds>>

-----------------------------------------------------------------------------
(* process_r_async, event of an order *)

event == log[work.n]

\* The user's row is read from the cache.
Lookup ==
  /\ work.pc = "lookup"
  /\ \E e \in Entries(event.user) :
       /\ work' = [pc |-> "project", n |-> work.n, user |-> e]
       /\ Note(event.key, event.del \/ e = row(event.user))
  /\ UNCHANGED <<env, log, view, copy, ridx, queue, seen, latest, rec, repaired, bounds>>

\* The view is set, or deleted.
Project ==
  /\ work.pc = "project"
  /\ \E r \in Store(IF event.del THEN NoView ELSE [order |-> work.n, user |-> work.user],
                    view[event.key]) :
       /\ view' = [view EXCEPT ![event.key] = r[1]]
       /\ losses' = r[2]
  /\ work' = IF event.del THEN Idle ELSE [pc |-> "dependents", n |-> work.n]
  /\ UNCHANGED <<env, log, copy, ridx, lagged, queue, seen, latest, rec, repaired, resends, reconciles>>

\* Mutant: one dependent too many.
ReadDependentsLate ==
  /\ work.pc = "dependents"
  /\ \E r \in Store(ridx[event.user], {}) :
       /\ work' = IF event.key \in r[1] \/ Cardinality(r[1]) > MaxDependents
                    THEN Idle
                    ELSE [pc |-> "register", n |-> work.n, targets |-> r[1]]
       /\ losses' = r[2]
  /\ UNCHANGED <<env, log, caches, queue, seen, latest, rec, repaired, resends, reconciles>>

\* register_dependencies reads the list ...
ReadDependents ==
  /\ work.pc = "dependents"
  /\ \E r \in Store(ridx[event.user], {}) :
       /\ work' = IF event.key \in r[1] \/ Cardinality(r[1]) >= MaxDependents
                    THEN Idle
                    ELSE [pc |-> "register", n |-> work.n, targets |-> r[1]]
       /\ losses' = r[2]
  /\ UNCHANGED <<env, log, caches, queue, seen, latest, rec, repaired, resends, reconciles>>

\* ... and writes it back with the order.
Register ==
  /\ work.pc = "register"
  /\ \E r \in Store(work.targets \cup {event.key}, ridx[event.user]) :
       /\ ridx' = [ridx EXCEPT ![event.user] = r[1]]
       /\ losses' = r[2]
  /\ work' = Idle
  /\ UNCHANGED <<env, log, view, copy, lagged, queue, seen, latest, rec, repaired, resends, reconciles>>

-----------------------------------------------------------------------------
(* refresh_references_for_secondary_event, and process_m_async *)

ReadTargets ==
  /\ work.pc = "targets"
  /\ \E r \in Store(ridx[event.key], {}) :
       /\ work' = [pc |-> "refresh", n |-> work.n, targets |-> r[1]]
       /\ losses' = r[2]
  /\ UNCHANGED <<env, log, caches, queue, seen, latest, rec, repaired, resends, reconciles>>

\* The row of the next order of the list is read from the cache, unless the user is
\* deleted ...
ReadTarget(o) ==
  /\ work.pc = "refresh" /\ o \in work.targets
  /\ \E e \in (IF event.del THEN {0} ELSE Entries(o)) :
       /\ work' = [pc |-> "rewrite", n |-> work.n, targets |-> work.targets \ {o},
                   key |-> o, order |-> e]
       /\ Note(o, event.del \/ e = row(o))
  /\ UNCHANGED <<env, log, view, copy, ridx, queue, seen, latest, rec, repaired, bounds>>

\* ... and its view written with the event's user, or deleted with the user.
RewriteTarget ==
  /\ work.pc = "rewrite"
  /\ \E r \in Store(IF event.del THEN NoView ELSE [order |-> work.order, user |-> work.n],
                    view[work.key]) :
       /\ view' = [view EXCEPT ![work.key] = r[1]]
       /\ losses' = r[2]
  /\ work' = [pc |-> "refresh", n |-> work.n, targets |-> work.targets]
  /\ UNCHANGED <<env, log, copy, ridx, lagged, queue, seen, latest, rec, repaired, resends, reconciles>>

\* process_m_async knows no deletes: the payload of one has no fields to copy.
Materialize ==
  /\ work.pc = "refresh" /\ work.targets = {}
  /\ \E r \in Store(IF event.del THEN copy[event.key] ELSE work.n, copy[event.key]) :
       /\ copy' = [copy EXCEPT ![event.key] = r[1]]
       /\ losses' = r[2]
  /\ work' = Idle
  /\ UNCHANGED <<env, log, view, ridx, lagged, queue, seen, latest, rec, repaired, resends, reconciles>>

-----------------------------------------------------------------------------
(* Losses of the projector *)

\* The connection breaks: a new clean session has none of the waiting events.
LoseSession ==
  /\ Lossy /\ work = Idle
  /\ losses' = losses + 1
  /\ queue' = [s \in Stores |-> <<>>]
  /\ UNCHANGED <<env, log, caches, projector, rec, repaired, resends, reconciles>>

\* kill -9 and restart.
CrashProjector ==
  /\ Lossy
  /\ losses' = losses + 1
  /\ queue' = [s \in Stores |-> <<>>]
  /\ seen' = {} /\ latest' = [k \in Keys |-> 0] /\ work' = Idle
  /\ UNCHANGED <<env, log, caches, rec, repaired, resends, reconciles>>

-----------------------------------------------------------------------------
(* The reconciler *)

Quiet == work = Idle /\ \A s \in Stores : queue[s] = <<>>

\* Mutant: the index is not deleted.
KeepIndex ==
  /\ rec.pc = "idle" /\ reconciles < env.runs
  /\ Quiet \/ "online" \in env.hazards
  /\ reconciles' = reconciles + 1
  /\ rec' = [pc |-> "orders", mark |-> IF Quiet THEN mark ELSE <<>>]
  /\ UNCHANGED <<env, log, caches, queue, projector, repaired, resends, losses>>

\* rebuild_pattern_r begins by deleting the index.
DropIndex ==
  /\ rec.pc = "idle" /\ reconciles < env.runs
  /\ Quiet \/ "online" \in env.hazards
  /\ reconciles' = reconciles + 1
  /\ rec' = [pc |-> "orders", mark |-> IF Quiet THEN mark ELSE <<>>]
  /\ \E r \in Store([u \in Users |-> {}], ridx) : ridx' = r[1] /\ losses' = r[2]
  /\ UNCHANGED <<env, log, view, copy, lagged, queue, projector, repaired, resends>>

\* A SELECT of the rows of some keys: rows that cannot be read are left out.
Selection(keys) ==
  LET rows == {row(k) : k \in keys} \ {0}
  IN {<<rows, losses>>} \cup (IF Lossy THEN {<<S, losses + 1>> : S \in SUBSET rows} ELSE {})

\* Each store's rows are selected, from one database after the other.
SelectOrders ==
  /\ rec.pc = "orders"
  /\ \E r \in Selection(Orders) :
       /\ rec' = [pc |-> "users", mark |-> rec.mark, orders |-> r[1]]
       /\ losses' = r[2]
  /\ UNCHANGED <<env, log, caches, queue, projector, repaired, resends, reconciles>>

SelectUsers ==
  /\ rec.pc = "users"
  /\ \E r \in Selection(Users) :
       /\ rec' = [pc |-> "index", mark |-> rec.mark, orders |-> rec.orders, users |-> r[1]]
       /\ losses' = r[2]
  /\ UNCHANGED <<env, log, caches, queue, projector, repaired, resends, reconciles>>

\* A database cannot be opened or queried: the run goes on with the next projection.
SelectFails ==
  /\ Lossy /\ rec.pc \in {"orders", "users"}
  /\ losses' = losses + 1
  /\ rec' = [pc |-> "index", mark |-> rec.mark, orders |-> {}, users |-> {}]
  /\ UNCHANGED <<env, log, caches, queue, projector, repaired, resends, reconciles>>

\* For each order the reverse index of its user is read, ...
RebuildIndex(n) ==
  /\ rec.pc = "index" /\ n \in rec.orders
  /\ \E r \in Store(ridx[reference(n)], {}) :
       /\ rec' = [pc |-> IF log[n].key \in r[1] \/ Cardinality(r[1]) >= MaxDependents
                           THEN "view" ELSE "enter",
                  mark |-> rec.mark, orders |-> rec.orders \ {n}, users |-> rec.users,
                  n |-> n, targets |-> r[1]]
       /\ losses' = r[2]
  /\ UNCHANGED <<env, log, caches, queue, projector, repaired, resends, reconciles>>

\* ... written back with the order, ...
EnterOrder ==
  /\ rec.pc = "enter"
  /\ \E r \in Store(rec.targets \cup {log[rec.n].key}, ridx[reference(rec.n)]) :
       /\ ridx' = [ridx EXCEPT ![reference(rec.n)] = r[1]]
       /\ losses' = r[2]
  /\ rec' = [pc |-> "view", mark |-> rec.mark, orders |-> rec.orders, users |-> rec.users, n |-> rec.n]
  /\ UNCHANGED <<env, log, view, copy, lagged, queue, projector, repaired, resends, reconciles>>

\* ... and the view is set.
RebuildView ==
  /\ rec.pc = "view"
  /\ LET o == log[rec.n].key
         u == {m \in rec.users : log[m].key = reference(rec.n)}
     IN \E r \in Store([order |-> rec.n, user |-> IF u = {} THEN 0 ELSE CHOOSE m \in u : TRUE],
                       view[o]) :
          /\ view' = [view EXCEPT ![o] = r[1]]
          /\ losses' = r[2]
          /\ lagged' = lagged \ {o}
  /\ rec' = [pc |-> "index", mark |-> rec.mark, orders |-> rec.orders, users |-> rec.users]
  /\ UNCHANGED <<env, log, copy, ridx, queue, projector, repaired, resends, reconciles>>

\* rebuild_pattern_m selects the users again ...
SelectCopies ==
  /\ rec.pc = "index" /\ rec.orders = {}
  /\ \E r \in Selection(Users) :
       /\ rec' = [pc |-> "copies", mark |-> rec.mark, users |-> r[1]]
       /\ losses' = r[2]
  /\ UNCHANGED <<env, log, caches, queue, projector, repaired, resends, reconciles>>

\* ... and sets their copies, one after the other.
RebuildCopy(n) ==
  /\ rec.pc = "copies" /\ n \in rec.users
  /\ \E r \in Store(n, copy[log[n].key]) :
       /\ copy' = [copy EXCEPT ![log[n].key] = r[1]]
       /\ losses' = r[2]
  /\ rec' = [pc |-> "copies", mark |-> rec.mark, users |-> rec.users \ {n}]
  /\ UNCHANGED <<env, log, view, ridx, lagged, queue, projector, repaired, resends, reconciles>>

EndRun ==
  /\ rec.pc = "copies" /\ rec.users = {}
  /\ rec' = Idle /\ repaired' = rec.mark
  /\ UNCHANGED <<env, log, caches, queue, projector, bounds>>

\* The reconciler is killed, or rebuild_pattern_m cannot read its database.
KillReconciler ==
  /\ Lossy /\ rec # Idle
  /\ losses' = losses + 1 /\ rec' = Idle
  /\ UNCHANGED <<env, log, caches, queue, projector, repaired, resends, reconciles>>

-----------------------------------------------------------------------------
Changes ==
  {c \in [key : Orders \cup Users, user : Users, del : BOOLEAN] : c.key \in Users => c.user = c.key}

Next ==
  \/ \E c \in Changes : Commit(c)
  \/ \E n \in 1..MaxCommits : Resend(n)
  \/ \E s \in Stores : SkipStale(s) \/ SkipDuplicate(s) \/ Take(s)
  \/ Lookup \/ Project \/ ReadDependents \/ Register
  \/ ReadTargets \/ RewriteTarget \/ Materialize
  \/ \E o \in Orders : ReadTarget(o)
  \/ LoseSession \/ CrashProjector
  \/ DropIndex \/ SelectOrders \/ SelectUsers \/ SelectFails \/ EnterOrder \/ RebuildView
  \/ SelectCopies \/ EndRun \/ KillReconciler
  \/ \E n \in 1..MaxCommits : RebuildIndex(n) \/ RebuildCopy(n)

Spec == Init /\ [][Next]_vars

-----------------------------------------------------------------------------
(* Properties *)

\* Every variable keeps its type; index lists and seen ids keep to their limits.
TypeOK ==
  /\ env \in Environments
  /\ log \in Seq(Changes) /\ Len(log) <= MaxCommits
  /\ queue \in [Stores -> Seq(1..MaxCommits)]
  /\ seen \subseteq 1..MaxCommits /\ Cardinality(seen) <= DedupCapacity
  /\ latest \in [Keys -> 0..MaxCommits]
  /\ view \in [Orders -> [order : 0..MaxCommits, user : 0..MaxCommits]]
  /\ copy \in [Users -> 0..MaxCommits]
  /\ ridx \in [Users -> SUBSET Orders] /\ lagged \subseteq Orders
  /\ \A u \in Users : Cardinality(ridx[u]) <= MaxDependents

\* The view of a live order that the databases call for.
join(o) == [order |-> row(o), user |-> row(reference(row(o)))]

\* Whatever the order in which the events of the two stores arrive, and although they
\* arrive again late, once they have been handled the view of a live order is the
\* join of the current rows, and that of a deleted one shows nothing of the order,
\* wherever the row entry last read for the view was the current row.  Users beyond
\* the fan-out limit excepted, the view of an order whose user is deleted may be
\* missing.  The copies need no row entry.
ViewsConverge ==
  env.hazards = {} /\ Quiet /\ rec = Idle =>
    /\ \A o \in Orders \ lagged :
         IF row(o) = 0 THEN view[o].order = 0
         ELSE LET u == reference(row(o))
              IN \/ view[o] = join(o)
                 \/ row(u) = 0 /\ view[o] = NoView
                 \/ /\ o \notin ridx[u] /\ Cardinality(ridx[u]) = MaxDependents
                    /\ view[o].order = row(o)
    /\ \A u \in Users : row(u) # 0 => copy[u] = row(u)

\* DEC-0065, consequences and points 3 and 4: after the event of a referenced entity
\* has been handled, whatever the cache-sync thread does meanwhile, the view has the
\* new value, and the events of deletions delete the views concerned.
ViewsFollowEvents ==
  env.hazards = {} /\ Quiet /\ rec = Idle =>
    \A o \in Orders :
      IF row(o) = 0 THEN view[o] = NoView
      ELSE LET u == reference(row(o))
           IN o \in ridx[u] => view[o].user = row(u)

\* DEC-0065: whatever was lost, stale or joined wrongly before, a complete run of the
\* reconciler while nothing else happens leaves every live order and user with
\* its view, and an index with which the next events find them, until another
\* run begins by emptying it.
ReconcilerRepairs ==
  repaired = mark /\ rec = Idle =>
    /\ \A o \in Orders : row(o) # 0 => view[o] = join(o)
    /\ \A u \in Users :
         LET dependents == {o \in Orders : row(o) # 0 /\ reference(row(o)) = u}
         IN /\ ridx[u] \subseteq dependents
            /\ ridx[u] = dependents \/ Cardinality(ridx[u]) = MaxDependents
    /\ \A u \in Users : row(u) # 0 => copy[u] = row(u)

=============================================================================
