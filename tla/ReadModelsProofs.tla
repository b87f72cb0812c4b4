-------------------------- MODULE ReadModelsProofs --------------------------
(***************************************************************************)
(* What projector and reconciler make of the views, for any orders and     *)
(* users, any number of changes, events published again, losses and runs,  *)
(* and any limit on dependents and on remembered event ids.                *)
(***************************************************************************)
EXTENDS ReadModels, SequenceTheorems, FiniteSetTheorems, WellFoundedInduction, TLAPS

\* The last change of a key in a log, or 0, and the one that made its row, or 0.
LastIn(l, k) == SelectLastInSeq(l, LAMBDA c : c.key = k)
RowIn(l, k) == IF LastIn(l, k) = 0 \/ l[LastIn(l, k)].del THEN 0 ELSE LastIn(l, k)
JoinIn(l, o) == [order |-> RowIn(l, o), user |-> RowIn(l, l[RowIn(l, o)].user)]

-----------------------------------------------------------------------------
(* Types *)

OrderSteps == {"lookup", "project", "dependents", "register"}
UserSteps == {"targets", "refresh", "rewrite"}

\* What the projector holds between two of its requests.
WorkType ==
  /\ work = Idle \/ (work.pc \in OrderSteps \cup UserSteps /\ work.n \in DOMAIN log)
  /\ work.pc \in OrderSteps => log[work.n].key \in Orders
  /\ work.pc \in UserSteps => log[work.n].key \in Users
  /\ work.pc = "project" => work.user \in 0..MaxCommits
  /\ work.pc = "register" => /\ work.targets \subseteq Orders /\ IsFiniteSet(work.targets)
                             /\ Cardinality(work.targets) < MaxDependents
  /\ work.pc \in {"refresh", "rewrite"} => work.targets \subseteq Orders
  /\ work.pc = "rewrite" => work.key \in Orders /\ work.order \in 0..MaxCommits

\* What the reconciler holds: changes of the log.
RecType ==
  /\ rec = Idle \/ rec.pc \in {"orders", "users", "index", "enter", "view", "copies"}
  /\ rec.pc \in {"users", "index", "enter", "view"} =>
       \A n \in rec.orders : n \in DOMAIN log /\ log[n].key \in Orders
  /\ rec.pc \in {"index", "enter", "view", "copies"} =>
       \A n \in rec.users : n \in DOMAIN log /\ log[n].key \in Users
  /\ rec.pc \in {"enter", "view"} => rec.n \in DOMAIN log /\ log[rec.n].key \in Orders
  /\ rec.pc = "enter" => /\ rec.targets \subseteq Orders /\ IsFiniteSet(rec.targets)
                         /\ Cardinality(rec.targets) < MaxDependents

\* Events on their way are committed changes of their store.
QueueType ==
  \A s \in Stores : \A i \in DOMAIN queue[s] :
    queue[s][i] \in DOMAIN log /\ store_of(log[queue[s][i]].key) = s

CountType ==
  /\ resends \in Nat /\ losses \in Nat
  /\ \A u \in Users : IsFiniteSet(ridx[u])

Typed == TypeOK /\ WorkType /\ RecType /\ QueueType /\ CountType

-----------------------------------------------------------------------------
(* The reconciler *)

\* A mark is of the past or of now.
IsMark(m) ==
  \/ m = <<>>
  \/ \E a, b, c \in Nat : m = <<a, b, c>> /\ a <= Len(log) /\ b <= resends /\ c <= losses

Marks == IsMark(repaired) /\ (rec # Idle => IsMark(rec.mark))

\* Orders that the run has put into the index of user u.
Indexed(l, left, u) ==
  {o \in Orders : RowIn(l, o) # 0 /\ RowIn(l, o) \notin left /\ l[RowIn(l, o)].user = u}

IndexHolds(l, left, index) ==
  \A u \in Users : /\ index[u] \subseteq Indexed(l, left, u)
                   /\ index[u] = Indexed(l, left, u) \/ Cardinality(index[u]) = MaxDependents

Live(l, S) == {RowIn(l, k) : k \in S} \ {0}

\* What a run has done that nothing has disturbed.
RunFacts ==
  /\ rec.pc \in {"orders", "users"} => \A u \in Users : ridx[u] = {}
  /\ rec.pc = "users" => rec.orders = Live(log, Orders)
  /\ rec.pc \in {"index", "enter", "view"} =>
       /\ rec.users = Live(log, Users) /\ rec.orders \subseteq Live(log, Orders)
       /\ \A o \in Orders :
            RowIn(log, o) # 0 /\ RowIn(log, o) \notin rec.orders
              /\ ~ (rec.pc \in {"enter", "view"} /\ rec.n = RowIn(log, o)) => view[o] = JoinIn(log, o)
  /\ rec.pc \in {"index", "view"} => IndexHolds(log, rec.orders, ridx)
  /\ rec.pc \in {"enter", "view"} => rec.n \in Live(log, Orders) /\ rec.n \notin rec.orders
  /\ rec.pc = "enter" =>
       /\ IndexHolds(log, rec.orders \cup {rec.n}, ridx)
       /\ rec.targets = ridx[log[rec.n].user]
  /\ rec.pc = "copies" =>
       /\ \A o \in Orders : RowIn(log, o) # 0 => view[o] = JoinIn(log, o)
       /\ IndexHolds(log, {}, ridx)
       /\ rec.users \subseteq Live(log, Users)
       /\ \A u \in Users : RowIn(log, u) # 0 /\ RowIn(log, u) \notin rec.users => copy[u] = RowIn(log, u)

RunHolds == (rec # Idle /\ rec.mark = mark) => Quiet /\ RunFacts

\* What a complete run leaves.
Repaired ==
  /\ \A o \in Orders : RowIn(log, o) # 0 => view[o] = JoinIn(log, o)
  /\ IndexHolds(log, {}, ridx)
  /\ \A u \in Users : RowIn(log, u) # 0 => copy[u] = RowIn(log, u)

RepairHolds == repaired = mark => Quiet /\ (rec = Idle => Repaired)

RecInv == Typed /\ Marks /\ RunHolds /\ RepairHolds

-----------------------------------------------------------------------------
(* Convergence, while nothing goes wrong *)

\* The projector has taken the last change of k ...
Current(k) == latest[k] = LastIn(log, k)
\* ... and works on it.
WorksOn(k, steps) == work.pc \in steps /\ work.n = LastIn(log, k)
Projected(o) == Current(o) /\ ~ WorksOn(o, {"lookup", "project"})

Good(o, u) ==
  \/ view[o] = JoinIn(log, o)
  \/ RowIn(log, u) = 0 /\ view[o] = NoView

\* The projector has yet to rewrite the view of o for the last change of its user.
Pending(o, u) ==
  \/ ~ Current(u)
  \/ WorksOn(u, {"targets"})
  \/ WorksOn(u, {"refresh", "rewrite"}) /\ o \in work.targets
  \/ WorksOn(u, {"rewrite"}) /\ o = work.key

\* An order keeps its user.
Settled ==
  \A m, n \in DOMAIN log : log[m].key = log[n].key => log[m].user = log[n].user

\* Nothing is lost before the projector has taken it.
Delivered ==
  /\ \A k \in Keys : latest[k] <= LastIn(log, k)
  /\ \A k \in Keys :
       LastIn(log, k) # 0 =>
         Current(k) \/ \E i \in DOMAIN queue[store_of(k)] : queue[store_of(k)][i] = LastIn(log, k)
  /\ \A n \in seen : n \in DOMAIN log /\ n <= latest[log[n].key]

\* What the projector holds is what it would read now, unless a newer change waits.
WorkHolds ==
  /\ work # Idle => work.n = latest[log[work.n].key]
  /\ work.pc = "project" =>
       \/ log[work.n].del \/ log[work.n].key \in lagged
       \/ work.user = RowIn(log, log[work.n].user) \/ ~ Current(log[work.n].user)
  /\ work.pc = "register" => work.targets = ridx[log[work.n].user]
  /\ work.pc \in {"refresh", "rewrite"} => work.targets \subseteq ridx[log[work.n].key]
  /\ work.pc = "rewrite" =>
       /\ work.key \in ridx[log[work.n].key]
       /\ \/ log[work.n].del \/ work.key \in lagged
          \/ work.order = RowIn(log, work.key) \/ ~ Current(work.key)

\* The index holds orders that refer to the user.
IndexKnown ==
  \A u \in Users : \A o \in ridx[u] : \E n \in DOMAIN log : log[n].key = o /\ log[n].user = u

\* Without online runs the reconciler works alone.
RecAlone == rec # Idle => Quiet /\ rec.mark = mark

\* The projector rewrites the view of o for a change of its user.
Rewrites(o) == work.pc = "rewrite" /\ work.key = o

DeletedShown ==
  \A o \in Orders :
    Projected(o) /\ RowIn(log, o) = 0 => view[o].order = 0 \/ o \in lagged \/ Rewrites(o)

ViewOf(o, u) ==
  /\ o \in ridx[u] \/ Cardinality(ridx[u]) = MaxDependents \/ WorksOn(o, {"dependents", "register"})
  /\ o \notin ridx[u] => view[o].order = RowIn(log, o)
  /\ o \in ridx[u] \/ WorksOn(o, {"dependents", "register"}) => Good(o, u) \/ Pending(o, u) \/ o \in lagged

ViewsShown ==
  rec = Idle => \A o \in Orders, u \in Users :
    Projected(o) /\ RowIn(log, o) # 0 /\ log[RowIn(log, o)].user = u => ViewOf(o, u)

CopiesShown ==
  \A u \in Users :
    RowIn(log, u) # 0 /\ Current(u) /\ ~ WorksOn(u, UserSteps) => copy[u] = RowIn(log, u)

Converging ==
  /\ Settled /\ Delivered /\ WorkHolds /\ IndexKnown /\ RecAlone
  /\ DeletedShown /\ ViewsShown /\ CopiesShown

ViewInv == RecInv /\ (env.hazards = {} => Converging)

-----------------------------------------------------------------------------
(* Lemmas about the log *)

\* A non-empty set of positions up to n has a last one.
LEMMA LastPosition ==
  ASSUME NEW n \in Nat, NEW T, T \subseteq 1..n, T # {}
  PROVE  Max(T) \in T /\ \A y \in T : y <= Max(T)
  <1> DEFINE R == {ss \in Nat \X Nat : ss[1] < ss[2]}
             D == {n - x : x \in T}
  <1>1. IsWellFoundedOn(R, Nat)
    BY NatLessThanWellFounded, Zenon DEF OpToRel
  <1>2. D \subseteq Nat /\ D # {}
    <2>1. \A x \in T : n - x \in Nat
      OBVIOUS
    <2>2. PICK x \in T : TRUE
      OBVIOUS
    <2>3. n - x \in D
      BY <2>2
    <2> QED
      BY <2>1, <2>3
  <1>3. PICK d \in D : \A y \in D : ~ (<<y, d>> \in R)
    <2> HIDE DEF D, R
    <2> QED
      BY <1>1, <1>2, WFMin, Zenon
  <1>4. PICK x \in T : d = n - x
    OBVIOUS
  <1>5. \A y \in T : y <= x
    <2> SUFFICES ASSUME NEW y \in T PROVE y <= x
      OBVIOUS
    <2>1. n - y \in D /\ n - y \in Nat /\ d \in Nat
      BY <1>2
    <2>2. ~ (n - y < d)
      BY <1>3, <2>1
    <2> QED
      BY <1>4, <2>2
  <1> QED
    BY <1>5, Zenon DEF Max

\* The positions of a key in a log.
PositionsOf(l, k) == {i \in 1..Len(l) : l[i].key = k}

\* LastIn is the last position of the key.
LEMMA LastFacts ==
  ASSUME NEW l \in Seq(Changes), NEW k
  PROVE  /\ LastIn(l, k) \in 0..Len(l)
         /\ LastIn(l, k) # 0 => l[LastIn(l, k)].key = k
         /\ \A i \in 1..Len(l) : l[i].key = k => i <= LastIn(l, k)
  <1>1. LastIn(l, k) = IF PositionsOf(l, k) # {} THEN Max(PositionsOf(l, k)) ELSE 0
    BY Zenon DEF LastIn, SelectLastInSeq, PositionsOf
  <1>2. Len(l) \in Nat /\ PositionsOf(l, k) \subseteq 1..Len(l)
    BY DEF PositionsOf
  <1>3. CASE PositionsOf(l, k) = {}
    BY <1>1, <1>2, <1>3 DEF PositionsOf
  <1>4. CASE PositionsOf(l, k) # {}
    <2>1. /\ Max(PositionsOf(l, k)) \in PositionsOf(l, k)
          /\ \A y \in PositionsOf(l, k) : y <= Max(PositionsOf(l, k))
      BY <1>2, <1>4, LastPosition, Zenon
    <2>2. LastIn(l, k) = Max(PositionsOf(l, k))
      BY <1>1, <1>4
    <2> QED
      BY <1>2, <2>1, <2>2 DEF PositionsOf
  <1> QED
    BY <1>3, <1>4

\* RowIn is the last position of the key, or 0.
LEMMA RowFacts ==
  ASSUME NEW l \in Seq(Changes), NEW k
  PROVE  /\ RowIn(l, k) \in 0..Len(l)
         /\ RowIn(l, k) # 0 => RowIn(l, k) = LastIn(l, k) /\ l[RowIn(l, k)].key = k
  BY LastFacts DEF RowIn

\* The model's last and row are LastIn and RowIn of the log.
LEMMA LogNames ==
  \A k : last(k) = LastIn(log, k) /\ row(k) = RowIn(log, k)
  <1>1. ASSUME NEW k PROVE last(k) = LastIn(log, k)
    BY Zenon DEF last, LastIn, SelectLastInSeq
  <1>2. ASSUME NEW k PROVE row(k) = RowIn(log, k)
    BY <1>1 DEF row, RowIn
  <1> QED
    BY <1>1, <1>2

\* The parts of a change.
LEMMA ChangeFacts ==
  ASSUME NEW c \in Changes
  PROVE  /\ c.key \in Keys /\ c.user \in Users /\ c.del \in BOOLEAN
         /\ c.key \in Users => c.user = c.key
         /\ c.key \in Users <=> c.key \notin Orders
  BY ReadModelConstants DEF Changes, Keys

\* A change at the end of the log.
LEMMA LogAppend ==
  ASSUME NEW l \in Seq(Changes), NEW c \in Changes
  PROVE  /\ Append(l, c) \in Seq(Changes) /\ Len(Append(l, c)) = Len(l) + 1 /\ Len(l) \in Nat
         /\ \A i \in 1..Len(l) : Append(l, c)[i] = l[i]
         /\ Append(l, c)[Len(l) + 1] = c
         /\ DOMAIN l = 1..Len(l) /\ DOMAIN Append(l, c) = 1..(Len(l) + 1)
  BY DEF Append

\* It is the last one of its key.
LEMMA LastAppend ==
  ASSUME NEW l \in Seq(Changes), NEW c \in Changes
  PROVE  \A k : /\ LastIn(Append(l, c), k) = IF k = c.key THEN Len(l) + 1 ELSE LastIn(l, k)
                /\ RowIn(Append(l, c), k) = IF k = c.key THEN (IF c.del THEN 0 ELSE Len(l) + 1)
                                                         ELSE RowIn(l, k)
  <1> SUFFICES ASSUME NEW k
               PROVE /\ LastIn(Append(l, c), k) = IF k = c.key THEN Len(l) + 1 ELSE LastIn(l, k)
                     /\ RowIn(Append(l, c), k) = IF k = c.key THEN (IF c.del THEN 0 ELSE Len(l) + 1)
                                                              ELSE RowIn(l, k)
    OBVIOUS
  <1> DEFINE m == Append(l, c)
  <1>1. /\ m \in Seq(Changes) /\ Len(m) = Len(l) + 1 /\ Len(l) \in Nat
        /\ \A i \in 1..Len(l) : m[i] = l[i]
        /\ m[Len(l) + 1] = c
    BY LogAppend
  <1>2. /\ LastIn(l, k) \in 0..Len(l)
        /\ LastIn(l, k) # 0 => l[LastIn(l, k)].key = k
        /\ \A i \in 1..Len(l) : l[i].key = k => i <= LastIn(l, k)
    BY LastFacts
  <1> HIDE DEF m
  <1>3. /\ LastIn(m, k) \in 0..Len(m)
        /\ LastIn(m, k) # 0 => m[LastIn(m, k)].key = k
        /\ \A i \in 1..Len(m) : m[i].key = k => i <= LastIn(m, k)
    BY <1>1, LastFacts, Zenon
  <1>4. CASE k = c.key
    <2>1. LastIn(m, k) = Len(l) + 1
      BY <1>1, <1>3, <1>4
    <2> QED
      BY <1>1, <1>4, <2>1 DEF RowIn, m
  <1>5. CASE k # c.key
    <2>1. LastIn(m, k) # Len(l) + 1
      BY <1>1, <1>3, <1>5
    <2>2. LastIn(m, k) \in 0..Len(l)
      BY <1>1, <1>3, <2>1
    <2>3. LastIn(m, k) # 0 => LastIn(m, k) <= LastIn(l, k)
      BY <1>1, <1>2, <1>3, <2>2
    <2>4. LastIn(l, k) # 0 => LastIn(l, k) <= LastIn(m, k)
      BY <1>1, <1>2, <1>3
    <2>5. LastIn(m, k) = LastIn(l, k)
      BY <1>1, <1>2, <2>2, <2>3, <2>4
    <2> QED
      BY <1>1, <1>2, <1>5, <2>5 DEF RowIn, m
  <1> QED
    BY <1>4, <1>5

\* The outcomes of a request to the cache: done, or lost and counted.
LEMMA Outcome ==
  ASSUME NEW new, NEW old, NEW r \in Store(new, old)
  PROVE  \/ r[1] = new /\ r[2] = losses
         \/ r[1] = old /\ r[2] = losses + 1 /\ Lossy
  BY DEF Store

-----------------------------------------------------------------------------
(* Types *)

\* What the types say of the entries of the log.
LEMMA LogEntries ==
  ASSUME Typed
  PROVE  /\ log \in Seq(Changes) /\ Len(log) \in 0..MaxCommits /\ DOMAIN log = 1..Len(log)
         /\ MaxCommits \in Nat
         /\ \A n \in DOMAIN log :
              /\ n \in 1..MaxCommits
              /\ log[n] \in Changes /\ log[n].key \in Keys /\ log[n].user \in Users
              /\ log[n].del \in BOOLEAN
              /\ log[n].key \in Users => log[n].user = log[n].key
              /\ log[n].key \in Users <=> log[n].key \notin Orders
  <1>1. log \in Seq(Changes) /\ Len(log) \in 0..MaxCommits /\ DOMAIN log = 1..Len(log)
    BY ReadModelConstants DEF Typed, TypeOK
  <1>2. \A n \in DOMAIN log : n \in 1..MaxCommits /\ log[n] \in Changes
    BY <1>1, ReadModelConstants
  <1> QED
    BY <1>1, <1>2, ChangeFacts, ReadModelConstants

\* Rows and joins are made of changes of the log.
LEMMA RowTypes ==
  ASSUME Typed
  PROVE  \A k : /\ RowIn(log, k) \in 0..MaxCommits
                /\ RowIn(log, k) # 0 => RowIn(log, k) \in DOMAIN log /\ log[RowIn(log, k)].key = k
                /\ row(k) = RowIn(log, k) /\ last(k) = LastIn(log, k)
  <1>1. log \in Seq(Changes) /\ Len(log) \in 0..MaxCommits /\ DOMAIN log = 1..Len(log)
    BY LogEntries
  <1>2. ASSUME NEW k
        PROVE  RowIn(log, k) \in 0..Len(log) /\ (RowIn(log, k) # 0 => log[RowIn(log, k)].key = k)
    BY <1>1, RowFacts, Zenon
  <1>3. ASSUME NEW k PROVE row(k) = RowIn(log, k) /\ last(k) = LastIn(log, k)
    BY LogNames
  <1> QED
    BY <1>1, <1>2, <1>3, ReadModelConstants

\* An entry of the cache is a row its key has had, or nothing.
LEMMA EntryFacts ==
  ASSUME Typed, NEW k, NEW e \in Entries(k)
  PROVE  e \in 0..MaxCommits
  BY LogEntries, ReadModelConstants DEF Entries

\* The empty system is well typed.
LEMMA TypedInit == Init => Typed
  <1> SUFFICES ASSUME Init PROVE Typed
    OBVIOUS
  <1> USE DEF Init
  <1>1. log \in Seq(Changes) /\ Len(log) <= MaxCommits
    BY ReadModelConstants
  <1>2. queue \in [Stores -> Seq(1..MaxCommits)]
    OBVIOUS
  <1>3. Cardinality({}) = 0 /\ IsFiniteSet({})
    BY FS_EmptySet
  <1>4. NoView \in [order : 0..MaxCommits, user : 0..MaxCommits]
    BY ReadModelConstants DEF NoView
  <1>5. TypeOK
    <2>1. env \in Environments
      OBVIOUS
    <2>2. latest \in [Keys -> 0..MaxCommits] /\ lagged \subseteq Orders
      BY ReadModelConstants
    <2>3. seen \subseteq 1..MaxCommits /\ Cardinality(seen) <= DedupCapacity
      BY <1>3, ReadModelConstants
    <2>4. view \in [Orders -> [order : 0..MaxCommits, user : 0..MaxCommits]]
      BY <1>4
    <2>5. copy \in [Users -> 0..MaxCommits]
      BY ReadModelConstants
    <2>6. ridx \in [Users -> SUBSET Orders] /\ \A u \in Users : Cardinality(ridx[u]) <= MaxDependents
      BY <1>3, ReadModelConstants
    <2> QED
      BY <1>1, <1>2, <2>1, <2>2, <2>3, <2>4, <2>5, <2>6 DEF TypeOK
  <1>6. WorkType /\ RecType
    BY DEF WorkType, RecType, Idle, OrderSteps, UserSteps
  <1>7. QueueType /\ CountType
    BY <1>3 DEF QueueType, CountType
  <1> QED
    BY <1>5, <1>6, <1>7 DEF Typed

\* What putting an event at the end of a queue does to the queues.
EnqueueFacts(q, p, s, n) ==
  /\ p \in [Stores -> Seq(1..MaxCommits)]
  /\ \A t \in Stores : \A i \in DOMAIN p[t] :
       (i \in DOMAIN q[t] /\ p[t][i] = q[t][i]) \/ (t = s /\ p[t][i] = n)
  /\ \A t \in Stores : \A i \in DOMAIN q[t] : i \in DOMAIN p[t] /\ p[t][i] = q[t][i]
  /\ Len(q[s]) + 1 \in DOMAIN p[s] /\ p[s][Len(q[s]) + 1] = n

\* What taking the event at the head of a queue out does to them.
DequeueFacts(q, p, s) ==
  /\ p \in [Stores -> Seq(1..MaxCommits)]
  /\ 1 \in DOMAIN q[s] /\ Head(q[s]) = q[s][1] /\ Head(q[s]) \in 1..MaxCommits
  /\ \A t \in Stores : \A i \in DOMAIN p[t] : \E j \in DOMAIN q[t] : p[t][i] = q[t][j]
  /\ \A t \in Stores : \A i \in DOMAIN q[t] :
       (t = s /\ i = 1) \/ \E j \in DOMAIN p[t] : p[t][j] = q[t][i]

\* An event is put at the end of its store's queue.
LEMMA Enqueued ==
  ASSUME NEW q \in [Stores -> Seq(1..MaxCommits)], NEW s \in Stores, NEW n \in 1..MaxCommits,
         NEW p, p = [q EXCEPT ![s] = Append(@, n)]
  PROVE  EnqueueFacts(q, p, s, n)
  <1>1. q[s] \in Seq(1..MaxCommits) /\ p[s] = Append(q[s], n) /\ \A t \in Stores : t # s => p[t] = q[t]
    OBVIOUS
  <1>2. /\ Append(q[s], n) \in Seq(1..MaxCommits)
        /\ Len(q[s]) \in Nat /\ DOMAIN q[s] = 1..Len(q[s])
        /\ DOMAIN Append(q[s], n) = 1..(Len(q[s]) + 1)
        /\ \A i \in 1..Len(q[s]) : Append(q[s], n)[i] = q[s][i]
        /\ Append(q[s], n)[Len(q[s]) + 1] = n
    BY <1>1
  <1>3. p \in [Stores -> Seq(1..MaxCommits)]
    BY <1>1, <1>2
  <1>4. \A i \in DOMAIN p[s] : (i \in DOMAIN q[s] /\ p[s][i] = q[s][i]) \/ p[s][i] = n
    BY <1>1, <1>2
  <1> QED
    BY <1>1, <1>2, <1>3, <1>4 DEF EnqueueFacts

\* The event at the head of a queue is taken out.
LEMMA Dequeued ==
  ASSUME NEW q \in [Stores -> Seq(1..MaxCommits)], NEW s \in Stores, q[s] # <<>>,
         NEW p, p = [q EXCEPT ![s] = Tail(@)]
  PROVE  DequeueFacts(q, p, s)
  <1>1. q[s] \in Seq(1..MaxCommits) /\ p[s] = Tail(q[s]) /\ \A t \in Stores : t # s => p[t] = q[t]
    OBVIOUS
  <1>2. /\ Len(q[s]) \in Nat \ {0} /\ DOMAIN q[s] = 1..Len(q[s])
        /\ Head(q[s]) = q[s][1] /\ Tail(q[s]) \in Seq(1..MaxCommits)
        /\ DOMAIN Tail(q[s]) = 1..(Len(q[s]) - 1)
        /\ \A i \in 1..(Len(q[s]) - 1) : Tail(q[s])[i] = q[s][i + 1]
    BY <1>1
  <1>3. p \in [Stores -> Seq(1..MaxCommits)] /\ 1 \in DOMAIN q[s] /\ Head(q[s]) \in 1..MaxCommits
    <2>1. p \in [Stores -> Seq(1..MaxCommits)]
      BY <1>1, <1>2
    <2>2. 1 \in DOMAIN q[s]
      BY <1>2
    <2>3. q[s][1] \in 1..MaxCommits
      <3>1. 1 \in 1..Len(q[s])
        BY <1>2
      <3> QED
        BY <1>1, <3>1, ElementOfSeq, Zenon
    <2> QED
      BY <1>2, <2>1, <2>2, <2>3, Zenon
  <1>4. ASSUME NEW i \in DOMAIN p[s] PROVE \E j \in DOMAIN q[s] : p[s][i] = q[s][j]
    <2>1. i + 1 \in DOMAIN q[s] /\ p[s][i] = q[s][i + 1]
      BY <1>1, <1>2, <1>4
    <2> QED
      BY <2>1
  <1>5. ASSUME NEW i \in DOMAIN q[s], i # 1 PROVE \E j \in DOMAIN p[s] : p[s][j] = q[s][i]
    <2>1. i - 1 \in DOMAIN p[s] /\ p[s][i - 1] = q[s][(i - 1) + 1] /\ (i - 1) + 1 = i
      BY <1>1, <1>2, <1>5
    <2> QED
      BY <2>1
  <1>6. \A t \in Stores : \A i \in DOMAIN p[t] : \E j \in DOMAIN q[t] : p[t][i] = q[t][j]
    <2> SUFFICES ASSUME NEW t \in Stores, NEW i \in DOMAIN p[t]
                 PROVE  \E j \in DOMAIN q[t] : p[t][i] = q[t][j]
      OBVIOUS
    <2>1. CASE t = s
      BY <1>4, <2>1
    <2>2. CASE t # s
      BY <1>1, <2>2
    <2> QED
      BY <2>1, <2>2
  <1>7. \A t \in Stores : \A i \in DOMAIN q[t] :
          (t = s /\ i = 1) \/ \E j \in DOMAIN p[t] : p[t][j] = q[t][i]
    <2> SUFFICES ASSUME NEW t \in Stores, NEW i \in DOMAIN q[t], ~ (t = s /\ i = 1)
                 PROVE  \E j \in DOMAIN p[t] : p[t][j] = q[t][i]
      OBVIOUS
    <2>1. CASE t = s
      BY <1>5, <2>1
    <2>2. CASE t # s
      BY <1>1, <2>2
    <2> QED
      BY <2>1, <2>2
  <1> QED
    BY <1>2, <1>3, <1>6, <1>7, Zenon DEF DequeueFacts

\* A committed change is well typed.
LEMMA TypedCommit ==
  ASSUME Typed, NEW c \in Changes, Commit(c)
  PROVE  Typed'
  <1>1. /\ log \in Seq(Changes) /\ Len(log) \in 0..MaxCommits /\ DOMAIN log = 1..Len(log)
        /\ MaxCommits \in Nat
    BY LogEntries
  <1>2. env \in Environments /\ env.commits \in 0..MaxCommits
    BY ReadModelConstants DEF Typed, TypeOK
  <1>3. /\ log' \in Seq(Changes) /\ Len(log') = Len(log) + 1
        /\ \A i \in 1..Len(log) : log'[i] = log[i]
        /\ log'[Len(log) + 1] = c /\ DOMAIN log' = 1..(Len(log) + 1)
    BY <1>1, LogAppend DEF Commit
  <1>4. Len(log) + 1 \in 1..MaxCommits
    BY <1>1, <1>2 DEF Commit
  <1>5. c.key \in Keys /\ c.user \in Users /\ c.del \in BOOLEAN
    BY ChangeFacts
  <1>6. \A n \in DOMAIN log : n \in DOMAIN log' /\ log'[n] = log[n]
    BY <1>1, <1>3
  <1>7. store_of(c.key) \in Stores
    BY DEF store_of, Stores
  <1>8. queue \in [Stores -> Seq(1..MaxCommits)]
    BY DEF Typed, TypeOK
  <1>9. queue' = [queue EXCEPT ![store_of(c.key)] = Append(@, Len(log) + 1)]
    BY DEF Commit
  <1>10. /\ queue' \in [Stores -> Seq(1..MaxCommits)]
         /\ \A t \in Stores : \A i \in DOMAIN queue'[t] :
              (i \in DOMAIN queue[t] /\ queue'[t][i] = queue[t][i])
                \/ (t = store_of(c.key) /\ queue'[t][i] = Len(log) + 1)
    <2>1. EnqueueFacts(queue, queue', store_of(c.key), Len(log) + 1)
      BY <1>4, <1>7, <1>8, <1>9, Enqueued, Zenon
    <2> QED
      BY <2>1 DEF EnqueueFacts
  <1>11. TypeOK'
    <2>1. log' \in Seq(Changes) /\ Len(log') <= MaxCommits
      BY <1>3, <1>4
    <2> QED
      BY <1>10, <2>1 DEF Typed, TypeOK, Commit, projector, caches
  <1>12. WorkType'
    <2>1. work' = work
      BY DEF Commit, projector
    <2>2. WorkType
      BY DEF Typed
    <2> QED
      BY <1>6, <2>1, <2>2 DEF WorkType, Idle, OrderSteps, UserSteps
  <1>13. RecType'
    BY <1>6 DEF Typed, RecType, Commit
  <1>14. QueueType'
    <2>1. Len(log) + 1 \in DOMAIN log' /\ store_of(log'[Len(log) + 1].key) = store_of(c.key)
      BY <1>1, <1>3
    <2>2. \A s \in Stores : \A i \in DOMAIN queue[s] :
            queue[s][i] \in DOMAIN log /\ store_of(log[queue[s][i]].key) = s
      BY DEF Typed, QueueType
    <2>3. \A s \in Stores : \A i \in DOMAIN queue'[s] :
            queue'[s][i] \in DOMAIN log' /\ store_of(log'[queue'[s][i]].key) = s
      BY <1>6, <1>10, <2>1, <2>2
    <2> QED
      BY <2>3 DEF QueueType, store_of
  <1>15. CountType'
    BY DEF Typed, CountType, Commit, bounds, caches
  <1> QED
    BY <1>11, <1>12, <1>13, <1>14, <1>15 DEF Typed

\* Events published again are well typed.
LEMMA TypedResend ==
  ASSUME Typed, NEW n \in 1..MaxCommits, Resend(n)
  PROVE  Typed'
  <1>1. store_of(log[n].key) \in Stores
    BY DEF store_of, Stores
  <1>2. queue \in [Stores -> Seq(1..MaxCommits)]
    BY DEF Typed, TypeOK
  <1>3. queue' = [queue EXCEPT ![store_of(log[n].key)] = Append(@, n)]
    BY DEF Resend
  <1>4. /\ queue' \in [Stores -> Seq(1..MaxCommits)]
        /\ \A t \in Stores : \A i \in DOMAIN queue'[t] :
             (i \in DOMAIN queue[t] /\ queue'[t][i] = queue[t][i])
               \/ (t = store_of(log[n].key) /\ queue'[t][i] = n)
    <2>1. EnqueueFacts(queue, queue', store_of(log[n].key), n)
      BY <1>1, <1>2, <1>3, Enqueued, Zenon
    <2> QED
      BY <2>1 DEF EnqueueFacts
  <1>5. TypeOK'
    BY <1>4, SMTT(60) DEF Typed, TypeOK, Resend, projector, caches
  <1>6. QueueType'
    <2>1. \A s \in Stores : \A i \in DOMAIN queue[s] :
            queue[s][i] \in DOMAIN log /\ store_of(log[queue[s][i]].key) = s
      BY DEF Typed, QueueType
    <2>2. \A s \in Stores : \A i \in DOMAIN queue'[s] :
            queue'[s][i] \in DOMAIN log /\ store_of(log[queue'[s][i]].key) = s
      BY <1>4, <2>1 DEF Resend
    <2> QED
      BY <2>2 DEF QueueType, Resend, store_of
  <1> QED
    BY <1>5, <1>6 DEF Typed, WorkType, RecType, CountType, Resend, projector, caches,
                            OrderSteps, UserSteps

\* What a received event is.
LEMMA ReceivedFacts ==
  ASSUME Typed, NEW s \in Stores, Received(s)
  PROVE  /\ queue' \in [Stores -> Seq(1..MaxCommits)]
         /\ Head(queue[s]) \in DOMAIN log /\ store_of(log[Head(queue[s])].key) = s
         /\ Head(queue[s]) = queue[s][1] /\ 1 \in DOMAIN queue[s]
         /\ \A t \in Stores : \A i \in DOMAIN queue'[t] :
              queue'[t][i] \in DOMAIN log /\ store_of(log[queue'[t][i]].key) = t
         /\ \A t \in Stores : \A i \in DOMAIN queue[t] :
              (t = s /\ i = 1) \/ \E j \in DOMAIN queue'[t] : queue'[t][j] = queue[t][i]
         /\ work = Idle
  <1>1. queue \in [Stores -> Seq(1..MaxCommits)] /\ queue[s] # <<>>
    BY DEF Typed, TypeOK, Received
  <1>2. queue' = [queue EXCEPT ![s] = Tail(@)]
    BY DEF Received
  <1>3. /\ queue' \in [Stores -> Seq(1..MaxCommits)]
        /\ 1 \in DOMAIN queue[s] /\ Head(queue[s]) = queue[s][1]
        /\ \A t \in Stores : \A i \in DOMAIN queue'[t] :
             \E j \in DOMAIN queue[t] : queue'[t][i] = queue[t][j]
        /\ \A t \in Stores : \A i \in DOMAIN queue[t] :
             (t = s /\ i = 1) \/ \E j \in DOMAIN queue'[t] : queue'[t][j] = queue[t][i]
    <2>1. DequeueFacts(queue, queue', s)
      BY <1>1, <1>2, Dequeued, Zenon
    <2> QED
      BY <2>1 DEF DequeueFacts
  <1>4. \A t \in Stores : \A i \in DOMAIN queue[t] :
          queue[t][i] \in DOMAIN log /\ store_of(log[queue[t][i]].key) = t
    BY DEF Typed, QueueType
  <1>5. \A t \in Stores : \A i \in DOMAIN queue'[t] :
          queue'[t][i] \in DOMAIN log /\ store_of(log[queue'[t][i]].key) = t
    BY <1>3, <1>4
  <1> QED
    BY <1>3, <1>4, <1>5 DEF Received

\* So is what the projector does with an event it receives.
LEMMA TypedReceive ==
  ASSUME Typed, NEW s \in Stores, SkipStale(s) \/ SkipDuplicate(s) \/ Take(s)
  PROVE  Typed'
  <1> DEFINE n == Head(queue[s])
  <1>1. Received(s)
    BY DEF SkipStale, SkipDuplicate, Take
  <1>2. /\ queue' \in [Stores -> Seq(1..MaxCommits)]
        /\ n \in DOMAIN log /\ store_of(log[n].key) = s
        /\ \A t \in Stores : \A i \in DOMAIN queue'[t] :
             queue'[t][i] \in DOMAIN log /\ store_of(log[queue'[t][i]].key) = t
    BY <1>1, ReceivedFacts
  <1>3. n \in 1..MaxCommits /\ log[n].key \in Keys /\ (log[n].key \in Users <=> log[n].key \notin Orders)
    BY <1>2, LogEntries
  <1>4. UNCHANGED <<env, log, lagged, view, copy, ridx, rec, resends, losses>>
    BY DEF SkipStale, SkipDuplicate, Take, caches, bounds
  <1> HIDE DEF n
  <1>5. QueueType'
    BY <1>2, <1>4 DEF QueueType, store_of
  <1>6. RecType' /\ CountType'
    BY <1>4 DEF Typed, RecType, CountType
  <1>7. /\ seen_before \subseteq 1..MaxCommits /\ IsFiniteSet(seen_before)
        /\ Cardinality(seen_before) < DedupCapacity
    <2>1. seen \subseteq 1..MaxCommits
      BY DEF Typed, TypeOK
    <2>2. IsFiniteSet(1..MaxCommits)
      BY ReadModelConstants, FS_Interval
    <2>3. IsFiniteSet(seen) /\ Cardinality(seen) \in Nat
      BY <2>1, <2>2, FS_Subset, FS_CardinalityType
    <2>4. CASE Cardinality(seen) >= DedupCapacity
      <3>1. seen_before = {}
        BY <2>4 DEF seen_before
      <3>2. IsFiniteSet({}) /\ Cardinality({}) = 0
        BY FS_EmptySet
      <3> QED
        BY <3>1, <3>2, ReadModelConstants
    <2>5. CASE ~ (Cardinality(seen) >= DedupCapacity)
      <3>1. seen_before = seen
        BY <2>5 DEF seen_before
      <3> QED
        BY <2>1, <2>3, <2>5, <3>1, ReadModelConstants
    <2> QED
      BY <2>4, <2>5
  <1>8. Cardinality(seen_before) \in Nat
    BY <1>7, FS_CardinalityType
  <1>9. CASE SkipStale(s)
    <2>1. UNCHANGED <<seen, latest, work>>
      BY <1>9 DEF SkipStale, projector
    <2>2. TypeOK'
      BY <1>2, <1>4, <2>1 DEF Typed, TypeOK
    <2>3. WorkType'
      BY <1>4, <2>1 DEF Typed, WorkType
    <2> QED
      BY <1>5, <1>6, <2>2, <2>3 DEF Typed
  <1>10. CASE SkipDuplicate(s)
    <2>1. latest' = [latest EXCEPT ![log[n].key] = n] /\ seen' = seen_before /\ work' = work
      BY <1>10 DEF SkipDuplicate, n
    <2>2. latest' \in [Keys -> 0..MaxCommits]
      BY <1>3, <2>1 DEF Typed, TypeOK
    <2>3. TypeOK'
      BY <1>2, <1>4, <1>7, <1>8, <2>1, <2>2, ReadModelConstants, SMTT(60) DEF Typed, TypeOK
    <2>4. WorkType'
      BY <1>4, <2>1 DEF Typed, WorkType
    <2> QED
      BY <1>5, <1>6, <2>3, <2>4 DEF Typed
  <1>11. CASE Take(s)
    <2>1. /\ latest' = [latest EXCEPT ![log[n].key] = n] /\ seen' = seen_before \cup {n}
          /\ work' = [pc |-> IF s = "orders" THEN "lookup" ELSE "targets", n |-> n]
      BY <1>11 DEF Take, n
    <2>2. latest' \in [Keys -> 0..MaxCommits]
      BY <1>3, <2>1 DEF Typed, TypeOK
    <2>3. IsFiniteSet(seen_before \cup {n}) /\ Cardinality(seen_before \cup {n}) <= DedupCapacity
      <3>1. /\ IsFiniteSet(seen_before \cup {n})
            /\ Cardinality(seen_before \cup {n}) =
                 IF n \in seen_before THEN Cardinality(seen_before) ELSE Cardinality(seen_before) + 1
        BY <1>7, FS_AddElement, Zenon
      <3> QED
        BY <1>7, <1>8, <3>1, ReadModelConstants
    <2>4. TypeOK'
      BY <1>2, <1>3, <1>4, <1>7, <2>1, <2>2, <2>3, ReadModelConstants DEF Typed, TypeOK
    <2>5. WorkType'
      <3>1. work'.pc = (IF s = "orders" THEN "lookup" ELSE "targets") /\ work'.n = n
        BY <2>1
      <3>2. s = "orders" => log[n].key \in Orders
        BY <1>2 DEF store_of
      <3>3. s # "orders" => log[n].key \in Users
        BY <1>2, <1>3 DEF store_of
      <3> QED
        BY <1>2, <1>4, <3>1, <3>2, <3>3 DEF WorkType, OrderSteps, UserSteps
    <2> QED
      BY <1>5, <1>6, <2>4, <2>5 DEF Typed
  <1> QED
    BY <1>9, <1>10, <1>11

\* What the projector works on.
LEMMA WorkFacts ==
  ASSUME Typed, work # Idle
  PROVE  /\ work.n \in DOMAIN log /\ work.n \in 1..MaxCommits
         /\ log[work.n].key \in Keys /\ log[work.n].user \in Users /\ log[work.n].del \in BOOLEAN
         /\ work.pc \in OrderSteps => log[work.n].key \in Orders
         /\ work.pc \in UserSteps => log[work.n].key \in Users /\ log[work.n].user = log[work.n].key
         /\ work.pc \in OrderSteps \/ work.pc \in UserSteps
  <1>1. /\ work.n \in DOMAIN log
        /\ work.pc \in OrderSteps => log[work.n].key \in Orders
        /\ work.pc \in UserSteps => log[work.n].key \in Users
        /\ work.pc \in OrderSteps \/ work.pc \in UserSteps
    BY DEF Typed, WorkType
  <1> QED
    BY <1>1, LogEntries

\* Steps on the event of an order are well typed.
LEMMA TypedOrderWork ==
  ASSUME Typed, Lookup \/ Project \/ ReadDependents \/ Register
  PROVE  Typed'
  <1>1. work # Idle /\ work.pc \in OrderSteps
    BY DEF Lookup, Project, ReadDependents, Register, Idle, OrderSteps
  <1>2. /\ work.n \in DOMAIN log /\ work.n \in 1..MaxCommits
        /\ event.key \in Orders /\ event.user \in Users /\ event.del \in BOOLEAN
    BY <1>1, WorkFacts DEF event
  <1>3. UNCHANGED <<env, log, queue, seen, latest, copy, rec, resends>>
    BY DEF Lookup, Project, ReadDependents, Register, caches, bounds
  <1>4. QueueType' /\ RecType'
    BY <1>3 DEF Typed, QueueType, RecType
  <1>5. losses \in Nat /\ event.key \in Keys /\ lagged' \subseteq Orders
    <2>1. lagged' \subseteq lagged \cup {event.key}
      BY DEF Lookup, Project, ReadDependents, Register, caches, Note
    <2> QED
      BY <1>2, <2>1 DEF Typed, TypeOK, CountType, Keys
  <1>6. CASE Lookup
    <2>1. PICK e \in Entries(event.user) : work' = [pc |-> "project", n |-> work.n, user |-> e]
      BY <1>6 DEF Lookup
    <2>2. losses' = losses
      BY <1>6 DEF Lookup, bounds
    <2>3. e \in 0..MaxCommits
      BY EntryFacts
    <2>4. WorkType'
      <3>1. work'.pc = "project" /\ work'.n = work.n /\ work'.user \in 0..MaxCommits
        BY <2>1, <2>3
      <3> QED
        BY <1>2, <1>3, <3>1 DEF WorkType, OrderSteps, UserSteps, event
    <2>5. UNCHANGED <<view, ridx>>
      BY <1>6 DEF Lookup
    <2>6. TypeOK' /\ CountType'
      BY <1>3, <1>5, <2>1, <2>2, <2>5 DEF Typed, TypeOK, CountType
    <2> QED
      BY <1>4, <2>4, <2>6 DEF Typed
  <1>7. CASE Project
    <2> DEFINE new == IF event.del THEN NoView ELSE [order |-> work.n, user |-> work.user]
    <2>1. PICK r \in Store(new, view[event.key]) :
            view' = [view EXCEPT ![event.key] = r[1]] /\ losses' = r[2]
      BY <1>7 DEF Project
    <2>2. new \in [order : 0..MaxCommits, user : 0..MaxCommits]
      <3>1. work.user \in 0..MaxCommits /\ work.n \in 0..MaxCommits
        BY <1>2, <1>7 DEF Typed, WorkType, Project
      <3> QED
        BY <3>1, ReadModelConstants DEF NoView
    <2> HIDE DEF new
    <2>3. \/ r[1] = new /\ r[2] = losses
          \/ r[1] = view[event.key] /\ r[2] = losses + 1
      BY Outcome
    <2>4. view' \in [Orders -> [order : 0..MaxCommits, user : 0..MaxCommits]]
      BY <1>2, <2>1, <2>2, <2>3 DEF Typed, TypeOK
    <2>5. ridx' = ridx
      BY <1>7 DEF Project
    <2>6. TypeOK' /\ CountType'
      BY <1>3, <1>5, <2>1, <2>3, <2>4, <2>5, SMTT(60) DEF Typed, TypeOK, CountType
    <2>7. WorkType'
      <3>1. work' = Idle \/ (work'.pc = "dependents" /\ work'.n = work.n)
        BY <1>7 DEF Project
      <3> QED
        BY <1>2, <1>3, <3>1 DEF WorkType, OrderSteps, UserSteps, event, Idle
    <2> QED
      BY <1>4, <2>6, <2>7 DEF Typed
  <1>8. CASE ReadDependents
    <2>1. PICK r \in Store(ridx[event.user], {}) :
            /\ work' = IF event.key \in r[1] \/ Cardinality(r[1]) >= MaxDependents
                         THEN Idle
                         ELSE [pc |-> "register", n |-> work.n, targets |-> r[1]]
            /\ losses' = r[2]
      BY <1>8 DEF ReadDependents
    <2>2. \/ r[1] = ridx[event.user] /\ r[2] = losses
          \/ r[1] = {} /\ r[2] = losses + 1
      BY Outcome
    <2>3. r[1] \subseteq Orders /\ IsFiniteSet(r[1]) /\ Cardinality(r[1]) \in Nat
      <3>1. IsFiniteSet({})
        BY FS_EmptySet
      <3>2. r[1] \subseteq Orders /\ IsFiniteSet(r[1])
        BY <1>2, <2>2, <3>1 DEF Typed, TypeOK, CountType
      <3> QED
        BY <3>2, FS_CardinalityType
    <2>4. WorkType'
      <3>1. \/ work' = Idle
            \/ /\ work'.pc = "register" /\ work'.n = work.n /\ work'.targets = r[1]
               /\ ~ (Cardinality(r[1]) >= MaxDependents)
        BY <2>1
      <3> QED
        BY <1>2, <1>3, <2>3, <3>1, ReadModelConstants DEF WorkType, OrderSteps, UserSteps, event, Idle
    <2>5. UNCHANGED <<view, ridx>>
      BY <1>8 DEF ReadDependents, caches
    <2>6. TypeOK' /\ CountType'
      BY <1>3, <1>5, <2>1, <2>2, <2>5 DEF Typed, TypeOK, CountType
    <2> QED
      BY <1>4, <2>4, <2>6 DEF Typed
  <1>9. CASE Register
    <2>1. PICK r \in Store(work.targets \cup {event.key}, ridx[event.user]) :
            ridx' = [ridx EXCEPT ![event.user] = r[1]] /\ losses' = r[2]
      BY <1>9 DEF Register
    <2>2. \/ r[1] = work.targets \cup {event.key} /\ r[2] = losses
          \/ r[1] = ridx[event.user] /\ r[2] = losses + 1
      BY Outcome
    <2>3. /\ work.targets \subseteq Orders /\ IsFiniteSet(work.targets)
          /\ Cardinality(work.targets) < MaxDependents
      BY <1>9 DEF Typed, WorkType, Register
    <2>4. Cardinality(work.targets) \in Nat
      BY <2>3, FS_CardinalityType
    <2>5. /\ IsFiniteSet(work.targets \cup {event.key})
          /\ Cardinality(work.targets \cup {event.key}) <= MaxDependents
      <3>1. /\ IsFiniteSet(work.targets \cup {event.key})
            /\ Cardinality(work.targets \cup {event.key}) =
                 IF event.key \in work.targets THEN Cardinality(work.targets)
                                               ELSE Cardinality(work.targets) + 1
        BY <2>3, FS_AddElement, Zenon
      <3> QED
        BY <2>3, <2>4, <3>1, ReadModelConstants
    <2>6. r[1] \subseteq Orders /\ IsFiniteSet(r[1]) /\ Cardinality(r[1]) <= MaxDependents
      BY <1>2, <2>2, <2>3, <2>5 DEF Typed, TypeOK, CountType
    <2>7. /\ ridx' \in [Users -> SUBSET Orders]
          /\ \A u \in Users : Cardinality(ridx'[u]) <= MaxDependents /\ IsFiniteSet(ridx'[u])
      BY <1>2, <2>1, <2>6 DEF Typed, TypeOK, CountType
    <2>8. view' = view /\ work' = Idle
      BY <1>9 DEF Register
    <2>9. TypeOK' /\ CountType'
      BY <1>3, <1>5, <2>1, <2>2, <2>7, <2>8 DEF Typed, TypeOK, CountType
    <2>10. WorkType'
      BY <2>8 DEF WorkType, OrderSteps, UserSteps, Idle
    <2> QED
      BY <1>4, <2>9, <2>10 DEF Typed
  <1> QED
    BY <1>6, <1>7, <1>8, <1>9

\* Steps on the event of a user are well typed.
LEMMA TypedUserWork ==
  ASSUME Typed,
         ReadTargets \/ RewriteTarget \/ Materialize \/ \E o \in Orders : ReadTarget(o)
  PROVE  Typed'
  <1>1. work # Idle /\ work.pc \in UserSteps
    BY DEF ReadTargets, RewriteTarget, Materialize, ReadTarget, Idle, UserSteps
  <1>2. /\ work.n \in DOMAIN log /\ work.n \in 1..MaxCommits
        /\ event.key \in Users /\ event.del \in BOOLEAN
    BY <1>1, WorkFacts DEF event
  <1>3. UNCHANGED <<env, log, queue, seen, latest, ridx, rec, resends>>
    BY DEF ReadTargets, RewriteTarget, Materialize, ReadTarget, caches, bounds
  <1>4. QueueType' /\ RecType'
    BY <1>3 DEF Typed, QueueType, RecType
  <1>5. losses \in Nat /\ lagged' \subseteq Orders
    <2>1. lagged \subseteq Orders
      BY DEF Typed, TypeOK
    <2>2. ASSUME NEW o \in Orders, ReadTarget(o) PROVE lagged' \subseteq lagged \cup {o}
      BY <2>2 DEF ReadTarget, Note
    <2>3. ASSUME ReadTargets \/ RewriteTarget \/ Materialize PROVE lagged' = lagged
      BY <2>3 DEF ReadTargets, RewriteTarget, Materialize, caches
    <2> QED
      BY <2>1, <2>2, <2>3 DEF Typed, CountType
  <1>6. CASE ReadTargets
    <2>1. PICK r \in Store(ridx[event.key], {}) :
            work' = [pc |-> "refresh", n |-> work.n, targets |-> r[1]] /\ losses' = r[2]
      BY <1>6 DEF ReadTargets
    <2>2. \/ r[1] = ridx[event.key] /\ r[2] = losses
          \/ r[1] = {} /\ r[2] = losses + 1
      BY Outcome
    <2>3. r[1] \subseteq Orders
      BY <1>2, <2>2 DEF Typed, TypeOK
    <2>4. WorkType'
      BY <1>2, <1>3, <2>1, <2>3 DEF WorkType, OrderSteps, UserSteps, event
    <2>5. UNCHANGED <<view, copy>>
      BY <1>6 DEF ReadTargets, caches
    <2>6. TypeOK' /\ CountType'
      BY <1>3, <1>5, <2>1, <2>2, <2>5 DEF Typed, TypeOK, CountType
    <2> QED
      BY <1>4, <2>4, <2>6 DEF Typed
  <1>7. ASSUME NEW o \in Orders, ReadTarget(o) PROVE Typed'
    <2>1. PICK e \in (IF event.del THEN {0} ELSE Entries(o)) :
            work' = [pc |-> "rewrite", n |-> work.n, targets |-> work.targets \ {o},
                     key |-> o, order |-> e]
      BY <1>7 DEF ReadTarget
    <2>2. losses' = losses
      BY <1>7 DEF ReadTarget, bounds
    <2>3. e \in 0..MaxCommits
      BY EntryFacts, ReadModelConstants
    <2>4. work.targets \subseteq Orders
      BY <1>7 DEF Typed, WorkType, ReadTarget
    <2>5. WorkType'
      <3>1. /\ work'.pc = "rewrite" /\ work'.n = work.n /\ work'.targets = work.targets \ {o}
            /\ work'.key = o /\ work'.order = e
        BY <2>1
      <3> QED
        BY <1>2, <1>3, <2>3, <2>4, <3>1 DEF WorkType, OrderSteps, UserSteps, event
    <2>6. UNCHANGED <<view, copy>>
      BY <1>7 DEF ReadTarget
    <2>7. TypeOK' /\ CountType'
      BY <1>3, <1>5, <2>1, <2>2, <2>6, SMTT(60) DEF Typed, TypeOK, CountType
    <2> QED
      BY <1>4, <2>5, <2>7 DEF Typed
  <1>8. CASE RewriteTarget
    <2> DEFINE new == IF event.del THEN NoView ELSE [order |-> work.order, user |-> work.n]
    <2>1. PICK r \in Store(new, view[work.key]) :
            view' = [view EXCEPT ![work.key] = r[1]] /\ losses' = r[2]
      BY <1>8 DEF RewriteTarget
    <2>2. work.key \in Orders /\ work.order \in 0..MaxCommits /\ work.targets \subseteq Orders
      BY <1>8 DEF Typed, WorkType, RewriteTarget
    <2>3. new \in [order : 0..MaxCommits, user : 0..MaxCommits]
      BY <1>2, <2>2, ReadModelConstants DEF NoView
    <2> HIDE DEF new
    <2>4. \/ r[1] = new /\ r[2] = losses
          \/ r[1] = view[work.key] /\ r[2] = losses + 1
      BY Outcome
    <2>5. view' \in [Orders -> [order : 0..MaxCommits, user : 0..MaxCommits]]
      BY <2>1, <2>2, <2>3, <2>4 DEF Typed, TypeOK
    <2>6. copy' = copy /\ work' = [pc |-> "refresh", n |-> work.n, targets |-> work.targets]
      BY <1>8 DEF RewriteTarget
    <2>7. TypeOK' /\ CountType'
      BY <1>3, <1>5, <2>1, <2>4, <2>5, <2>6, SMTT(60) DEF Typed, TypeOK, CountType
    <2>8. WorkType'
      BY <1>2, <1>3, <2>2, <2>6 DEF WorkType, OrderSteps, UserSteps, event
    <2> QED
      BY <1>4, <2>7, <2>8 DEF Typed
  <1>9. CASE Materialize
    <2> DEFINE new == IF event.del THEN copy[event.key] ELSE work.n
    <2>1. PICK r \in Store(new, copy[event.key]) :
            copy' = [copy EXCEPT ![event.key] = r[1]] /\ losses' = r[2]
      BY <1>9 DEF Materialize
    <2>2. new \in 0..MaxCommits
      BY <1>2 DEF Typed, TypeOK
    <2> HIDE DEF new
    <2>3. \/ r[1] = new /\ r[2] = losses
          \/ r[1] = copy[event.key] /\ r[2] = losses + 1
      BY Outcome
    <2>4. copy' \in [Users -> 0..MaxCommits]
      BY <1>2, <2>1, <2>2, <2>3 DEF Typed, TypeOK
    <2>5. view' = view /\ work' = Idle
      BY <1>9 DEF Materialize
    <2>6. TypeOK' /\ CountType'
      BY <1>3, <1>5, <2>1, <2>3, <2>4, <2>5 DEF Typed, TypeOK, CountType
    <2>7. WorkType'
      BY <2>5 DEF WorkType, OrderSteps, UserSteps, Idle
    <2> QED
      BY <1>4, <2>6, <2>7 DEF Typed
  <1> QED
    BY <1>6, <1>7, <1>8, <1>9

\* So are lost sessions and crashes of the projector.
LEMMA TypedLosses ==
  ASSUME Typed, LoseSession \/ CrashProjector
  PROVE  Typed'
  <1>1. UNCHANGED <<env, log, lagged, view, copy, ridx, rec, resends>>
    BY DEF LoseSession, CrashProjector, caches
  <1>2. queue' = [s \in Stores |-> <<>>] /\ losses' = losses + 1
    BY DEF LoseSession, CrashProjector
  <1>3. queue' \in [Stores -> Seq(1..MaxCommits)]
    BY <1>2
  <1>4. QueueType'
    BY <1>2 DEF QueueType
  <1>5. RecType' /\ CountType'
    BY <1>1, <1>2 DEF Typed, RecType, CountType
  <1>6. CASE LoseSession
    <2>1. UNCHANGED <<seen, latest, work>>
      BY <1>6 DEF LoseSession, projector
    <2> QED
      BY <1>1, <1>3, <1>4, <1>5, <2>1 DEF Typed, TypeOK, WorkType
  <1>7. CASE CrashProjector
    <2>1. seen' = {} /\ latest' = [k \in Keys |-> 0] /\ work' = Idle
      BY <1>7 DEF CrashProjector
    <2>2. Cardinality({}) = 0
      BY FS_EmptySet
    <2>3. latest' \in [Keys -> 0..MaxCommits]
      BY <2>1, ReadModelConstants
    <2>4. TypeOK'
      BY <1>1, <1>3, <2>1, <2>2, <2>3, ReadModelConstants DEF Typed, TypeOK
    <2>5. WorkType'
      BY <2>1 DEF WorkType, OrderSteps, UserSteps, Idle
    <2> QED
      BY <1>4, <1>5, <2>4, <2>5 DEF Typed
  <1> QED
    BY <1>6, <1>7

RecSteps ==
  \/ DropIndex \/ SelectOrders \/ SelectUsers \/ SelectFails \/ EnterOrder \/ RebuildView
  \/ SelectCopies \/ EndRun \/ KillReconciler
  \/ \E n \in 1..MaxCommits : RebuildIndex(n) \/ RebuildCopy(n)

\* A SELECT finds the rows, or some of them and is counted.
LEMMA SelectionOutcome ==
  ASSUME NEW keys, NEW r \in Selection(keys)
  PROVE  /\ r[1] \subseteq {row(k) : k \in keys} \ {0}
         /\ \/ r[1] = {row(k) : k \in keys} \ {0} /\ r[2] = losses
            \/ r[2] = losses + 1 /\ Lossy
  BY DEF Selection

\* So is what the reconciler does.
LEMMA TypedRec ==
  ASSUME Typed, RecSteps
  PROVE  Typed'
  <1>1. UNCHANGED <<env, log, queue, seen, latest, work, resends>>
    BY DEF RecSteps, DropIndex, SelectOrders, SelectUsers, SelectFails, RebuildIndex, EnterOrder,
           RebuildView, SelectCopies, RebuildCopy, EndRun, KillReconciler, projector, bounds
  <1>2. QueueType' /\ WorkType'
    BY <1>1 DEF Typed, QueueType, WorkType
  <1>3. losses \in Nat /\ lagged' \subseteq Orders
    <2>1. lagged \subseteq Orders
      BY DEF Typed, TypeOK
    <2>2. lagged' = lagged \/ RebuildView
      BY DEF RecSteps, DropIndex, SelectOrders, SelectUsers, SelectFails, RebuildIndex, EnterOrder,
             SelectCopies, RebuildCopy, EndRun, KillReconciler, caches
    <2>3. RebuildView => lagged' \subseteq lagged
      BY DEF RebuildView
    <2> QED
      BY <2>1, <2>2, <2>3 DEF Typed, CountType
  <1>4. \A n \in DOMAIN log : n \in 1..MaxCommits /\ log[n].key \in Keys /\ log[n].user \in Users
    BY LogEntries
  <1>5. \A k : row(k) # 0 => row(k) \in DOMAIN log /\ log[row(k)].key = k
    BY RowTypes
  <1>6. CASE DropIndex
    <2>1. PICK r \in Store([u \in Users |-> {}], ridx) : ridx' = r[1] /\ losses' = r[2]
      BY <1>6 DEF DropIndex
    <2>2. \/ r[1] = [u \in Users |-> {}] /\ r[2] = losses
          \/ r[1] = ridx /\ r[2] = losses + 1
      BY Outcome
    <2>3. IsFiniteSet({}) /\ Cardinality({}) = 0
      BY FS_EmptySet
    <2>4. /\ ridx' \in [Users -> SUBSET Orders]
          /\ \A u \in Users : Cardinality(ridx'[u]) <= MaxDependents /\ IsFiniteSet(ridx'[u])
      <3>1. CASE ridx' = ridx
        BY <3>1 DEF Typed, TypeOK, CountType
      <3>2. CASE ridx' = [u \in Users |-> {}]
        BY <2>3, <3>2, ReadModelConstants
      <3> QED
        BY <2>1, <2>2, <3>1, <3>2
    <2>5. UNCHANGED <<view, copy>> /\ rec'.pc = "orders"
      BY <1>6 DEF DropIndex
    <2>6. TypeOK' /\ CountType'
      BY <1>1, <1>3, <2>1, <2>2, <2>4, <2>5 DEF Typed, TypeOK, CountType
    <2>7. RecType'
      BY <2>5 DEF RecType
    <2> QED
      BY <1>2, <2>6, <2>7 DEF Typed
  <1>7. CASE SelectOrders \/ SelectUsers \/ SelectCopies \/ SelectFails
    <2>1. UNCHANGED <<view, copy, ridx>>
      BY <1>7 DEF SelectOrders, SelectUsers, SelectCopies, SelectFails, caches
    <2>2. ASSUME NEW keys, NEW r \in Selection(keys)
          PROVE  /\ r[2] \in Nat
                 /\ \A n \in r[1] : n \in DOMAIN log /\ log[n].key \in keys
      BY <1>3, <1>5, <2>2, SelectionOutcome
    <2>3. RecType' /\ losses' \in Nat
      <3>1. CASE SelectOrders
        <4>1. PICK r \in Selection(Orders) :
                rec' = [pc |-> "users", mark |-> rec.mark, orders |-> r[1]] /\ losses' = r[2]
          BY <3>1 DEF SelectOrders
        <4>2. rec'.pc = "users" /\ rec'.orders = r[1]
          BY <4>1
        <4> QED
          BY <1>1, <2>2, <4>1, <4>2 DEF RecType, Idle
      <3>2. CASE SelectUsers
        <4>1. PICK r \in Selection(Users) :
                /\ rec' = [pc |-> "index", mark |-> rec.mark, orders |-> rec.orders, users |-> r[1]]
                /\ losses' = r[2]
          BY <3>2 DEF SelectUsers
        <4>2. rec'.pc = "index" /\ rec'.orders = rec.orders /\ rec'.users = r[1]
          BY <4>1
        <4>3. \A n \in rec.orders : n \in DOMAIN log /\ log[n].key \in Orders
          BY <3>2 DEF Typed, RecType, SelectUsers
        <4> QED
          BY <1>1, <2>2, <4>1, <4>2, <4>3 DEF RecType, Idle
      <3>3. CASE SelectCopies
        <4>1. PICK r \in Selection(Users) :
                rec' = [pc |-> "copies", mark |-> rec.mark, users |-> r[1]] /\ losses' = r[2]
          BY <3>3 DEF SelectCopies
        <4>2. rec'.pc = "copies" /\ rec'.users = r[1]
          BY <4>1
        <4> QED
          BY <1>1, <2>2, <4>1, <4>2 DEF RecType, Idle
      <3>4. CASE SelectFails
        <4>1. /\ rec'.pc = "index" /\ rec'.orders = {} /\ rec'.users = {}
              /\ losses' = losses + 1
          BY <3>4 DEF SelectFails
        <4> QED
          BY <1>3, <4>1 DEF RecType, Idle
      <3> QED
        BY <1>7, <3>1, <3>2, <3>3, <3>4
    <2>4. TypeOK' /\ CountType'
      BY <1>1, <1>3, <2>1, <2>3 DEF Typed, TypeOK, CountType
    <2> QED
      BY <1>2, <2>3, <2>4 DEF Typed
  <1>8. ASSUME NEW n \in 1..MaxCommits, RebuildIndex(n) PROVE Typed'
    <2>1. /\ n \in DOMAIN log /\ log[n].key \in Orders /\ log[n].user \in Users
          /\ \A m \in rec.users : m \in DOMAIN log /\ log[m].key \in Users
          /\ \A m \in rec.orders : m \in DOMAIN log /\ log[m].key \in Orders
      BY <1>4, <1>8 DEF Typed, RecType, RebuildIndex
    <2>2. PICK r \in Store(ridx[log[n].user], {}) :
            /\ rec' = [pc |-> IF log[n].key \in r[1] \/ Cardinality(r[1]) >= MaxDependents
                                THEN "view" ELSE "enter",
                       mark |-> rec.mark, orders |-> rec.orders \ {n}, users |-> rec.users,
                       n |-> n, targets |-> r[1]]
            /\ losses' = r[2]
      BY <1>8 DEF RebuildIndex, reference
    <2>3. \/ r[1] = ridx[log[n].user] /\ r[2] = losses
          \/ r[1] = {} /\ r[2] = losses + 1
      BY Outcome
    <2>4. r[1] \subseteq Orders /\ IsFiniteSet(r[1]) /\ Cardinality(r[1]) \in Nat
      <3>1. IsFiniteSet({})
        BY FS_EmptySet
      <3>2. r[1] \subseteq Orders /\ IsFiniteSet(r[1])
        BY <2>1, <2>3, <3>1 DEF Typed, TypeOK, CountType
      <3> QED
        BY <3>2, FS_CardinalityType
    <2>5. UNCHANGED <<view, copy, ridx>>
      BY <1>8 DEF RebuildIndex, caches
    <2>6. TypeOK' /\ CountType'
      BY <1>1, <1>3, <2>2, <2>3, <2>5 DEF Typed, TypeOK, CountType
    <2>7. RecType'
      <3>1. /\ rec'.orders = rec.orders \ {n} /\ rec'.users = rec.users /\ rec'.n = n
            /\ rec'.targets = r[1]
            /\ rec'.pc = "view" \/ (rec'.pc = "enter" /\ ~ (Cardinality(r[1]) >= MaxDependents))
        BY <2>2
      <3> QED
        BY <1>1, <2>1, <2>4, <3>1, ReadModelConstants DEF RecType
    <2> QED
      BY <1>2, <2>6, <2>7 DEF Typed
  <1>12. CASE EnterOrder
    <2>1. /\ rec.n \in DOMAIN log /\ log[rec.n].key \in Orders /\ log[rec.n].user \in Users
          /\ \A m \in rec.users : m \in DOMAIN log /\ log[m].key \in Users
          /\ \A m \in rec.orders : m \in DOMAIN log /\ log[m].key \in Orders
          /\ rec.targets \subseteq Orders /\ IsFiniteSet(rec.targets)
          /\ Cardinality(rec.targets) < MaxDependents
      BY <1>4, <1>12 DEF Typed, RecType, EnterOrder
    <2> DEFINE k == log[rec.n].key
               u == log[rec.n].user
    <2>2. PICK r \in Store(rec.targets \cup {k}, ridx[u]) :
            ridx' = [ridx EXCEPT ![u] = r[1]] /\ losses' = r[2]
      BY <1>12 DEF EnterOrder, reference
    <2>3. \/ r[1] = rec.targets \cup {k} /\ r[2] = losses
          \/ r[1] = ridx[u] /\ r[2] = losses + 1
      <3> HIDE DEF k, u
      <3> QED
        BY Outcome
    <2>4. IsFiniteSet(rec.targets \cup {k}) /\ Cardinality(rec.targets \cup {k}) <= MaxDependents
      <3>1. /\ IsFiniteSet(rec.targets \cup {k})
            /\ Cardinality(rec.targets \cup {k}) =
                 IF k \in rec.targets THEN Cardinality(rec.targets) ELSE Cardinality(rec.targets) + 1
        BY <2>1, FS_AddElement, Zenon
      <3>2. Cardinality(rec.targets) \in Nat
        BY <2>1, FS_CardinalityType
      <3> QED
        BY <2>1, <3>1, <3>2, ReadModelConstants
    <2>5. r[1] \subseteq Orders /\ IsFiniteSet(r[1]) /\ Cardinality(r[1]) <= MaxDependents
      BY <2>1, <2>3, <2>4 DEF Typed, TypeOK, CountType
    <2>6. /\ ridx' \in [Users -> SUBSET Orders]
          /\ \A v \in Users : Cardinality(ridx'[v]) <= MaxDependents /\ IsFiniteSet(ridx'[v])
      <3> HIDE DEF k
      <3> QED
        BY <2>1, <2>2, <2>5 DEF Typed, TypeOK, CountType
    <2>7. /\ UNCHANGED <<view, copy>>
          /\ rec' = [pc |-> "view", mark |-> rec.mark, orders |-> rec.orders, users |-> rec.users,
                     n |-> rec.n]
      BY <1>12 DEF EnterOrder
    <2>8. TypeOK' /\ CountType'
      <3> HIDE DEF k, u
      <3> QED
        BY <1>1, <1>3, <2>2, <2>3, <2>6, <2>7 DEF Typed, TypeOK, CountType
    <2>9. RecType'
      <3>1. /\ rec'.pc = "view" /\ rec'.orders = rec.orders /\ rec'.users = rec.users
            /\ rec'.n = rec.n
        BY <2>7
      <3> QED
        BY <1>1, <2>1, <3>1 DEF RecType
    <2> QED
      BY <1>2, <2>8, <2>9 DEF Typed
  <1>9. CASE RebuildView
    <2>1. /\ rec.n \in DOMAIN log /\ log[rec.n].key \in Orders
          /\ \A m \in rec.users : m \in DOMAIN log /\ log[m].key \in Users
          /\ \A m \in rec.orders : m \in DOMAIN log /\ log[m].key \in Orders
      BY <1>9 DEF Typed, RecType, RebuildView
    <2> DEFINE o == log[rec.n].key
               u == {m \in rec.users : log[m].key = reference(rec.n)}
               new == [order |-> rec.n, user |-> IF u = {} THEN 0 ELSE CHOOSE m \in u : TRUE]
    <2>2. PICK r \in Store(new, view[o]) : view' = [view EXCEPT ![o] = r[1]] /\ losses' = r[2]
      BY <1>9 DEF RebuildView
    <2>3. new \in [order : 0..MaxCommits, user : 0..MaxCommits]
      <3>1. u # {} => (CHOOSE m \in u : TRUE) \in u
        OBVIOUS
      <3>2. \A m \in u : m \in 1..MaxCommits
        BY <1>4, <2>1
      <3>3. (IF u = {} THEN 0 ELSE CHOOSE m \in u : TRUE) \in 0..MaxCommits
        <4> HIDE DEF u
        <4> QED
          BY <3>1, <3>2, ReadModelConstants
      <3>4. rec.n \in 0..MaxCommits
        BY <1>4, <2>1
      <3> QED
        BY <3>3, <3>4
    <2> HIDE DEF new
    <2>4. \/ r[1] = new /\ r[2] = losses
          \/ r[1] = view[o] /\ r[2] = losses + 1
      <3> HIDE DEF o
      <3> QED
        BY Outcome
    <2>5. view' \in [Orders -> [order : 0..MaxCommits, user : 0..MaxCommits]]
      BY <2>1, <2>2, <2>3, <2>4 DEF Typed, TypeOK
    <2>6. /\ UNCHANGED <<ridx, copy>>
          /\ rec' = [pc |-> "index", mark |-> rec.mark, orders |-> rec.orders, users |-> rec.users]
      BY <1>9 DEF RebuildView
    <2>7. TypeOK' /\ CountType'
      BY <1>1, <1>3, <2>2, <2>4, <2>5, <2>6, SMTT(60) DEF Typed, TypeOK, CountType
    <2>8. RecType'
      BY <1>1, <2>1, <2>6 DEF RecType
    <2> QED
      BY <1>2, <2>7, <2>8 DEF Typed
  <1>10. ASSUME NEW n \in 1..MaxCommits, RebuildCopy(n) PROVE Typed'
    <2>1. \A m \in rec.users : m \in DOMAIN log /\ log[m].key \in Users
      BY <1>10 DEF Typed, RecType, RebuildCopy
    <2>2. /\ n \in rec.users /\ UNCHANGED <<view, ridx>>
          /\ rec' = [pc |-> "copies", mark |-> rec.mark, users |-> rec.users \ {n}]
      BY <1>10 DEF RebuildCopy
    <2>3. PICK r \in Store(n, copy[log[n].key]) :
            copy' = [copy EXCEPT ![log[n].key] = r[1]] /\ losses' = r[2]
      BY <1>10 DEF RebuildCopy
    <2>4. \/ r[1] = n /\ r[2] = losses
          \/ r[1] = copy[log[n].key] /\ r[2] = losses + 1
      BY Outcome
    <2>5. copy' \in [Users -> 0..MaxCommits]
      BY <2>1, <2>2, <2>3, <2>4 DEF Typed, TypeOK
    <2>6. TypeOK' /\ CountType'
      BY <1>1, <1>3, <2>2, <2>3, <2>4, <2>5 DEF Typed, TypeOK, CountType
    <2>7. RecType'
      BY <1>1, <2>1, <2>2 DEF RecType, Idle
    <2> QED
      BY <1>2, <2>6, <2>7 DEF Typed
  <1>13. CASE EndRun
    <2>1. UNCHANGED <<view, ridx, copy, losses>> /\ rec' = Idle
      BY <1>13 DEF EndRun, caches, bounds
    <2>2. TypeOK' /\ CountType'
      BY <1>1, <1>3, <2>1 DEF Typed, TypeOK, CountType
    <2>3. RecType'
      BY <2>1 DEF RecType, Idle
    <2> QED
      BY <1>2, <2>2, <2>3 DEF Typed
  <1>11. CASE KillReconciler
    <2>1. UNCHANGED <<view, ridx, copy>> /\ rec' = Idle /\ losses' = losses + 1
      BY <1>11 DEF KillReconciler, caches
    <2>2. TypeOK' /\ CountType'
      BY <1>1, <1>3, <2>1 DEF Typed, TypeOK, CountType
    <2>3. RecType'
      BY <2>1 DEF RecType, Idle
    <2> QED
      BY <1>2, <2>2, <2>3 DEF Typed
  <1> QED
    BY <1>6, <1>7, <1>8, <1>9, <1>10, <1>11, <1>12, <1>13 DEF RecSteps

\* The steps of the system, by who takes them.
LEMMA NextCases ==
  ASSUME [Next]_vars
  PROVE  \/ \E c \in Changes : Commit(c)
         \/ \E n \in 1..MaxCommits : Resend(n)
         \/ \E s \in Stores : SkipStale(s) \/ SkipDuplicate(s) \/ Take(s)
         \/ Lookup \/ Project \/ ReadDependents \/ Register
         \/ ReadTargets \/ RewriteTarget \/ Materialize
         \/ \E o \in Orders : ReadTarget(o)
         \/ LoseSession \/ CrashProjector
         \/ RecSteps
         \/ UNCHANGED vars
  BY DEF Next, RecSteps

\* Every step keeps the types.
LEMMA TypedStep ==
  ASSUME Typed, [Next]_vars
  PROVE  Typed'
  <1>1. ASSUME UNCHANGED vars PROVE Typed'
    BY <1>1 DEF vars, Typed, TypeOK, WorkType, RecType, QueueType, CountType
  <1>2. ASSUME NEW c \in Changes, Commit(c) PROVE Typed'
    BY <1>2, TypedCommit
  <1>3. ASSUME NEW s \in Stores, SkipStale(s) \/ SkipDuplicate(s) \/ Take(s) PROVE Typed'
    BY <1>3, TypedReceive
  <1>4. ASSUME NEW n \in 1..MaxCommits, Resend(n) PROVE Typed'
    BY <1>4, TypedResend
  <1>5. CASE Lookup \/ Project \/ ReadDependents \/ Register
    BY <1>5, TypedOrderWork
  <1>6. CASE ReadTargets \/ RewriteTarget \/ Materialize \/ \E o \in Orders : ReadTarget(o)
    BY <1>6, TypedUserWork
  <1>7. CASE LoseSession \/ CrashProjector
    BY <1>7, TypedLosses
  <1>8. CASE RecSteps
    BY <1>8, TypedRec
  <1> QED
    BY <1>1, <1>2, <1>3, <1>4, <1>5, <1>6, <1>7, <1>8, NextCases, Zenon

\* Index lists keep to MAX_DEPENDENTS, remembered event ids to the dedup capacity,
\* and everything else to its type, whatever is lost and however the reconciler and
\* the projector interleave (crates/ixmati-projector, crates/ixmati-reconciler).
THEOREM ReadModelTypes == Spec => []TypeOK
  <1>1. Init => Typed
    BY TypedInit
  <1>2. Typed /\ [Next]_vars => Typed'
    BY TypedStep
  <1>3. Typed => TypeOK
    BY DEF Typed
  <1> QED
    BY <1>1, <1>2, <1>3, PTL DEF Spec

-----------------------------------------------------------------------------
(* The reconciler *)

\* A mark that equals the present one once the present has moved on does not exist.
LEMMA PastMark ==
  ASSUME Typed, Typed', NEW m, IsMark(m),
         Len(log') >= Len(log), resends' >= resends, losses' >= losses
  PROVE  IsMark(m)' /\ (m = mark' => mark' = mark)
  <1>1. Len(log) \in Nat /\ resends \in Nat /\ losses \in Nat
    BY DEF Typed, TypeOK, CountType
  <1>2. Len(log') \in Nat /\ resends' \in Nat /\ losses' \in Nat
    BY DEF Typed, TypeOK, CountType
  <1>3. CASE m = <<>>
    BY <1>3 DEF IsMark, mark
  <1>4. CASE m # <<>>
    <2>1. PICK a \in Nat, b \in Nat, c \in Nat :
            m = <<a, b, c>> /\ a <= Len(log) /\ b <= resends /\ c <= losses
      BY <1>4 DEF IsMark
    <2>2. a <= Len(log') /\ b <= resends' /\ c <= losses'
      BY <1>1, <1>2, <2>1
    <2>3. IsMark(m)'
      BY <2>1, <2>2 DEF IsMark
    <2>4. ASSUME m = mark' PROVE mark' = mark
      <3>1. a = Len(log') /\ b = resends' /\ c = losses'
        BY <2>1, <2>4 DEF mark
      <3>2. Len(log') = Len(log) /\ resends' = resends /\ losses' = losses
        BY <1>1, <1>2, <2>1, <3>1
      <3> QED
        BY <3>2 DEF mark
    <2> QED
      BY <2>3, <2>4
  <1> QED
    BY <1>3, <1>4

\* The present mark is one.
LEMMA PresentMark ==
  ASSUME Typed
  PROVE  IsMark(mark) /\ mark # <<>>
  <1>1. Len(log) \in Nat /\ resends \in Nat /\ losses \in Nat
    BY DEF Typed, TypeOK, CountType
  <1>2. IsMark(mark)
    BY <1>1 DEF IsMark, mark
  <1>3. mark # <<>>
    BY DEF mark
  <1> QED
    BY <1>2, <1>3

\* A step of the system never turns back what marks compare.
LEMMA MarkGrows ==
  ASSUME Typed, [Next]_vars
  PROVE  /\ Len(log') >= Len(log) /\ resends' >= resends /\ losses' >= losses
         /\ (\E c \in Changes : Commit(c)) => Len(log') = Len(log) + 1
         /\ (\E n \in 1..MaxCommits : Resend(n)) => resends' = resends + 1
         /\ LoseSession \/ CrashProjector \/ SelectFails \/ KillReconciler => losses' = losses + 1
         /\ losses' = losses \/ losses' = losses + 1
  <1>1. Len(log) \in Nat /\ resends \in Nat /\ losses \in Nat /\ log \in Seq(Changes)
    BY DEF Typed, TypeOK, CountType
  <1>2. ASSUME NEW c \in Changes, Commit(c)
        PROVE  Len(log') = Len(log) + 1 /\ resends' = resends /\ losses' = losses
    BY <1>1, <1>2, LogAppend DEF Commit, bounds
  <1>3. ASSUME NEW n \in 1..MaxCommits, Resend(n)
        PROVE  resends' = resends + 1 /\ log' = log /\ losses' = losses
    BY <1>3 DEF Resend
  <1>4. ASSUME LoseSession \/ CrashProjector \/ SelectFails \/ KillReconciler
        PROVE  losses' = losses + 1 /\ log' = log /\ resends' = resends
    BY <1>4 DEF LoseSession, CrashProjector, SelectFails, KillReconciler
  <1>6. ASSUME NEW s \in Stores, SkipStale(s) \/ SkipDuplicate(s) \/ Take(s)
        PROVE  UNCHANGED <<log, resends, losses>>
    BY <1>6 DEF SkipStale, SkipDuplicate, Take, bounds
  <1>7. ASSUME UNCHANGED vars PROVE UNCHANGED <<log, resends, losses>>
    BY <1>7 DEF vars
  <1>8. ASSUME NEW new, NEW old, \E r \in Store(new, old) : losses' = r[2]
        PROVE  losses' = losses \/ losses' = losses + 1
    BY <1>8, Outcome
  <1> DEFINE Asked == (losses' = losses \/ losses' = losses + 1) /\ log' = log /\ resends' = resends
  <1>9. ASSUME Lookup PROVE Asked
    BY <1>9 DEF Lookup, bounds
  <1>10. ASSUME Project PROVE Asked
    BY <1>8, <1>10 DEF Project
  <1>11. ASSUME ReadDependents PROVE Asked
    BY <1>8, <1>11 DEF ReadDependents
  <1>12. ASSUME Register PROVE Asked
    BY <1>8, <1>12 DEF Register
  <1>13. ASSUME ReadTargets PROVE Asked
    BY <1>8, <1>13 DEF ReadTargets
  <1>14. ASSUME RewriteTarget PROVE Asked
    BY <1>8, <1>14 DEF RewriteTarget
  <1>15. ASSUME Materialize PROVE Asked
    BY <1>8, <1>15 DEF Materialize
  <1>16. ASSUME NEW o \in Orders, ReadTarget(o) PROVE Asked
    BY <1>16 DEF ReadTarget, bounds
  <1>17. ASSUME DropIndex PROVE Asked
    BY <1>8, <1>17 DEF DropIndex
  <1>18. ASSUME NEW n \in 1..MaxCommits, RebuildIndex(n) PROVE Asked
    BY <1>8, <1>18 DEF RebuildIndex
  <1>19. ASSUME RebuildView PROVE Asked
    BY <1>8, <1>19 DEF RebuildView
  <1>20. ASSUME NEW n \in 1..MaxCommits, RebuildCopy(n) PROVE Asked
    BY <1>8, <1>20 DEF RebuildCopy
  <1>21. ASSUME SelectOrders \/ SelectUsers \/ SelectCopies PROVE Asked
    <2>1. ASSUME NEW keys, \E r \in Selection(keys) : losses' = r[2]
          PROVE  losses' = losses \/ losses' = losses + 1
      BY <2>1, SelectionOutcome
    <2>2. \E keys : \E r \in Selection(keys) : losses' = r[2]
      BY <1>21 DEF SelectOrders, SelectUsers, SelectCopies
    <2> QED
      BY <1>21, <2>1, <2>2 DEF SelectOrders, SelectUsers, SelectCopies
  <1>5. ASSUME EnterOrder PROVE Asked
    BY <1>5, <1>8 DEF EnterOrder
  <1>24. ASSUME EndRun PROVE Asked
    BY <1>24 DEF EndRun, bounds
  <1>22. ASSUME RecSteps PROVE Asked
    <2> HIDE DEF Asked
    <2>1. ASSUME SelectFails \/ KillReconciler PROVE Asked
      BY <1>4, <2>1 DEF Asked
    <2> QED
      BY <1>5, <1>17, <1>18, <1>19, <1>20, <1>21, <1>22, <1>24, <2>1 DEF RecSteps
  <1>23. Asked \/ (\E c \in Changes : Commit(c)) \/ (\E n \in 1..MaxCommits : Resend(n))
    BY <1>4, <1>6, <1>7, <1>9, <1>10, <1>11, <1>12, <1>13, <1>14, <1>15, <1>16, <1>22, NextCases
  <1> QED
    BY <1>1, <1>2, <1>3, <1>4, <1>23

\* Where marks come from.
LEMMA MarkSources ==
  ASSUME Typed, [Next]_vars
  PROVE  /\ \/ repaired' = repaired
            \/ rec # Idle /\ rec' = Idle /\ repaired' = rec.mark /\ EndRun
         /\ \/ rec' = rec
            \/ rec' = Idle
            \/ rec # Idle /\ rec' # Idle /\ rec'.mark = rec.mark
            \/ DropIndex /\ rec = Idle /\ rec' # Idle /\ rec'.mark = IF Quiet THEN mark ELSE <<>>
  <1>1. ASSUME NEW c \in Changes, Commit(c) PROVE UNCHANGED <<rec, repaired>>
    BY <1>1, SMTT(60) DEF Commit
  <1>2. ASSUME \/ \E n \in 1..MaxCommits : Resend(n)
               \/ \E s \in Stores : SkipStale(s) \/ SkipDuplicate(s) \/ Take(s)
        PROVE  UNCHANGED <<rec, repaired>>
    BY <1>2 DEF Resend, SkipStale, SkipDuplicate, Take
  <1>3. ASSUME Lookup \/ Project \/ ReadDependents \/ Register PROVE UNCHANGED <<rec, repaired>>
    BY <1>3 DEF Lookup, Project, ReadDependents, Register
  <1>4. ASSUME ReadTargets \/ RewriteTarget \/ Materialize \/ \E o \in Orders : ReadTarget(o)
        PROVE  UNCHANGED <<rec, repaired>>
    BY <1>4 DEF ReadTargets, RewriteTarget, Materialize, ReadTarget
  <1>5. ASSUME LoseSession \/ CrashProjector PROVE UNCHANGED <<rec, repaired>>
    BY <1>5 DEF LoseSession, CrashProjector
  <1>6. ASSUME UNCHANGED vars PROVE UNCHANGED <<rec, repaired>>
    BY <1>6 DEF vars
  <1>7. ASSUME DropIndex
        PROVE  /\ repaired' = repaired /\ rec = Idle /\ rec' # Idle
               /\ rec'.mark = IF Quiet THEN mark ELSE <<>>
    <2>1. rec = Idle
      BY <1>7 DEF Typed, RecType, DropIndex
    <2>2. rec' = [pc |-> "orders", mark |-> IF Quiet THEN mark ELSE <<>>] /\ repaired' = repaired
      BY <1>7 DEF DropIndex
    <2>3. rec'.pc # Idle.pc
      BY <2>2 DEF Idle
    <2> QED
      BY <2>1, <2>2, <2>3
  <1>8. ASSUME \/ SelectOrders \/ SelectUsers \/ SelectFails \/ EnterOrder \/ RebuildView \/ SelectCopies
               \/ \E n \in 1..MaxCommits : RebuildIndex(n) \/ RebuildCopy(n)
        PROVE  repaired' = repaired /\ rec # Idle /\ rec' # Idle /\ rec'.mark = rec.mark
    <2> DEFINE Goes == /\ repaired' = repaired /\ rec'.mark = rec.mark
                       /\ rec.pc # "idle" /\ rec'.pc # "idle"
    <2>1. ASSUME SelectOrders \/ SelectCopies PROVE Goes
      BY <2>1 DEF SelectOrders, SelectCopies
    <2>2. ASSUME SelectUsers \/ SelectFails PROVE Goes
      BY <2>2 DEF SelectUsers, SelectFails
    <2>3. ASSUME RebuildView \/ EnterOrder PROVE Goes
      BY <2>3 DEF RebuildView, EnterOrder
    <2>4. ASSUME NEW n \in 1..MaxCommits, RebuildIndex(n) PROVE Goes
      BY <2>4 DEF RebuildIndex
    <2>6. ASSUME NEW n \in 1..MaxCommits, RebuildCopy(n) PROVE Goes
      BY <2>6 DEF RebuildCopy
    <2>5. Goes
      <3> HIDE DEF Goes
      <3> QED
        BY <1>8, <2>1, <2>2, <2>3, <2>4, <2>6
    <2> QED
      BY <2>5 DEF Idle
  <1>9. ASSUME EndRun PROVE rec # Idle /\ rec' = Idle /\ repaired' = rec.mark
    BY <1>9 DEF EndRun, Idle
  <1>10. ASSUME KillReconciler PROVE rec' = Idle /\ repaired' = repaired
    BY <1>10 DEF KillReconciler
  <1>11. CASE RecSteps
    BY <1>7, <1>8, <1>9, <1>10, <1>11 DEF RecSteps
  <1>12. RecSteps \/ UNCHANGED <<rec, repaired>>
    BY <1>1, <1>2, <1>3, <1>4, <1>5, <1>6, NextCases
  <1> QED
    BY <1>11, <1>12

\* Marks stay marks.
LEMMA MarksStep ==
  ASSUME Typed, Marks, [Next]_vars
  PROVE  /\ Marks'
         /\ repaired' = mark' => mark' = mark
         /\ rec' # Idle /\ rec'.mark = mark' => mark' = mark
  <1>1. Typed'
    BY TypedStep
  <1>2. Len(log') >= Len(log) /\ resends' >= resends /\ losses' >= losses
    BY MarkGrows
  <1>3. ASSUME NEW m, IsMark(m) PROVE IsMark(m)' /\ (m = mark' => mark' = mark)
    BY <1>1, <1>2, <1>3, PastMark
  <1>4. IsMark(mark) /\ IsMark(<<>>)
    BY PresentMark DEF IsMark
  <1>5. IsMark(repaired')
    BY MarkSources DEF Marks
  <1>6. rec' # Idle => IsMark(rec'.mark)
    BY <1>4, MarkSources DEF Marks
  <1>7. \E m : m = repaired' /\ IsMark(m)
    BY <1>5
  <1>8. IsMark(repaired)' /\ (repaired' = mark' => mark' = mark)
    <2>1. PICK m : m = repaired' /\ IsMark(m)
      BY <1>7
    <2>2. IsMark(m)' /\ (m = mark' => mark' = mark)
      BY <1>3, <2>1
    <2> QED
      BY <2>1, <2>2 DEF IsMark
  <1>9. rec' # Idle => IsMark(rec.mark)' /\ (rec'.mark = mark' => mark' = mark)
    <2> SUFFICES ASSUME rec' # Idle PROVE IsMark(rec.mark)' /\ (rec'.mark = mark' => mark' = mark)
      OBVIOUS
    <2>1. PICK m : m = rec'.mark /\ IsMark(m)
      BY <1>6
    <2>2. IsMark(m)' /\ (m = mark' => mark' = mark)
      BY <1>3, <2>1
    <2> QED
      BY <2>1, <2>2 DEF IsMark
  <1> QED
    BY <1>8, <1>9 DEF Marks, Idle

\* The facts a step of a run uses of the log.
LEMMA LiveFacts ==
  ASSUME Typed
  PROVE  /\ \A o : RowIn(log, o) # 0 => log[RowIn(log, o)].key = o /\ log[RowIn(log, o)].user \in Users
         /\ \A n \in Live(log, Orders) : n # 0 /\ log[n].key \in Orders /\ n = RowIn(log, log[n].key)
         /\ \A n \in Live(log, Users) : n # 0 /\ log[n].key \in Users /\ n = RowIn(log, log[n].key)
  <1>1. \A k : RowIn(log, k) # 0 => RowIn(log, k) \in DOMAIN log /\ log[RowIn(log, k)].key = k
    BY RowTypes
  <1>2. \A n \in DOMAIN log : log[n].user \in Users
    BY LogEntries
  <1> QED
    BY <1>1, <1>2 DEF Live

\* A run that begins while nothing else happens has an empty index.
LEMMA RunBegins ==
  ASSUME Typed, DropIndex, losses' = losses
  PROVE  RunFacts'
  <1>1. PICK r \in Store([u \in Users |-> {}], ridx) : ridx' = r[1] /\ losses' = r[2]
    BY DEF DropIndex
  <1>2. losses \in Nat
    BY DEF Typed, CountType
  <1>3. r[1] = [u \in Users |-> {}]
    BY <1>1, <1>2, Outcome
  <1>4. rec'.pc = "orders"
    BY DEF DropIndex
  <1> QED
    BY <1>1, <1>3, <1>4 DEF RunFacts

\* Selecting the rows of the stores.
LEMMA RunSelects ==
  ASSUME Typed, RunFacts, SelectOrders \/ SelectUsers \/ SelectCopies, losses' = losses
  PROVE  RunFacts'
  <1>1. UNCHANGED <<log, view, copy, ridx>>
    BY DEF SelectOrders, SelectUsers, SelectCopies, caches
  <1>2. \A k : row(k) = RowIn(log, k)
    BY LogNames
  <1>3. ASSUME NEW keys, NEW r \in Selection(keys), r[2] = losses PROVE r[1] = Live(log, keys)
    <2>1. losses \in Nat
      BY DEF Typed, CountType
    <2>2. r[1] = {row(k) : k \in keys} \ {0}
      BY <1>3, <2>1, SelectionOutcome
    <2> QED
      BY <1>2, <2>2 DEF Live
  <1>4. CASE SelectOrders
    <2>1. PICK r \in Selection(Orders) :
            rec' = [pc |-> "users", mark |-> rec.mark, orders |-> r[1]] /\ losses' = r[2]
      BY <1>4 DEF SelectOrders
    <2>2. rec.pc = "orders" /\ rec'.pc = "users" /\ rec'.orders = Live(log, Orders)
      BY <1>3, <1>4, <2>1 DEF SelectOrders
    <2> QED
      BY <1>1, <2>2 DEF RunFacts
  <1>5. CASE SelectUsers
    <2>1. PICK r \in Selection(Users) :
            /\ rec' = [pc |-> "index", mark |-> rec.mark, orders |-> rec.orders, users |-> r[1]]
            /\ losses' = r[2]
      BY <1>5 DEF SelectUsers
    <2>2. /\ rec.pc = "users" /\ rec'.pc = "index" /\ rec'.orders = rec.orders
          /\ rec'.users = Live(log, Users)
      BY <1>3, <1>5, <2>1 DEF SelectUsers
    <2>3. rec.orders = Live(log, Orders) /\ \A u \in Users : ridx[u] = {}
      BY <2>2 DEF RunFacts
    <2>4. \A o \in Orders : RowIn(log, o) # 0 => RowIn(log, o) \in rec.orders
      BY <2>3 DEF Live
    <2>5. IndexHolds(log, rec.orders, ridx)
      BY <2>3, <2>4 DEF IndexHolds, Indexed
    <2> QED
      BY <1>1, <2>2, <2>3, <2>4, <2>5 DEF RunFacts
  <1>6. CASE SelectCopies
    <2>1. PICK r \in Selection(Users) :
            rec' = [pc |-> "copies", mark |-> rec.mark, users |-> r[1]] /\ losses' = r[2]
      BY <1>6 DEF SelectCopies
    <2>2. rec.pc = "index" /\ rec.orders = {} /\ rec'.pc = "copies" /\ rec'.users = Live(log, Users)
      BY <1>3, <1>6, <2>1 DEF SelectCopies
    <2>3. /\ IndexHolds(log, {}, ridx)
          /\ \A o \in Orders : RowIn(log, o) # 0 => view[o] = JoinIn(log, o)
      BY <2>2 DEF RunFacts
    <2>4. \A u \in Users : RowIn(log, u) # 0 => RowIn(log, u) \in Live(log, Users)
      BY DEF Live
    <2> QED
      BY <1>1, <2>2, <2>3, <2>4 DEF RunFacts
  <1> QED
    BY <1>4, <1>5, <1>6

\* The orders of a user that a run has indexed, after one more.
LEMMA IndexedMore ==
  ASSUME Typed, NEW left, NEW n \in Live(log, Orders), n \in left, NEW u
  PROVE  Indexed(log, left \ {n}, u) =
           IF log[n].user = u THEN Indexed(log, left, u) \cup {log[n].key} ELSE Indexed(log, left, u)
  <1>1. n # 0 /\ log[n].key \in Orders /\ n = RowIn(log, log[n].key)
    BY LiveFacts
  <1>2. \A o \in Orders : RowIn(log, o) = n => o = log[n].key
    BY <1>1, LiveFacts
  <1> QED
    BY <1>1, <1>2 DEF Indexed

\* The sizes of the index lists are numbers up to MAX_DEPENDENTS.
LEMMA IndexSizes ==
  ASSUME Typed
  PROVE  /\ ridx \in [Users -> SUBSET Orders] /\ MaxDependents \in Nat
         /\ \A v \in Users : /\ IsFiniteSet(ridx[v]) /\ Cardinality(ridx[v]) \in Nat
                             /\ Cardinality(ridx[v]) <= MaxDependents
  <1>1. \A v \in Users : IsFiniteSet(ridx[v])
    BY DEF Typed, CountType
  <1>2. \A v \in Users : Cardinality(ridx[v]) \in Nat
    BY <1>1, FS_CardinalityType
  <1> QED
    BY <1>1, <1>2, ReadModelConstants DEF Typed, TypeOK

\* The index list of one more order is read.
LEMMA RunIndexes ==
  ASSUME Typed, RunFacts, NEW n \in 1..MaxCommits, RebuildIndex(n), losses' = losses
  PROVE  RunFacts'
  <1> DEFINE u == log[n].user
             k == log[n].key
  <1>1. PICK r \in Store(ridx[u], {}) :
          /\ rec' = [pc |-> IF k \in r[1] \/ Cardinality(r[1]) >= MaxDependents THEN "view" ELSE "enter",
                     mark |-> rec.mark, orders |-> rec.orders \ {n}, users |-> rec.users,
                     n |-> n, targets |-> r[1]]
          /\ losses' = r[2]
    BY DEF RebuildIndex, reference
  <1>2. rec.pc = "index" /\ n \in rec.orders /\ UNCHANGED <<log, view, copy, ridx>>
    BY DEF RebuildIndex, caches
  <1>3. /\ rec.users = Live(log, Users) /\ rec.orders \subseteq Live(log, Orders)
        /\ IndexHolds(log, rec.orders, ridx)
        /\ \A o \in Orders :
             RowIn(log, o) # 0 /\ RowIn(log, o) \notin rec.orders => view[o] = JoinIn(log, o)
    BY <1>2 DEF RunFacts
  <1>4. n \in Live(log, Orders) /\ n # 0 /\ k \in Orders /\ n = RowIn(log, k) /\ u \in Users
    BY <1>2, <1>3, LiveFacts
  <1>5. r[1] = ridx[u]
    <2>1. losses \in Nat
      BY DEF Typed, CountType
    <2> HIDE DEF u, k
    <2> QED
      BY <1>1, <2>1, Outcome
  <1>6. /\ ridx \in [Users -> SUBSET Orders] /\ MaxDependents \in Nat
        /\ Cardinality(ridx[u]) \in Nat /\ Cardinality(ridx[u]) <= MaxDependents
    BY <1>4, IndexSizes
  <1>7. /\ rec'.orders = rec.orders \ {n} /\ rec'.users = rec.users /\ rec'.n = n
        /\ rec'.targets = ridx[u] /\ rec'.orders \subseteq Live(log, Orders)
        /\ \/ rec'.pc = "view" /\ (k \in ridx[u] \/ Cardinality(ridx[u]) = MaxDependents)
           \/ rec'.pc = "enter"
    <2> HIDE DEF u, k
    <2> QED
      BY <1>1, <1>3, <1>5, <1>6
  <1>8. \A o \in Orders :
          RowIn(log, o) # 0 /\ RowIn(log, o) \notin rec.orders \ {n} /\ n # RowIn(log, o)
            => view[o] = JoinIn(log, o)
    BY <1>3
  <1>9. CASE rec'.pc = "enter"
    <2>1. rec'.orders \cup {n} = rec.orders
      BY <1>2, <1>7
    <2>2. IndexHolds(log, rec'.orders \cup {rec'.n}, ridx)
      BY <1>3, <1>7, <2>1
    <2> HIDE DEF k
    <2> QED
      BY <1>2, <1>3, <1>4, <1>7, <1>8, <1>9, <2>2 DEF RunFacts
  <1>10. CASE rec'.pc = "view"
    <2>1. k \in ridx[u] \/ Cardinality(ridx[u]) = MaxDependents
      BY <1>7, <1>10
    <2>2. \A v : Indexed(log, rec.orders \ {n}, v) =
                  IF u = v THEN Indexed(log, rec.orders, v) \cup {k} ELSE Indexed(log, rec.orders, v)
      BY <1>2, <1>4, IndexedMore
    <2>3. IndexHolds(log, rec.orders \ {n}, ridx)
      <3> SUFFICES ASSUME NEW v \in Users
                   PROVE  /\ ridx[v] \subseteq Indexed(log, rec.orders \ {n}, v)
                          /\ \/ ridx[v] = Indexed(log, rec.orders \ {n}, v)
                             \/ Cardinality(ridx[v]) = MaxDependents
        BY DEF IndexHolds
      <3>1. /\ ridx[v] \subseteq Indexed(log, rec.orders, v)
            /\ ridx[v] = Indexed(log, rec.orders, v) \/ Cardinality(ridx[v]) = MaxDependents
        BY <1>3 DEF IndexHolds
      <3> HIDE DEF k, u
      <3>2. CASE v # u
        BY <2>2, <3>1, <3>2
      <3>3. CASE v = u
        <4>1. Indexed(log, rec.orders \ {n}, v) = Indexed(log, rec.orders, v) \cup {k}
          BY <2>2, <3>3
        <4> QED
          BY <2>1, <3>1, <3>3, <4>1
      <3> QED
        BY <3>2, <3>3
    <2> HIDE DEF u, k
    <2> QED
      BY <1>2, <1>3, <1>4, <1>7, <1>8, <1>10, <2>3 DEF RunFacts
  <1> QED
    BY <1>7, <1>9, <1>10

\* It is written with the order.
LEMMA RunEnters ==
  ASSUME Typed, RunFacts, EnterOrder, losses' = losses
  PROVE  RunFacts'
  <1> DEFINE n == rec.n
             u == log[n].user
             k == log[n].key
             left == rec.orders \cup {n}
  <1>1. /\ rec.pc = "enter" /\ UNCHANGED <<log, view, copy>>
        /\ rec' = [pc |-> "view", mark |-> rec.mark, orders |-> rec.orders, users |-> rec.users,
                   n |-> n]
    BY DEF EnterOrder
  <1>2. /\ rec.users = Live(log, Users) /\ rec.orders \subseteq Live(log, Orders)
        /\ n \in Live(log, Orders) /\ n \notin rec.orders
        /\ IndexHolds(log, left, ridx) /\ rec.targets = ridx[u]
        /\ \A o \in Orders :
             RowIn(log, o) # 0 /\ RowIn(log, o) \notin rec.orders /\ n # RowIn(log, o)
               => view[o] = JoinIn(log, o)
    BY <1>1 DEF RunFacts
  <1>3. n # 0 /\ k \in Orders /\ n = RowIn(log, k) /\ u \in Users
    BY <1>2, LiveFacts
  <1>4. Cardinality(rec.targets) < MaxDependents
    BY <1>1 DEF Typed, RecType
  <1>5. PICK r \in Store(rec.targets \cup {k}, ridx[u]) :
          ridx' = [ridx EXCEPT ![u] = r[1]] /\ losses' = r[2]
    BY DEF EnterOrder, reference
  <1>6. r[1] = rec.targets \cup {k}
    <2>1. losses \in Nat
      BY DEF Typed, CountType
    <2> HIDE DEF u, k
    <2> QED
      BY <1>5, <2>1, Outcome
  <1>7. /\ ridx \in [Users -> SUBSET Orders] /\ MaxDependents \in Nat
        /\ \A v \in Users : Cardinality(ridx[v]) \in Nat /\ Cardinality(ridx[v]) <= MaxDependents
    BY IndexSizes
  <1>8. \A v \in Users : ridx'[v] = IF v = u THEN ridx[u] \cup {k} ELSE ridx[v]
    <2> HIDE DEF u, k
    <2> QED
      BY <1>2, <1>3, <1>5, <1>6, <1>7
  <1>9. \A v : Indexed(log, rec.orders, v) =
                 IF u = v THEN Indexed(log, left, v) \cup {k} ELSE Indexed(log, left, v)
    <2>1. left \ {n} = rec.orders /\ n \in left
      BY <1>2
    <2> HIDE DEF left
    <2>2. \A v : Indexed(log, left \ {n}, v) =
                  IF u = v THEN Indexed(log, left, v) \cup {k} ELSE Indexed(log, left, v)
      BY <1>2, <2>1, IndexedMore
    <2> QED
      BY <2>1, <2>2
  <1>10. IndexHolds(log, rec.orders, ridx')
    <2> SUFFICES ASSUME NEW v \in Users
                 PROVE  /\ ridx'[v] \subseteq Indexed(log, rec.orders, v)
                        /\ \/ ridx'[v] = Indexed(log, rec.orders, v)
                           \/ Cardinality(ridx'[v]) = MaxDependents
      BY DEF IndexHolds
    <2>1. /\ ridx[v] \subseteq Indexed(log, left, v)
          /\ ridx[v] = Indexed(log, left, v) \/ Cardinality(ridx[v]) = MaxDependents
      BY <1>2 DEF IndexHolds
    <2> HIDE DEF k, u, left
    <2>2. CASE v # u
      BY <1>8, <1>9, <2>1, <2>2
    <2>3. CASE v = u
      <3>1. ridx[v] = Indexed(log, left, v)
        BY <1>2, <1>4, <1>7, <2>1, <2>3
      <3>2. ridx'[v] = ridx[v] \cup {k}
        BY <1>8, <2>3
      <3>3. Indexed(log, rec.orders, v) = Indexed(log, left, v) \cup {k}
        BY <1>9, <2>3
      <3> QED
        BY <3>1, <3>2, <3>3, Zenon
    <2> QED
      BY <2>2, <2>3
  <1>11. rec'.pc = "view" /\ rec'.orders = rec.orders /\ rec'.users = rec.users /\ rec'.n = n
    BY <1>1
  <1> HIDE DEF n, u, k, left
  <1> QED
    BY <1>1, <1>2, <1>3, <1>10, <1>11 DEF RunFacts

\* The view of one more order.
LEMMA RunViews ==
  ASSUME Typed, RunFacts, RebuildView, losses' = losses
  PROVE  RunFacts'
  <1> DEFINE o == log[rec.n].key
             us == {m \in rec.users : log[m].key = reference(rec.n)}
             new == [order |-> rec.n, user |-> IF us = {} THEN 0 ELSE CHOOSE m \in us : TRUE]
  <1>1. /\ rec.pc = "view" /\ UNCHANGED <<log, ridx, copy>>
        /\ rec' = [pc |-> "index", mark |-> rec.mark, orders |-> rec.orders, users |-> rec.users]
    BY DEF RebuildView
  <1>2. /\ rec.users = Live(log, Users) /\ rec.orders \subseteq Live(log, Orders)
        /\ IndexHolds(log, rec.orders, ridx)
        /\ \A p \in Orders :
             RowIn(log, p) # 0 /\ RowIn(log, p) \notin rec.orders /\ rec.n # RowIn(log, p)
               => view[p] = JoinIn(log, p)
        /\ rec.n \in Live(log, Orders)
    BY <1>1 DEF RunFacts
  <1>3. rec.n # 0 /\ o \in Orders /\ rec.n = RowIn(log, o) /\ log[rec.n].user \in Users
    BY <1>2, LiveFacts
  <1>4. PICK r \in Store(new, view[o]) : view' = [view EXCEPT ![o] = r[1]] /\ losses' = r[2]
    BY DEF RebuildView
  <1>5. losses \in Nat
    BY DEF Typed, CountType
  <1>6. r[1] = new
    <2> HIDE DEF new, o
    <2> QED
      BY <1>4, <1>5, Outcome
  <1>7. new = JoinIn(log, o)
    <2> DEFINE w == RowIn(log, log[rec.n].user)
    <2>1. \A m \in us : m = w
      BY <1>2, LiveFacts DEF reference
    <2>2. w # 0 => w \in us
      BY <1>2, <1>3, LiveFacts DEF Live, reference
    <2>3. 0 \notin us
      BY <1>2 DEF Live
    <2>4. (IF us = {} THEN 0 ELSE CHOOSE m \in us : TRUE) = w
      <3> HIDE DEF us, w
      <3>1. CASE us = {}
        BY <2>2, <3>1
      <3>2. CASE us # {}
        BY <2>1, <3>2
      <3> QED
        BY <3>1, <3>2
    <2> QED
      BY <1>3, <2>4 DEF JoinIn
  <1>8. view \in [Orders -> [order : 0..MaxCommits, user : 0..MaxCommits]]
    BY DEF Typed, TypeOK
  <1> HIDE DEF new
  <1>9. \A p \in Orders : view'[p] = IF p = o THEN JoinIn(log, o) ELSE view[p]
    <2> HIDE DEF o
    <2> QED
      BY <1>3, <1>4, <1>6, <1>7, <1>8
  <1>10. \A p \in Orders :
           RowIn(log, p) # 0 /\ RowIn(log, p) \notin rec.orders => view'[p] = JoinIn(log, p)
    <2>1. \A p \in Orders : p # o => rec.n # RowIn(log, p)
      BY <1>3, LiveFacts
    <2> HIDE DEF o
    <2> QED
      BY <1>2, <1>9, <2>1
  <1>11. rec'.pc = "index" /\ rec'.orders = rec.orders /\ rec'.users = rec.users
    BY <1>1
  <1> QED
    BY <1>1, <1>2, <1>10, <1>11 DEF RunFacts

\* One more copy.
LEMMA RunCopies ==
  ASSUME Typed, RunFacts, NEW n \in 1..MaxCommits, RebuildCopy(n), losses' = losses
  PROVE  RunFacts'
  <1>1. /\ rec.pc = "copies" /\ n \in rec.users /\ UNCHANGED <<log, ridx, view>>
        /\ rec' = [pc |-> "copies", mark |-> rec.mark, users |-> rec.users \ {n}]
    BY DEF RebuildCopy
  <1>2. /\ \A o \in Orders : RowIn(log, o) # 0 => view[o] = JoinIn(log, o)
        /\ IndexHolds(log, {}, ridx)
        /\ rec.users \subseteq Live(log, Users)
        /\ \A u \in Users :
             RowIn(log, u) # 0 /\ RowIn(log, u) \notin rec.users => copy[u] = RowIn(log, u)
    BY <1>1 DEF RunFacts
  <1>3. log[n].key \in Users /\ n = RowIn(log, log[n].key) /\ n # 0
    BY <1>1, <1>2, LiveFacts
  <1>4. PICK r \in Store(n, copy[log[n].key]) :
          copy' = [copy EXCEPT ![log[n].key] = r[1]] /\ losses' = r[2]
    BY DEF RebuildCopy
  <1>5. r[1] = n
    <2>1. losses \in Nat
      BY DEF Typed, CountType
    <2> QED
      BY <1>4, <2>1, Outcome
  <1>6. copy \in [Users -> 0..MaxCommits]
    BY DEF Typed, TypeOK
  <1>7. \A u \in Users : copy'[u] = IF u = log[n].key THEN n ELSE copy[u]
    BY <1>3, <1>4, <1>5, <1>6
  <1>8. \A u \in Users :
          RowIn(log, u) # 0 /\ RowIn(log, u) \notin rec.users \ {n} => copy'[u] = RowIn(log, u)
    <2>1. \A u \in Users : RowIn(log, u) = n => u = log[n].key
      BY <1>3, LiveFacts
    <2> QED
      BY <1>2, <1>3, <1>7, <2>1
  <1>9. rec'.pc = "copies" /\ rec'.users = rec.users \ {n}
    BY <1>1
  <1> QED
    BY <1>1, <1>2, <1>8, <1>9 DEF RunFacts

\* With all copies made the run ends.
LEMMA RunEnds ==
  ASSUME Typed, RunFacts, EndRun
  PROVE  Repaired'
  <1>1. rec.pc = "copies" /\ rec.users = {} /\ UNCHANGED <<log, ridx, view, copy>>
    BY DEF EndRun, caches
  <1> QED
    BY <1>1 DEF RunFacts, Repaired

\* While nothing waits for the projector only the reconciler works.
LEMMA QuietSteps ==
  ASSUME Typed, Quiet, [Next]_vars, mark' = mark
  PROVE  \/ UNCHANGED <<log, work, queue, view, copy, ridx, rec, repaired>>
         \/ RecSteps /\ ~ SelectFails /\ ~ KillReconciler /\ UNCHANGED <<log, work, queue>>
  <1>1. work = Idle /\ \A s \in Stores : queue[s] = <<>>
    BY DEF Quiet
  <1>2. Len(log) \in Nat /\ resends \in Nat /\ losses \in Nat
    BY DEF Typed, TypeOK, CountType
  <1>3. Len(log') = Len(log) /\ resends' = resends /\ losses' = losses
    BY DEF mark
  <1>4. ~ \E c \in Changes : Commit(c)
    BY <1>2, <1>3, MarkGrows
  <1>5. ~ \E n \in 1..MaxCommits : Resend(n)
    BY <1>2, <1>3, MarkGrows
  <1>6. ~ (LoseSession \/ CrashProjector \/ SelectFails \/ KillReconciler)
    BY <1>2, <1>3, MarkGrows
  <1>7. ~ \E s \in Stores : SkipStale(s) \/ SkipDuplicate(s) \/ Take(s)
    BY <1>1 DEF SkipStale, SkipDuplicate, Take, Received
  <1>8. work.pc = "idle"
    BY <1>1 DEF Idle
  <1>9. ~ (Lookup \/ Project \/ ReadDependents \/ Register)
    BY <1>8 DEF Lookup, Project, ReadDependents, Register
  <1>10. ~ (ReadTargets \/ RewriteTarget \/ Materialize \/ \E o \in Orders : ReadTarget(o))
    BY <1>8 DEF ReadTargets, RewriteTarget, Materialize, ReadTarget
  <1>12. ASSUME RecSteps PROVE UNCHANGED <<log, work, queue>>
    BY <1>12 DEF RecSteps, DropIndex, SelectOrders, SelectUsers, SelectFails, RebuildIndex, EnterOrder,
                 RebuildView, SelectCopies, RebuildCopy, EndRun, KillReconciler, projector
  <1>13. ASSUME UNCHANGED vars PROVE UNCHANGED <<log, work, queue, view, copy, ridx, rec, repaired>>
    BY <1>13 DEF vars
  <1> QED
    BY <1>4, <1>5, <1>6, <1>7, <1>9, <1>10, <1>12, <1>13, NextCases

\* A run goes on until its end.
LEMMA RunContinues ==
  ASSUME RecSteps, ~ EndRun, ~ KillReconciler
  PROVE  rec' # Idle
  <1>1. ASSUME DropIndex \/ SelectOrders \/ SelectUsers \/ SelectFails \/ SelectCopies PROVE rec'.pc # "idle"
    BY <1>1 DEF DropIndex, SelectOrders, SelectUsers, SelectFails, SelectCopies
  <1>2. ASSUME EnterOrder \/ RebuildView PROVE rec'.pc # "idle"
    BY <1>2 DEF EnterOrder, RebuildView
  <1>3. ASSUME NEW n \in 1..MaxCommits, RebuildIndex(n) PROVE rec'.pc # "idle"
    BY <1>3 DEF RebuildIndex
  <1>4. ASSUME NEW n \in 1..MaxCommits, RebuildCopy(n) PROVE rec'.pc # "idle"
    BY <1>4 DEF RebuildCopy
  <1>5. rec'.pc # "idle"
    BY <1>1, <1>2, <1>3, <1>4 DEF RecSteps
  <1> QED
    BY <1>5 DEF Idle

\* A step of an undisturbed run leaves its facts, or a complete repair.
LEMMA RunStep ==
  ASSUME Typed, RecSteps, ~ SelectFails, ~ KillReconciler, losses' = losses, rec # Idle, RunFacts
  PROVE  \/ rec' # Idle /\ RunFacts' /\ ~ EndRun
         \/ rec' = Idle /\ Repaired' /\ EndRun
  <1>1. ~ DropIndex
    BY DEF DropIndex, Typed, RecType, Idle
  <1>2. CASE EndRun
    <2>1. rec' = Idle
      BY <1>2 DEF EndRun
    <2> QED
      BY <1>2, <2>1, RunEnds
  <1>3. CASE ~ EndRun
    <2>1. RunFacts'
      BY <1>1, <1>3, RunSelects, RunIndexes, RunEnters, RunViews, RunCopies DEF RecSteps
    <2>2. rec' # Idle
      BY <1>1, <1>3, RunContinues
    <2> QED
      BY <1>3, <2>1, <2>2
  <1> QED
    BY <1>2, <1>3

\* Nothing happens behind the back of a mark.
LEMMA RecInvStep ==
  ASSUME RecInv, [Next]_vars
  PROVE  RecInv'
  <1>1. Typed /\ Marks /\ RunHolds /\ RepairHolds
    BY DEF RecInv
  <1>2. Typed'
    BY <1>1, TypedStep
  <1>3. /\ Marks'
        /\ repaired' = mark' => mark' = mark
        /\ rec' # Idle /\ rec'.mark = mark' => mark' = mark
    BY <1>1, MarksStep
  <1>4. /\ \/ repaired' = repaired
           \/ rec # Idle /\ rec' = Idle /\ repaired' = rec.mark /\ EndRun
        /\ \/ rec' = rec
           \/ rec' = Idle
           \/ rec # Idle /\ rec' # Idle /\ rec'.mark = rec.mark
           \/ DropIndex /\ rec = Idle /\ rec' # Idle /\ rec'.mark = IF Quiet THEN mark ELSE <<>>
    BY <1>1, MarkSources
  <1>5. mark # <<>>
    BY <1>1, PresentMark
  <1>6. CASE mark' # mark
    <2>1. RunHolds'
      BY <1>3, <1>6 DEF RunHolds, Idle
    <2>2. RepairHolds'
      BY <1>3, <1>6 DEF RepairHolds
    <2> QED
      BY <1>2, <1>3, <2>1, <2>2 DEF RecInv
  <1>7. CASE mark' = mark /\ ~ Quiet
    <2>1. repaired # mark /\ (rec # Idle => rec.mark # mark)
      BY <1>1, <1>7 DEF RunHolds, RepairHolds
    <2>2. repaired' # mark'
      BY <1>4, <1>7, <2>1
    <2>3. ~ (rec' # Idle /\ rec'.mark = mark')
      BY <1>4, <1>5, <1>7, <2>1
    <2>4. RunHolds' /\ RepairHolds'
      BY <2>2, <2>3 DEF RunHolds, RepairHolds, Idle
    <2> QED
      BY <1>2, <1>3, <2>4 DEF RecInv
  <1>8. CASE mark' = mark /\ Quiet
    <2>1. \/ UNCHANGED <<log, work, queue, view, copy, ridx, rec, repaired>>
          \/ RecSteps /\ ~ SelectFails /\ ~ KillReconciler /\ UNCHANGED <<log, work, queue>>
      BY <1>1, <1>8, QuietSteps
    <2>2. Quiet'
      BY <1>8, <2>1 DEF Quiet, Idle, Stores
    <2>3. losses' = losses
      BY <1>8 DEF mark
    <2>4. CASE UNCHANGED <<log, work, queue, view, copy, ridx, rec, repaired>>
      <3>1. RunFacts => RunFacts'
        BY <2>4 DEF RunFacts
      <3>2. Repaired => Repaired'
        BY <2>4 DEF Repaired
      <3>3. RunHolds'
        BY <1>1, <1>8, <2>2, <2>4, <3>1 DEF RunHolds, Idle
      <3>4. RepairHolds'
        BY <1>1, <1>8, <2>2, <2>4, <3>2 DEF RepairHolds, Idle
      <3> QED
        BY <1>2, <1>3, <3>3, <3>4 DEF RecInv
    <2>5. CASE RecSteps /\ ~ SelectFails /\ ~ KillReconciler
      <3>1. CASE rec = Idle
        <4>1. DropIndex
          BY <2>5, <3>1 DEF RecSteps, SelectOrders, SelectUsers, RebuildIndex, EnterOrder, RebuildView,
                            SelectCopies, RebuildCopy, EndRun, Idle
        <4>2. RunFacts'
          BY <1>1, <2>3, <4>1, RunBegins
        <4>3. rec'.pc = "orders"
          BY <4>1 DEF DropIndex
        <4>4. rec' # Idle
          BY <4>3 DEF Idle
        <4>5. RunHolds' /\ RepairHolds'
          BY <2>2, <4>2, <4>4 DEF RunHolds, RepairHolds, Idle
        <4> QED
          BY <1>2, <1>3, <4>5 DEF RecInv
      <3>2. CASE rec # Idle /\ rec.mark = mark
        <4>1. RunFacts
          BY <1>1, <3>2 DEF RunHolds
        <4>2. \/ rec' # Idle /\ RunFacts' /\ ~ EndRun
              \/ rec' = Idle /\ Repaired' /\ EndRun
          BY <1>1, <2>3, <2>5, <3>2, <4>1, RunStep
        <4>3. RunHolds' /\ RepairHolds'
          BY <2>2, <4>2 DEF RunHolds, RepairHolds, Idle
        <4> QED
          BY <1>2, <1>3, <4>3 DEF RecInv
      <3>3. CASE rec # Idle /\ rec.mark # mark
        <4>1. ~ DropIndex
          BY <1>1, <3>3 DEF DropIndex, Typed, RecType, Idle
        <4>2. ~ (rec' # Idle /\ rec'.mark = mark')
          BY <1>4, <1>8, <3>3, <4>1
        <4>3. RunHolds'
          BY <4>2 DEF RunHolds, Idle
        <4>4. repaired' = mark' => rec' # Idle
          <5> SUFFICES ASSUME repaired' = mark' PROVE rec' # Idle
            OBVIOUS
          <5>1. ~ EndRun
            BY <1>8, <3>3 DEF EndRun
          <5> QED
            BY <2>5, <5>1, RunContinues
        <4>5. RepairHolds'
          BY <2>2, <4>4 DEF RepairHolds, Idle
        <4> QED
          BY <1>2, <1>3, <4>3, <4>5 DEF RecInv
      <3> QED
        BY <3>1, <3>2, <3>3
    <2> QED
      BY <2>1, <2>4, <2>5
  <1> QED
    BY <1>6, <1>7, <1>8

\* No run has been complete at first.
LEMMA RecInvInit == Init => RecInv
  <1> SUFFICES ASSUME Init PROVE RecInv
    OBVIOUS
  <1>1. Typed
    BY TypedInit
  <1>2. repaired = <<>> /\ rec = Idle /\ repaired # mark
    BY <1>1, PresentMark DEF Init
  <1> QED
    BY <1>1, <1>2 DEF RecInv, Marks, IsMark, RunHolds, RepairHolds

\* What a complete run leaves is what ReconcilerRepairs asks for.
LEMMA RepairedSuffices ==
  ASSUME Typed, RepairHolds
  PROVE  ReconcilerRepairs
  <1> SUFFICES ASSUME repaired = mark /\ rec = Idle PROVE ReconcilerRepairs
    BY DEF ReconcilerRepairs
  <1>1. Repaired
    BY DEF RepairHolds
  <1>2. \A k : row(k) = RowIn(log, k)
    BY LogNames
  <1>3. \A o \in Orders : row(o) # 0 => view[o] = join(o)
    <2> SUFFICES ASSUME NEW o \in Orders, row(o) # 0 PROVE view[o] = join(o)
      OBVIOUS
    <2>1. view[o] = JoinIn(log, o)
      BY <1>1, <1>2 DEF Repaired
    <2>2. join(o) = JoinIn(log, o)
      BY <1>2 DEF join, JoinIn, reference
    <2> QED
      BY <2>1, <2>2
  <1>4. ASSUME NEW u \in Users
        PROVE  LET dependents == {o \in Orders : row(o) # 0 /\ reference(row(o)) = u}
               IN /\ ridx[u] \subseteq dependents
                  /\ ridx[u] = dependents \/ Cardinality(ridx[u]) = MaxDependents
    <2>1. {o \in Orders : row(o) # 0 /\ reference(row(o)) = u} = Indexed(log, {}, u)
      BY <1>2 DEF Indexed, reference
    <2> QED
      BY <1>1, <2>1 DEF Repaired, IndexHolds
  <1>5. \A u \in Users : row(u) # 0 => copy[u] = row(u)
    BY <1>1, <1>2 DEF Repaired
  <1> QED
    BY <1>3, <1>4, <1>5 DEF ReconcilerRepairs

\* However wrong views, copies and index were, because of losses, lag, moved orders or
\* runs that met the projector: a complete run of the reconciler that nothing
\* disturbs leaves them right (crates/ixmati-reconciler).
THEOREM ReconcilerRepairsAll == Spec => []ReconcilerRepairs
  <1>1. Init => RecInv
    BY RecInvInit
  <1>2. RecInv /\ [Next]_vars => RecInv'
    BY RecInvStep
  <1>3. RecInv => ReconcilerRepairs
    BY RepairedSuffices DEF RecInv
  <1> QED
    BY <1>1, <1>2, <1>3, PTL DEF Spec

-----------------------------------------------------------------------------
(* Convergence *)

Calm == env.hazards = {}

\* Without losses a request has one outcome.
LEMMA CalmOutcome ==
  ASSUME Calm, NEW new, NEW old, NEW r \in Store(new, old)
  PROVE  r[1] = new /\ r[2] = losses
  <1>1. ~ Lossy
    BY DEF Lossy, Calm
  <1> QED
    BY <1>1, Outcome

\* The log as the proofs below use it: last changes, rows and the user of an order.
LEMMA LogView ==
  ASSUME Typed
  PROVE  /\ Len(log) \in Nat /\ DOMAIN log = 1..Len(log)
         /\ \A k : /\ LastIn(log, k) \in 0..Len(log)
                   /\ LastIn(log, k) # 0 => LastIn(log, k) \in DOMAIN log /\ log[LastIn(log, k)].key = k
                   /\ \A i \in DOMAIN log : log[i].key = k => i <= LastIn(log, k)
                   /\ RowIn(log, k) # 0 => RowIn(log, k) = LastIn(log, k)
                   /\ (RowIn(log, k) = 0 /\ LastIn(log, k) # 0) => log[LastIn(log, k)].del
                   /\ (LastIn(log, k) # 0 /\ ~ log[LastIn(log, k)].del) => RowIn(log, k) = LastIn(log, k)
                   /\ (LastIn(log, k) # 0 /\ log[LastIn(log, k)].del) => RowIn(log, k) = 0
  <1>1. log \in Seq(Changes) /\ Len(log) \in Nat /\ DOMAIN log = 1..Len(log)
    BY LogEntries
  <1>2. ASSUME NEW k
        PROVE  /\ LastIn(log, k) \in 0..Len(log)
               /\ LastIn(log, k) # 0 => log[LastIn(log, k)].key = k
               /\ \A i \in 1..Len(log) : log[i].key = k => i <= LastIn(log, k)
    BY <1>1, LastFacts, Zenon
  <1>3. ASSUME NEW k
        PROVE  RowIn(log, k) = IF LastIn(log, k) = 0 \/ log[LastIn(log, k)].del THEN 0 ELSE LastIn(log, k)
    BY DEF RowIn
  <1>4. ASSUME NEW k
        PROVE  /\ RowIn(log, k) # 0 => RowIn(log, k) = LastIn(log, k)
               /\ (RowIn(log, k) = 0 /\ LastIn(log, k) # 0) => log[LastIn(log, k)].del
               /\ (LastIn(log, k) # 0 /\ ~ log[LastIn(log, k)].del) => RowIn(log, k) = LastIn(log, k)
               /\ (LastIn(log, k) # 0 /\ log[LastIn(log, k)].del) => RowIn(log, k) = 0
    BY <1>3
  <1>5. ASSUME NEW k PROVE LastIn(log, k) # 0 => LastIn(log, k) \in DOMAIN log
    BY <1>1, <1>2
  <1> QED
    BY <1>1, <1>2, <1>4, <1>5

\* The user of a live order.
LEMMA OrderView ==
  ASSUME Typed, Settled, NEW o \in Orders, RowIn(log, o) # 0
  PROVE  /\ log[RowIn(log, o)].user \in Users
         /\ \A n \in DOMAIN log : log[n].key = o => log[n].user = log[RowIn(log, o)].user
  <1>1. RowIn(log, o) \in DOMAIN log /\ log[RowIn(log, o)].key = o
    BY RowTypes
  <1> QED
    BY <1>1, LogEntries DEF Settled

\* At first nothing is committed and nothing shown.
LEMMA ConvergingInit ==
  ASSUME Init
  PROVE  Converging
  <1>1. log = <<>> /\ DOMAIN log = {}
    BY DEF Init
  <1>2. Typed
    BY TypedInit
  <1>3. \A k : LastIn(log, k) = 0
    <2>1. Len(log) = 0
      BY <1>1
    <2>2. \A k : LastIn(log, k) \in 0..Len(log)
      BY <1>2, LogView
    <2> QED
      BY <2>1, <2>2
  <1>4. \A k : RowIn(log, k) = 0
    BY <1>3 DEF RowIn
  <1>5. Settled /\ Delivered
    BY <1>1, <1>3, <1>4 DEF Init, Settled, Delivered, Current
  <1>6. work = Idle /\ rec = Idle /\ work.pc = "idle"
    BY DEF Init, Idle
  <1>7. WorkHolds /\ IndexKnown /\ RecAlone
    BY <1>6 DEF Init, WorkHolds, IndexKnown, RecAlone
  <1>8. DeletedShown /\ ViewsShown /\ CopiesShown
    BY <1>4 DEF Init, DeletedShown, ViewsShown, CopiesShown, NoView
  <1> QED
    BY <1>5, <1>7, <1>8 DEF Converging

\* A change is committed: it waits, and what it makes wrong waits for it.
LEMMA ConvergingCommit ==
  ASSUME Typed, Calm, Converging, NEW c \in Changes, Commit(c)
  PROVE  Converging'
  <1> DEFINE k == c.key
             N == Len(log) + 1
  <1>1. /\ Len(log) \in Nat /\ DOMAIN log = 1..Len(log) /\ DOMAIN log' = 1..N
        /\ \A n \in DOMAIN log : n \in DOMAIN log' /\ log'[n] = log[n] /\ n # N
        /\ log'[N] = c
    <2>1. log \in Seq(Changes) /\ log' = Append(log, c)
      BY DEF Typed, TypeOK, Commit
    <2> QED
      BY <2>1, LogAppend
  <1>2. \A j : /\ LastIn(log', j) = IF j = k THEN N ELSE LastIn(log, j)
               /\ RowIn(log', j) = IF j = k THEN (IF c.del THEN 0 ELSE N) ELSE RowIn(log, j)
    <2>1. log \in Seq(Changes) /\ log' = Append(log, c)
      BY DEF Typed, TypeOK, Commit
    <2> QED
      BY <2>1, LastAppend
  <1>3. \A j : LastIn(log, j) \in 0..Len(log)
    BY LogView
  <1>4. UNCHANGED <<seen, latest, work, view, copy, ridx, lagged, rec>>
    BY DEF Commit, projector, caches
  <1>5. k \in Keys /\ c.user \in Users /\ (k \in Users => c.user = k) /\ (k \in Users <=> k \notin Orders)
    BY ChangeFacts
  <1>6. Settled /\ Delivered /\ WorkHolds /\ IndexKnown /\ RecAlone /\ DeletedShown /\ ViewsShown /\ CopiesShown
    BY DEF Converging
  <1>7. \A j \in Keys : latest[j] \in Nat /\ latest[j] <= LastIn(log, j)
    BY <1>6 DEF Typed, TypeOK, Delivered
  <1>8. latest[k] # N
    BY <1>1, <1>3, <1>5, <1>7
  <1>9. rec = Idle
    BY DEF Commit, Calm
  <1>10. work # Idle => /\ work.n \in DOMAIN log /\ log[work.n].key \in Keys /\ log[work.n].user \in Users
    BY WorkFacts
  <1>11. work.pc # "idle" <=> work # Idle
    BY DEF Typed, WorkType, Idle, OrderSteps, UserSteps
  <1> HIDE DEF k, N
  <1>12. Settled'
    <2>2. \A n \in DOMAIN log : log[n].key = k => log[n].user = c.user
      <3>1. CASE k \in Orders
        BY <3>1 DEF Commit, Calm, k
      <3>2. CASE k \in Users
        BY <1>5, <3>2, LogEntries
      <3> QED
        BY <1>5, <3>1, <3>2 DEF Keys
    <2>3. \A n \in DOMAIN log' : n \in DOMAIN log \/ n = N
      BY <1>1 DEF N
    <2>4. \A m, n \in DOMAIN log' : log'[m].key = log'[n].key => log'[m].user = log'[n].user
      BY <1>1, <1>6, <2>2, <2>3 DEF Settled, k
    <2> QED
      BY <2>4 DEF Settled
  <1>13. Delivered'
    <2>1. \A j \in Keys : latest'[j] <= LastIn(log', j)
      BY <1>1, <1>2, <1>3, <1>4, <1>7 DEF N
    <2>2. store_of(k) \in Stores /\ N \in 1..MaxCommits /\ queue \in [Stores -> Seq(1..MaxCommits)]
      <3>1. env.commits \in 0..MaxCommits
        BY ReadModelConstants DEF Typed, TypeOK
      <3> QED
        BY <1>1, <3>1, ReadModelConstants DEF store_of, Stores, Typed, TypeOK, Commit, N
    <2>3. queue' = [queue EXCEPT ![store_of(k)] = Append(@, N)]
      BY DEF Commit, k, N
    <2>4. EnqueueFacts(queue, queue', store_of(k), N)
      BY <2>2, <2>3, Enqueued, Zenon
    <2>5. ASSUME NEW j \in Keys, LastIn(log', j) # 0
          PROVE  \/ latest'[j] = LastIn(log', j)
                 \/ \E i \in DOMAIN queue'[store_of(j)] : queue'[store_of(j)][i] = LastIn(log', j)
      <3>1. store_of(j) \in Stores
        BY DEF store_of, Stores
      <3>2. CASE j = k
        BY <1>2, <2>4, <3>2 DEF EnqueueFacts
      <3>3. CASE j # k
        <4>1. LastIn(log', j) = LastIn(log, j)
          BY <1>2, <3>3
        <4>2. \/ latest[j] = LastIn(log, j)
              \/ \E i \in DOMAIN queue[store_of(j)] : queue[store_of(j)][i] = LastIn(log, j)
          BY <1>6, <2>5, <4>1 DEF Delivered, Current
        <4> QED
          BY <1>4, <2>4, <3>1, <4>1, <4>2 DEF EnqueueFacts
      <3> QED
        BY <3>2, <3>3
    <2>6. \A n \in seen' : n \in DOMAIN log' /\ n <= latest'[log'[n].key]
      BY <1>1, <1>4, <1>6 DEF Delivered
    <2> QED
      BY <2>1, <2>5, <2>6 DEF Delivered, Current, store_of
  <1>14. \A j \in Keys : latest'[j] = LastIn(log', j) <=> (j # k /\ latest[j] = LastIn(log, j))
    BY <1>2, <1>4, <1>8
  <1>15. work # Idle => work.n # N
    BY <1>1, <1>10
  <1>16. WorkHolds'
    <2>1. CASE work = Idle
      BY <1>4, <2>1 DEF WorkHolds, Idle
    <2>2. CASE work # Idle
      <3>1. log'[work.n] = log[work.n]
        BY <1>1, <1>10, <2>2
      <3>2. work.pc = "rewrite" => work.key \in Keys
        BY DEF Typed, WorkType, Keys
      <3>3. log[work.n].user \in Keys
        BY <1>10, <2>2 DEF Keys
      <3>4. work'.pc = "project" =>
              \/ log'[work'.n].del \/ log'[work'.n].key \in lagged'
              \/ work'.user = RowIn(log', log'[work'.n].user)
              \/ ~ (latest'[log'[work'.n].user] = LastIn(log', log'[work'.n].user))
        BY <1>2, <1>4, <1>6, <1>14, <3>1, <3>3 DEF WorkHolds, Current
      <3>5. work'.pc = "rewrite" =>
              \/ log'[work'.n].del \/ work'.key \in lagged'
              \/ work'.order = RowIn(log', work'.key)
              \/ ~ (latest'[work'.key] = LastIn(log', work'.key))
        BY <1>2, <1>4, <1>6, <1>14, <3>1, <3>2 DEF WorkHolds, Current
      <3> QED
        BY <1>4, <1>6, <3>1, <3>4, <3>5 DEF WorkHolds, Current
    <2> QED
      BY <2>1, <2>2
  <1>17. IndexKnown' /\ RecAlone'
    BY <1>1, <1>4, <1>6, <1>9 DEF IndexKnown, RecAlone
  <1>18. \A j : j # k => LastIn(log', j) = LastIn(log, j) /\ RowIn(log', j) = RowIn(log, j)
    BY <1>2
  <1>19. DeletedShown'
    BY <1>4, <1>6, <1>14, <1>18 DEF DeletedShown, Rewrites, Projected, Current, WorksOn, Keys
  <1>20. ViewsShown'
    <2> SUFFICES ASSUME NEW o \in Orders, NEW u \in Users,
                        Projected(o)', RowIn(log', o) # 0, log'[RowIn(log', o)].user = u
                 PROVE  ViewOf(o, u)'
      BY DEF ViewsShown
    <2>1. o # k /\ Projected(o)
      BY <1>4, <1>14, <1>18 DEF Projected, Current, WorksOn, Keys
    <2>2. RowIn(log', o) = RowIn(log, o) /\ LastIn(log', o) = LastIn(log, o)
      BY <1>18, <2>1
    <2>3. RowIn(log, o) \in DOMAIN log /\ log'[RowIn(log, o)] = log[RowIn(log, o)]
      BY <1>1, <2>2, RowTypes
    <2>4. log[RowIn(log, o)].user = u /\ u \in Keys
      BY <2>2, <2>3 DEF Keys
    <2>5. ViewOf(o, u)
      BY <1>6, <1>9, <2>1, <2>2, <2>4 DEF ViewsShown
    <2>6. Good(o, u) \/ Pending(o, u) => Good(o, u)' \/ Pending(o, u)'
      <3>1. CASE u = k
        <4>1. Pending(o, u)'
          BY <1>14, <2>4, <3>1 DEF Pending, Current
        <4> QED
          BY <4>1
      <3>2. CASE u # k
        <4>1. RowIn(log', u) = RowIn(log, u) /\ LastIn(log', u) = LastIn(log, u)
          BY <1>18, <3>2
        <4>2. JoinIn(log', o) = JoinIn(log, o)
          BY <2>2, <2>3, <2>4, <4>1 DEF JoinIn
        <4>3. Good(o, u) => Good(o, u)'
          BY <1>4, <4>1, <4>2 DEF Good, NoView
        <4>4. Pending(o, u) => Pending(o, u)'
          BY <1>4, <4>1 DEF Pending, Current, WorksOn
        <4> QED
          BY <4>3, <4>4
      <3> QED
        BY <3>1, <3>2
    <2> QED
      BY <1>4, <2>2, <2>5, <2>6 DEF ViewOf, WorksOn
  <1>21. CopiesShown'
    BY <1>4, <1>6, <1>14, <1>18 DEF CopiesShown, Current, WorksOn, Keys
  <1> QED
    BY <1>12, <1>13, <1>16, <1>17, <1>19, <1>20, <1>21 DEF Converging

\* An event published again changes nothing but its queue, and neither does one skipped:
\* what waits stays there, or has been taken.
LEMMA ConvergingQueues ==
  ASSUME Typed, Converging, UNCHANGED <<log, lagged, latest, work, view, copy, ridx, rec>>,
         seen' \subseteq seen, rec = Idle,
         \A k \in Keys : ~ Current(k) /\ LastIn(log, k) # 0 =>
           \E i \in DOMAIN queue'[store_of(k)] : queue'[store_of(k)][i] = LastIn(log, k)
  PROVE  Converging'
  <1>1. Settled /\ Delivered /\ WorkHolds /\ IndexKnown /\ RecAlone /\ DeletedShown /\ ViewsShown /\ CopiesShown
    BY DEF Converging
  <1>2. Settled' /\ WorkHolds' /\ IndexKnown' /\ RecAlone' /\ CopiesShown'
    BY <1>1 DEF Settled, WorkHolds, IndexKnown, RecAlone, CopiesShown, Current, WorksOn
  <1>3. DeletedShown'
    BY <1>1 DEF DeletedShown, Rewrites, Projected, Current, WorksOn
  <1>4. ViewsShown'
    BY <1>1 DEF ViewsShown, Projected, Current, WorksOn, ViewOf, Good, Pending, NoView
  <1>5. Delivered'
    BY <1>1 DEF Delivered, Current, store_of
  <1> QED
    BY <1>2, <1>3, <1>4, <1>5 DEF Converging

\* Resend keeps what is wanted.
LEMMA ConvergingResend ==
  ASSUME Typed, Calm, Converging, NEW n \in 1..MaxCommits, Resend(n)
  PROVE  Converging'
  <1>1. /\ UNCHANGED <<log, lagged, seen, latest, work, view, copy, ridx, rec>> /\ rec = Idle
    BY DEF Resend, caches, projector, Calm
  <1>2. store_of(log[n].key) \in Stores /\ queue \in [Stores -> Seq(1..MaxCommits)]
    BY DEF store_of, Stores, Typed, TypeOK
  <1>3. queue' = [queue EXCEPT ![store_of(log[n].key)] = Append(@, n)]
    BY DEF Resend
  <1>4. EnqueueFacts(queue, queue', store_of(log[n].key), n)
    BY <1>2, <1>3, Enqueued, Zenon
  <1>5. ASSUME NEW k \in Keys, ~ Current(k), LastIn(log, k) # 0
        PROVE  \E i \in DOMAIN queue'[store_of(k)] : queue'[store_of(k)][i] = LastIn(log, k)
    <2>1. store_of(k) \in Stores
      BY DEF store_of, Stores
    <2>2. PICK i \in DOMAIN queue[store_of(k)] : queue[store_of(k)][i] = LastIn(log, k)
      BY <1>5 DEF Converging, Delivered
    <2> QED
      BY <1>4, <2>1, <2>2 DEF EnqueueFacts
  <1> QED
    BY <1>1, <1>5, ConvergingQueues

\* What the projector receives.
LEMMA ReceivedView ==
  ASSUME Typed, Converging, NEW s \in Stores, Received(s)
  PROVE  /\ Head(queue[s]) \in DOMAIN log /\ log[Head(queue[s])].key \in Keys
         /\ store_of(log[Head(queue[s])].key) = s
         /\ latest[log[Head(queue[s])].key] \in Nat
         /\ Head(queue[s]) \in Nat /\ Head(queue[s]) <= LastIn(log, log[Head(queue[s])].key)
         /\ latest[log[Head(queue[s])].key] <= LastIn(log, log[Head(queue[s])].key)
         /\ LastIn(log, log[Head(queue[s])].key) \in Nat
         /\ work = Idle /\ rec = Idle
         /\ \A k \in Keys : ~ Current(k) /\ LastIn(log, k) # 0 =>
              \/ LastIn(log, k) = Head(queue[s]) /\ k = log[Head(queue[s])].key
              \/ \E i \in DOMAIN queue'[store_of(k)] : queue'[store_of(k)][i] = LastIn(log, k)
  <1> DEFINE n == Head(queue[s])
  <1>1. /\ n \in DOMAIN log /\ store_of(log[n].key) = s /\ n = queue[s][1] /\ work = Idle
        /\ \A t \in Stores : \A i \in DOMAIN queue[t] :
             (t = s /\ i = 1) \/ \E j \in DOMAIN queue'[t] : queue'[t][j] = queue[t][i]
    BY ReceivedFacts
  <1> HIDE DEF n
  <1>2. log[n].key \in Keys /\ n \in Nat
    BY <1>1, LogEntries
  <1>3. n <= LastIn(log, log[n].key) /\ LastIn(log, log[n].key) \in Nat
    BY <1>1, LogView
  <1>4. latest[log[n].key] \in Nat /\ latest[log[n].key] <= LastIn(log, log[n].key)
    BY <1>2 DEF Converging, Delivered, Typed, TypeOK
  <1>5. rec = Idle
    <2>1. ~ Quiet
      BY DEF Quiet, Received
    <2> QED
      BY <2>1 DEF Converging, RecAlone
  <1>6. ASSUME NEW k \in Keys, ~ Current(k), LastIn(log, k) # 0
        PROVE  \/ LastIn(log, k) = n /\ k = log[n].key
               \/ \E i \in DOMAIN queue'[store_of(k)] : queue'[store_of(k)][i] = LastIn(log, k)
    <2>1. store_of(k) \in Stores
      BY DEF store_of, Stores
    <2>2. PICK i \in DOMAIN queue[store_of(k)] : queue[store_of(k)][i] = LastIn(log, k)
      BY <1>6 DEF Converging, Delivered
    <2>3. CASE store_of(k) = s /\ i = 1
      <3>1. LastIn(log, k) = n
        BY <1>1, <2>2, <2>3
      <3> QED
        BY <1>6, <3>1, LogView
    <2>4. CASE ~ (store_of(k) = s /\ i = 1)
      BY <1>1, <2>1, <2>2, <2>4
    <2> QED
      BY <2>3, <2>4
  <1> QED
    BY <1>1, <1>2, <1>3, <1>4, <1>5, <1>6 DEF n

\* A skipped event is not one that is wanted.
LEMMA ConvergingSkip ==
  ASSUME Typed, Converging, NEW s \in Stores, SkipStale(s) \/ SkipDuplicate(s)
  PROVE  Converging'
  <1> DEFINE n == Head(queue[s])
  <1>1. Received(s)
    BY DEF SkipStale, SkipDuplicate
  <1>2. /\ n \in DOMAIN log /\ log[n].key \in Keys
        /\ latest[log[n].key] \in Nat /\ n \in Nat /\ n <= LastIn(log, log[n].key)
        /\ latest[log[n].key] <= LastIn(log, log[n].key) /\ LastIn(log, log[n].key) \in Nat
        /\ rec = Idle
        /\ \A k \in Keys : ~ Current(k) /\ LastIn(log, k) # 0 =>
             \/ LastIn(log, k) = n /\ k = log[n].key
             \/ \E i \in DOMAIN queue'[store_of(k)] : queue'[store_of(k)][i] = LastIn(log, k)
    BY <1>1, ReceivedView
  <1>3. UNCHANGED <<log, lagged, view, copy, ridx, work, rec>>
    BY DEF SkipStale, SkipDuplicate, caches, projector
  <1>4. latest' = latest /\ seen' \subseteq seen
        /\ (n < latest[log[n].key] \/ n = latest[log[n].key])
    <2>1. CASE SkipStale(s)
      BY <2>1 DEF SkipStale, projector, is_stale
    <2>2. CASE SkipDuplicate(s)
      <3>1. ~ (n < latest[log[n].key]) /\ n \in seen_before /\ seen' = seen_before
        BY <2>2 DEF SkipDuplicate, is_stale
      <3>2. seen_before \subseteq seen
        BY DEF seen_before
      <3>3. n <= latest[log[n].key]
        BY <3>1, <3>2 DEF Converging, Delivered
      <3>4. n = latest[log[n].key]
        BY <1>2, <3>1, <3>3
      <3>5. latest' = [latest EXCEPT ![log[n].key] = n] /\ latest \in [Keys -> 0..MaxCommits]
        BY <2>2 DEF SkipDuplicate, Typed, TypeOK
      <3>6. latest' = latest
        BY <3>4, <3>5
      <3> QED
        BY <3>1, <3>2, <3>4, <3>6
    <2> QED
      BY <2>1, <2>2
  <1> HIDE DEF n
  <1>5. ASSUME NEW k \in Keys, ~ Current(k), LastIn(log, k) # 0
        PROVE  \E i \in DOMAIN queue'[store_of(k)] : queue'[store_of(k)][i] = LastIn(log, k)
    <2>1. ~ (LastIn(log, k) = n /\ k = log[n].key)
      BY <1>2, <1>4, <1>5 DEF Current
    <2> QED
      BY <1>2, <1>5, <2>1
  <1> QED
    BY <1>2, <1>3, <1>4, <1>5, ConvergingQueues

\* An event is taken: its key is up to date, or it is not the last.
LEMMA ConvergingTake ==
  ASSUME Typed, Converging, NEW s \in Stores, Take(s)
  PROVE  Converging'
  <1> DEFINE n == Head(queue[s])
             k == log[n].key
  <1>1. Received(s)
    BY DEF Take
  <1>2. /\ n \in DOMAIN log /\ k \in Keys /\ store_of(k) = s
        /\ latest[k] \in Nat /\ n \in Nat /\ n <= LastIn(log, k)
        /\ latest[k] <= LastIn(log, k) /\ LastIn(log, k) \in Nat
        /\ work = Idle /\ rec = Idle
        /\ \A j \in Keys : ~ Current(j) /\ LastIn(log, j) # 0 =>
             \/ LastIn(log, j) = n /\ j = k
             \/ \E i \in DOMAIN queue'[store_of(j)] : queue'[store_of(j)][i] = LastIn(log, j)
    BY <1>1, ReceivedView
  <1>3. /\ UNCHANGED <<log, lagged, view, copy, ridx, rec>>
        /\ latest' = [latest EXCEPT ![k] = n]
        /\ seen' = seen_before \cup {n} /\ ~ (n < latest[k])
        /\ work' = [pc |-> IF s = "orders" THEN "lookup" ELSE "targets", n |-> n]
    BY DEF Take, caches, is_stale
  <1>4. latest \in [Keys -> 0..MaxCommits]
    BY DEF Typed, TypeOK
  <1>5. k \in Users <=> k \notin Orders
    BY <1>2, LogEntries
  <1> HIDE DEF n, k
  <1>6. work'.pc = (IF k \in Orders THEN "lookup" ELSE "targets") /\ work'.n = n
    BY <1>2, <1>3 DEF store_of
  <1>7. /\ \A j \in Keys : latest'[j] = IF j = k THEN n ELSE latest[j]
        /\ \A j \in Keys : j # k => (latest'[j] = LastIn(log, j) <=> latest[j] = LastIn(log, j))
        /\ latest[k] = LastIn(log, k) => n = LastIn(log, k)
    BY <1>2, <1>3, <1>4
  <1>8. Settled /\ Delivered /\ WorkHolds /\ IndexKnown /\ RecAlone /\ DeletedShown /\ ViewsShown /\ CopiesShown
    BY DEF Converging
  <1>9. work.pc = "idle"
    BY <1>2 DEF Idle
  <1>10. Settled' /\ IndexKnown' /\ RecAlone'
    BY <1>2, <1>3, <1>8 DEF Settled, IndexKnown, RecAlone
  <1>11. Delivered'
    <2>1. \A j \in Keys : latest'[j] <= LastIn(log, j)
      BY <1>2, <1>7, <1>8 DEF Delivered
    <2>2. ASSUME NEW j \in Keys, LastIn(log, j) # 0
          PROVE  \/ latest'[j] = LastIn(log, j)
                 \/ \E i \in DOMAIN queue'[store_of(j)] : queue'[store_of(j)][i] = LastIn(log, j)
      <3>1. CASE Current(j)
        BY <1>7, <3>1 DEF Current
      <3>2. CASE ~ Current(j)
        BY <1>2, <1>7, <2>2, <3>2
      <3> QED
        BY <3>1, <3>2
    <2>3. \A m \in seen' : m \in DOMAIN log /\ m <= latest'[log[m].key]
      <3>1. \A m \in seen : m \in DOMAIN log /\ m <= latest[log[m].key]
        BY <1>8 DEF Delivered
      <3>2. seen_before \subseteq seen
        BY DEF seen_before
      <3>3. \A m \in DOMAIN log : log[m].key \in Keys /\ m \in Nat
        BY LogEntries
      <3>4. \A j \in Keys : latest[j] \in Nat /\ latest'[j] \in Nat /\ latest[j] <= latest'[j]
        BY <1>2, <1>3, <1>4, <1>7
      <3>5. \A m \in seen : m <= latest'[log[m].key]
        BY <3>1, <3>3, <3>4
      <3>6. n <= latest'[log[n].key]
        BY <1>2, <1>7 DEF k
      <3> QED
        BY <1>2, <1>3, <3>1, <3>2, <3>5, <3>6
    <2> QED
      BY <1>3, <2>1, <2>2, <2>3 DEF Delivered, Current, store_of
  <1>12. WorkHolds'
    <2>1. work'.n = latest'[log[work'.n].key]
      BY <1>2, <1>6, <1>7 DEF k
    <2> QED
      BY <1>3, <1>6, <2>1 DEF WorkHolds
  <1>13. \A o \in Orders : Projected(o)' => o # k /\ Projected(o)
    <2> SUFFICES ASSUME NEW o \in Orders, Projected(o)' PROVE o # k /\ Projected(o)
      OBVIOUS
    <2>1. o \in Keys /\ latest'[o] = LastIn(log, o) /\ ~ WorksOn(o, {"lookup", "project"})'
      BY <1>3 DEF Projected, Current, Keys
    <2>2. o # k
      <3> SUFFICES ASSUME o = k PROVE FALSE
        OBVIOUS
      <3>1. n = LastIn(log, o) /\ work'.pc = "lookup" /\ work'.n = n
        BY <1>6, <1>7, <2>1
      <3> QED
        BY <1>3, <2>1, <3>1 DEF WorksOn
    <2>3. latest[o] = LastIn(log, o)
      BY <1>7, <2>1, <2>2
    <2> QED
      BY <1>9, <2>2, <2>3 DEF Projected, Current, WorksOn
  <1>14. DeletedShown'
    BY <1>3, <1>8, <1>9, <1>13 DEF DeletedShown, Rewrites
  <1>15. ViewsShown'
    <2> SUFFICES ASSUME NEW o \in Orders, NEW u \in Users,
                        Projected(o)', RowIn(log, o) # 0, log[RowIn(log, o)].user = u
                 PROVE  ViewOf(o, u)'
      BY <1>3 DEF ViewsShown
    <2>1. ViewOf(o, u)
      BY <1>2, <1>8, <1>13 DEF ViewsShown
    <2>2. u \in Keys
      BY DEF Keys
    <2>3. Good(o, u) => Good(o, u)'
      BY <1>3 DEF Good, NoView
    <2>4. Pending(o, u) => Pending(o, u)'
      <3> SUFFICES ASSUME Pending(o, u) PROVE Pending(o, u)'
        OBVIOUS
      <3>1. latest[u] # LastIn(log, u)
        BY <1>9 DEF Pending, Current, WorksOn
      <3>2. CASE u # k
        BY <1>3, <1>7, <2>2, <3>1, <3>2 DEF Pending, Current
      <3>3. CASE u = k
        <4>1. work'.pc = "targets" /\ work'.n = n /\ latest'[u] = n
          BY <1>5, <1>6, <1>7, <2>2, <3>3
        <4> QED
          BY <1>3, <4>1 DEF Pending, Current, WorksOn
      <3> QED
        BY <3>2, <3>3
    <2>5. work'.pc \notin {"dependents", "register"} /\ work.pc \notin {"dependents", "register"}
      BY <1>6, <1>9
    <2> QED
      BY <1>3, <2>1, <2>3, <2>4, <2>5 DEF ViewOf, WorksOn
  <1>16. CopiesShown'
    <2> SUFFICES ASSUME NEW u \in Users, RowIn(log, u) # 0, latest'[u] = LastIn(log, u),
                        ~ WorksOn(u, UserSteps)'
                 PROVE  copy[u] = RowIn(log, u)
      BY <1>3 DEF CopiesShown, Current
    <2>1. u \in Keys
      BY DEF Keys
    <2>2. u # k
      <3> SUFFICES ASSUME u = k PROVE FALSE
        OBVIOUS
      <3>1. n = LastIn(log, u) /\ work'.pc = "targets" /\ work'.n = n
        BY <1>5, <1>6, <1>7, <2>1
      <3> QED
        BY <1>3, <3>1 DEF WorksOn, UserSteps
    <2>3. Current(u) /\ ~ WorksOn(u, UserSteps)
      BY <1>7, <1>9, <2>1, <2>2 DEF Current, WorksOn, UserSteps
    <2> QED
      BY <1>8, <2>3 DEF CopiesShown
  <1> QED
    BY <1>10, <1>11, <1>12, <1>14, <1>15, <1>16 DEF Converging

\* What holds while the projector works on an event.
LEMMA WorkView ==
  ASSUME Typed, Converging, work # Idle
  PROVE  /\ rec = Idle
         /\ work.n \in DOMAIN log /\ work.n # 0 /\ work.n = latest[log[work.n].key]
         /\ \A k : LastIn(log, k) = work.n => k = log[work.n].key
         /\ log[work.n].user \in Users
         /\ \A o \in Orders : RowIn(log, o) # 0 /\ LastIn(log, o) = work.n
              => log[RowIn(log, o)].user = log[work.n].user
  <1>1. rec = Idle
    BY DEF Converging, RecAlone, Quiet
  <1>2. work.n \in DOMAIN log /\ work.n \in 1..MaxCommits /\ log[work.n].user \in Users
    BY WorkFacts
  <1>3. work.n = latest[log[work.n].key]
    BY DEF Converging, WorkHolds
  <1>4. \A k : LastIn(log, k) = work.n => k = log[work.n].key
    BY <1>2, LogView
  <1>5. \A o \in Orders : RowIn(log, o) # 0 => RowIn(log, o) = LastIn(log, o)
    BY LogView
  <1> QED
    BY <1>1, <1>2, <1>3, <1>4, <1>5

\* The parts that steps on the event of an order leave alone.
LEMMA OrderWorkFrame ==
  ASSUME Typed, Converging, UNCHANGED <<log, queue, seen, latest, copy, rec>>,
         work.pc \in OrderSteps, work'.pc \notin UserSteps, rec = Idle
  PROVE  Settled' /\ Delivered' /\ RecAlone' /\ CopiesShown'
  <1>1. Settled /\ Delivered /\ RecAlone /\ CopiesShown
    BY DEF Converging
  <1>2. work.pc \notin UserSteps
    BY DEF OrderSteps, UserSteps
  <1>3. Settled' /\ RecAlone'
    BY <1>1 DEF Settled, RecAlone
  <1>4. Delivered'
    BY <1>1 DEF Delivered, Current, store_of
  <1>5. CopiesShown'
    BY <1>1, <1>2 DEF CopiesShown, Current, WorksOn
  <1> QED
    BY <1>3, <1>4, <1>5

\* The user's row is read.
LEMMA ConvergingLookup ==
  ASSUME Typed, Calm, Converging, Lookup
  PROVE  Converging'
  <1>1. work.pc = "lookup" /\ work # Idle /\ work.pc \in OrderSteps
    BY DEF Lookup, Idle, OrderSteps
  <1>2. /\ rec = Idle /\ work.n \in DOMAIN log /\ work.n = latest[log[work.n].key]
        /\ log[work.n].user \in Users
    BY <1>1, WorkView
  <1>3. UNCHANGED <<log, queue, seen, latest, view, copy, ridx, rec>>
    BY DEF Lookup, caches
  <1>4. PICK e \in Entries(event.user) :
          /\ work' = [pc |-> "project", n |-> work.n, user |-> e]
          /\ Note(event.key, event.del \/ e = row(event.user))
    BY DEF Lookup
  <1>5. /\ work'.pc = "project" /\ work'.n = work.n /\ work'.user = e
        /\ log[work.n].del \/ log[work.n].key \in lagged' \/ e = RowIn(log, log[work.n].user)
        /\ \A o : o # log[work.n].key => (o \in lagged' <=> o \in lagged)
    <2>1. row(event.user) = RowIn(log, event.user)
      BY LogNames
    <2> QED
      BY <1>4, <2>1 DEF Note, event
  <1>6. Settled' /\ Delivered' /\ RecAlone' /\ CopiesShown'
    BY <1>1, <1>2, <1>3, <1>5, OrderWorkFrame DEF UserSteps
  <1>7. IndexKnown'
    BY <1>3 DEF Converging, IndexKnown
  <1>8. WorkHolds'
    BY <1>2, <1>3, <1>5 DEF WorkHolds
  <1>9. \A o \in Orders : Projected(o)' => Projected(o) /\ o # log[work.n].key
    BY <1>1, <1>2, <1>3, <1>5 DEF Projected, Current, WorksOn
  <1>10. DeletedShown'
    BY <1>1, <1>3, <1>5, <1>9 DEF Converging, DeletedShown, Rewrites
  <1>11. ViewsShown'
    <2> SUFFICES ASSUME NEW o \in Orders, NEW u \in Users,
                        Projected(o)', RowIn(log, o) # 0, log[RowIn(log, o)].user = u
                 PROVE  ViewOf(o, u)'
      BY <1>3 DEF ViewsShown
    <2>1. ViewOf(o, u)
      BY <1>2, <1>9 DEF Converging, ViewsShown
    <2>2. Good(o, u) => Good(o, u)'
      BY <1>3 DEF Good, NoView
    <2>3. Pending(o, u) => Pending(o, u)'
      BY <1>1, <1>3 DEF Pending, Current, WorksOn
    <2>4. ~ WorksOn(o, {"dependents", "register"}) /\ ~ WorksOn(o, {"dependents", "register"})'
      BY <1>1, <1>5 DEF WorksOn
    <2> QED
      BY <1>3, <1>5, <1>9, <2>1, <2>2, <2>3, <2>4 DEF ViewOf
  <1> QED
    BY <1>6, <1>7, <1>8, <1>10, <1>11 DEF Converging

\* The view is set, or deleted.
LEMMA ConvergingProject ==
  ASSUME Typed, Calm, Converging, Project
  PROVE  Converging'
  <1> DEFINE n == work.n
             k == log[n].key
             new == IF log[n].del THEN NoView ELSE [order |-> n, user |-> work.user]
  <1>1. work.pc = "project" /\ work # Idle /\ work.pc \in OrderSteps
    BY DEF Project, Idle, OrderSteps
  <1>2. /\ rec = Idle /\ n \in DOMAIN log /\ n # 0 /\ n = latest[k] /\ k \in Orders
        /\ log[n].user \in Users /\ log[n].del \in BOOLEAN
        /\ \A j : LastIn(log, j) = n => j = k
    BY <1>1, WorkView, WorkFacts
  <1>3. UNCHANGED <<log, lagged, queue, seen, latest, copy, ridx, rec>>
    BY DEF Project
  <1>4. view' = [view EXCEPT ![k] = new]
    <2>1. PICK r \in Store(new, view[k]) : view' = [view EXCEPT ![k] = r[1]]
      BY DEF Project, event
    <2> HIDE DEF new, k
    <2>2. r[1] = new
      BY CalmOutcome
    <2> QED
      BY <2>1, <2>2
  <1>5. (work' = Idle /\ log[n].del) \/ (~ log[n].del /\ work'.pc = "dependents" /\ work'.n = n)
    BY DEF Project, event
  <1>6. log[n].del \/ k \in lagged \/ work.user = RowIn(log, log[n].user) \/ ~ Current(log[n].user)
    BY <1>1 DEF Converging, WorkHolds
  <1>7. view \in [Orders -> [order : 0..MaxCommits, user : 0..MaxCommits]]
    BY DEF Typed, TypeOK
  <1>8. \A o \in Orders : view'[o] = IF o = k THEN new ELSE view[o]
    <2> HIDE DEF new, k
    <2> QED
      BY <1>2, <1>4, <1>7
  <1>9. work'.pc = "idle" \/ work'.pc = "dependents"
    BY <1>5 DEF Idle
  <1> HIDE DEF new, k
  <1>10. Settled' /\ Delivered' /\ RecAlone' /\ CopiesShown'
    BY <1>1, <1>2, <1>3, <1>9, OrderWorkFrame DEF UserSteps
  <1>11. IndexKnown'
    BY <1>3 DEF Converging, IndexKnown
  <1>12. WorkHolds'
    BY <1>2, <1>3, <1>5, <1>9 DEF WorkHolds, k
  <1>13. \A o \in Orders : Current(o) /\ o = k => LastIn(log, o) = n
    BY <1>2 DEF Current
  <1>14. \A o \in Orders : Projected(o)' => Current(o) /\ (o # k => Projected(o))
    BY <1>2, <1>3 DEF Projected, Current, WorksOn
  <1>15. DeletedShown'
    <2> SUFFICES ASSUME NEW o \in Orders, Projected(o)', RowIn(log, o) = 0
                 PROVE  view'[o].order = 0 \/ o \in lagged
      BY <1>3 DEF DeletedShown
    <2>1. CASE o # k
      BY <1>1, <1>8, <1>14, <2>1 DEF Converging, DeletedShown, Rewrites
    <2>2. CASE o = k
      <3>1. LastIn(log, o) = n
        BY <1>13, <1>14, <2>2
      <3>2. log[n].del
        BY <1>2, <3>1, LogView
      <3> QED
        BY <1>8, <2>2, <3>2 DEF new, NoView
    <2> QED
      BY <2>1, <2>2
  <1>16. ViewsShown'
    <2> SUFFICES ASSUME NEW o \in Orders, NEW u \in Users,
                        Projected(o)', RowIn(log, o) # 0, log[RowIn(log, o)].user = u
                 PROVE  ViewOf(o, u)'
      BY <1>3 DEF ViewsShown
    <2>1. CASE o # k
      <3>1. ViewOf(o, u)
        BY <1>2, <1>14, <2>1 DEF Converging, ViewsShown
      <3>2. Good(o, u) => Good(o, u)'
        BY <1>3, <1>8, <2>1 DEF Good, NoView
      <3>3. Pending(o, u) => Pending(o, u)'
        BY <1>1, <1>3 DEF Pending, Current, WorksOn
      <3>4. LastIn(log, o) # n
        BY <1>2, <2>1
      <3>5. ~ WorksOn(o, {"dependents", "register"}) /\ ~ WorksOn(o, {"dependents", "register"})'
        BY <1>1, <1>3, <1>5, <1>9, <3>4 DEF WorksOn, Idle
      <3>6. view'[o] = view[o]
        BY <1>8, <2>1
      <3> QED
        BY <1>3, <3>1, <3>2, <3>3, <3>5, <3>6 DEF ViewOf
    <2>2. CASE o = k
      <3>1. LastIn(log, o) = n
        BY <1>13, <1>14, <2>2
      <3>2. RowIn(log, o) = n
        BY <3>1, LogView
      <3>3. u = log[n].user /\ ~ log[n].del
        <4>1. log[n].del => RowIn(log, o) = 0
          BY <1>2, <3>1, LogView
        <4> QED
          BY <3>2, <4>1
      <3>4. WorksOn(o, {"dependents", "register"})'
        BY <1>3, <1>5, <3>1, <3>3 DEF WorksOn
      <3>5. view'[o] = [order |-> n, user |-> work.user]
        BY <1>8, <2>2, <3>3 DEF new
      <3>6. Good(o, u)' \/ Pending(o, u)' \/ o \in lagged'
        <4>1. CASE work.user = RowIn(log, u)
          <5>1. view'[o] = JoinIn(log, o)
            BY <3>2, <3>3, <3>5, <4>1 DEF JoinIn
          <5> QED
            BY <1>3, <5>1 DEF Good
        <4>2. CASE ~ Current(u)
          BY <1>3, <4>2 DEF Pending, Current
        <4> QED
          BY <1>3, <1>6, <2>2, <3>3, <4>1, <4>2
      <3> QED
        BY <1>3, <3>2, <3>4, <3>5, <3>6 DEF ViewOf
    <2> QED
      BY <2>1, <2>2
  <1> QED
    BY <1>10, <1>11, <1>12, <1>15, <1>16 DEF Converging

\* The list of dependents is read.
LEMMA ConvergingDependents ==
  ASSUME Typed, Calm, Converging, ReadDependents
  PROVE  Converging'
  <1> DEFINE n == work.n
             k == log[n].key
             v == log[n].user
  <1>1. work.pc = "dependents" /\ work # Idle /\ work.pc \in OrderSteps
    BY DEF ReadDependents, Idle, OrderSteps
  <1>2. /\ rec = Idle /\ n \in DOMAIN log /\ n # 0 /\ n = latest[k] /\ k \in Orders /\ v \in Users
        /\ \A j : LastIn(log, j) = n => j = k
        /\ \A o \in Orders : RowIn(log, o) # 0 /\ LastIn(log, o) = n => log[RowIn(log, o)].user = v
    BY <1>1, WorkView, WorkFacts
  <1>3. UNCHANGED <<log, lagged, queue, seen, latest, view, copy, ridx, rec>>
    BY DEF ReadDependents, caches
  <1>4. work' = IF k \in ridx[v] \/ Cardinality(ridx[v]) >= MaxDependents
                  THEN Idle ELSE [pc |-> "register", n |-> n, targets |-> ridx[v]]
    <2>1. PICK r \in Store(ridx[v], {}) :
            work' = IF k \in r[1] \/ Cardinality(r[1]) >= MaxDependents
                      THEN Idle ELSE [pc |-> "register", n |-> n, targets |-> r[1]]
      BY DEF ReadDependents, event
    <2> HIDE DEF v, k, n
    <2>2. r[1] = ridx[v]
      BY CalmOutcome
    <2> QED
      BY <2>1, <2>2
  <1>5. Cardinality(ridx[v]) \in Nat /\ Cardinality(ridx[v]) <= MaxDependents /\ MaxDependents \in Nat
    <2>1. IsFiniteSet(ridx[v]) /\ Cardinality(ridx[v]) <= MaxDependents
      BY <1>2 DEF Typed, TypeOK, CountType
    <2> QED
      BY <2>1, FS_CardinalityType, ReadModelConstants
  <1>6. \/ work' = Idle /\ (k \in ridx[v] \/ Cardinality(ridx[v]) = MaxDependents)
        \/ work'.pc = "register" /\ work'.n = n /\ work'.targets = ridx[v]
    <2> HIDE DEF v, k, n
    <2> QED
      BY <1>4, <1>5
  <1>7. work'.pc = "idle" \/ work'.pc = "register"
    BY <1>6 DEF Idle
  <1>8. Settled' /\ Delivered' /\ RecAlone' /\ CopiesShown'
    BY <1>1, <1>2, <1>3, <1>7, OrderWorkFrame DEF UserSteps
  <1>9. IndexKnown'
    BY <1>3 DEF Converging, IndexKnown
  <1>10. WorkHolds'
    BY <1>2, <1>3, <1>6, <1>7 DEF WorkHolds, Idle
  <1>11. \A o \in Orders : Projected(o)' => Projected(o)
    BY <1>1, <1>3 DEF Projected, Current, WorksOn
  <1>12. DeletedShown'
    BY <1>1, <1>3, <1>11 DEF Converging, DeletedShown, Rewrites
  <1>13. ViewsShown'
    <2> SUFFICES ASSUME NEW o \in Orders, NEW u \in Users,
                        Projected(o)', RowIn(log, o) # 0, log[RowIn(log, o)].user = u
                 PROVE  ViewOf(o, u)'
      BY <1>3 DEF ViewsShown
    <2>1. ViewOf(o, u)
      BY <1>2, <1>11 DEF Converging, ViewsShown
    <2>2. Good(o, u) => Good(o, u)'
      BY <1>3 DEF Good, NoView
    <2>3. Pending(o, u) => Pending(o, u)'
      BY <1>1, <1>3 DEF Pending, Current, WorksOn
    <2>4. WorksOn(o, {"dependents", "register"})' => WorksOn(o, {"dependents", "register"})
      BY <1>1, <1>3, <1>6, <1>7 DEF WorksOn, Idle
    <2>5. WorksOn(o, {"dependents", "register"}) =>
            \/ WorksOn(o, {"dependents", "register"})'
            \/ o \in ridx[u] \/ Cardinality(ridx[u]) = MaxDependents
      <3> SUFFICES ASSUME WorksOn(o, {"dependents", "register"}), work' = Idle
                   PROVE  o \in ridx[u] \/ Cardinality(ridx[u]) = MaxDependents
        BY <1>3, <1>6 DEF WorksOn
      <3>1. o = k /\ u = v
        BY <1>2 DEF WorksOn
      <3> QED
        BY <1>6, <3>1 DEF Idle
    <2> QED
      BY <1>3, <2>1, <2>2, <2>3, <2>4, <2>5 DEF ViewOf
  <1> QED
    BY <1>8, <1>9, <1>10, <1>12, <1>13 DEF Converging

\* The order is registered with its user.
LEMMA ConvergingRegister ==
  ASSUME Typed, Calm, Converging, Register
  PROVE  Converging'
  <1> DEFINE n == work.n
             k == log[n].key
             v == log[n].user
  <1>1. work.pc = "register" /\ work # Idle /\ work.pc \in OrderSteps
    BY DEF Register, Idle, OrderSteps
  <1>2. /\ rec = Idle /\ n \in DOMAIN log /\ n # 0 /\ n = latest[k] /\ k \in Orders /\ v \in Users
        /\ \A j : LastIn(log, j) = n => j = k
        /\ \A o \in Orders : RowIn(log, o) # 0 /\ LastIn(log, o) = n => log[RowIn(log, o)].user = v
    BY <1>1, WorkView, WorkFacts
  <1>3. UNCHANGED <<log, lagged, queue, seen, latest, view, copy, rec>> /\ work' = Idle
    BY DEF Register
  <1>4. work.targets = ridx[v]
    BY <1>1 DEF Converging, WorkHolds
  <1>5. ridx' = [ridx EXCEPT ![v] = ridx[v] \cup {k}]
    <2>1. PICK r \in Store(work.targets \cup {k}, ridx[v]) : ridx' = [ridx EXCEPT ![v] = r[1]]
      BY DEF Register, event
    <2> HIDE DEF v, k
    <2>2. r[1] = work.targets \cup {k}
      BY CalmOutcome
    <2> QED
      BY <1>4, <2>1, <2>2
  <1>6. ridx \in [Users -> SUBSET Orders] /\ Cardinality(ridx[v]) # MaxDependents
    <2>1. /\ Cardinality(work.targets) < MaxDependents /\ IsFiniteSet(work.targets)
          /\ ridx \in [Users -> SUBSET Orders]
      BY <1>1 DEF Typed, TypeOK, WorkType
    <2>2. Cardinality(work.targets) \in Nat
      BY <2>1, FS_CardinalityType
    <2> QED
      BY <1>4, <2>1, <2>2, ReadModelConstants
  <1>7. \A u \in Users : ridx'[u] = IF u = v THEN ridx[u] \cup {k} ELSE ridx[u]
    <2> HIDE DEF v, k
    <2> QED
      BY <1>2, <1>5, <1>6
  <1>8. work'.pc = "idle"
    BY <1>3 DEF Idle
  <1>9. Settled' /\ Delivered' /\ RecAlone' /\ CopiesShown'
    BY <1>1, <1>2, <1>3, <1>8, OrderWorkFrame DEF UserSteps
  <1>10. IndexKnown'
    <2>1. \A u \in Users : \A o \in ridx'[u] : \E m \in DOMAIN log : log[m].key = o /\ log[m].user = u
      <3> SUFFICES ASSUME NEW u \in Users, NEW o \in ridx'[u]
                   PROVE  \E m \in DOMAIN log : log[m].key = o /\ log[m].user = u
        OBVIOUS
      <3>1. CASE o \in ridx[u]
        BY <3>1 DEF Converging, IndexKnown
      <3>2. CASE u = v /\ o = k
        BY <1>2, <3>2
      <3> QED
        BY <1>7, <3>1, <3>2
    <2> QED
      BY <1>3, <2>1 DEF IndexKnown
  <1>11. WorkHolds'
    BY <1>3, <1>8 DEF WorkHolds, Idle
  <1>12. \A o \in Orders : Projected(o)' => Projected(o)
    BY <1>1, <1>3 DEF Projected, Current, WorksOn
  <1>13. DeletedShown'
    BY <1>1, <1>3, <1>12 DEF Converging, DeletedShown, Rewrites
  <1>14. ViewsShown'
    <2> SUFFICES ASSUME NEW o \in Orders, NEW u \in Users,
                        Projected(o)', RowIn(log, o) # 0, log[RowIn(log, o)].user = u
                 PROVE  ViewOf(o, u)'
      BY <1>3 DEF ViewsShown
    <2>1. ViewOf(o, u) /\ Current(o)
      BY <1>2, <1>12 DEF Converging, ViewsShown, Projected
    <2>2. Good(o, u) => Good(o, u)'
      BY <1>3 DEF Good, NoView
    <2>3. Pending(o, u) => Pending(o, u)'
      BY <1>1, <1>3 DEF Pending, Current, WorksOn
    <2>4. ~ WorksOn(o, {"dependents", "register"})'
      BY <1>8 DEF WorksOn
    <2>5. o = k => WorksOn(o, {"dependents", "register"})
      BY <1>1, <1>2, <2>1 DEF WorksOn, Current
    <2>6. o \in ridx'[u] \/ Cardinality(ridx'[u]) = MaxDependents
      <3>1. CASE o \in ridx[u]
        BY <1>7, <3>1
      <3>2. CASE WorksOn(o, {"dependents", "register"})
        <4>1. o = k /\ u = v
          BY <1>2, <3>2 DEF WorksOn
        <4> QED
          BY <1>7, <4>1
      <3>3. CASE Cardinality(ridx[u]) = MaxDependents
        BY <1>6, <1>7, <3>3
      <3> QED
        BY <2>1, <3>1, <3>2, <3>3 DEF ViewOf
    <2>7. o \in ridx'[u] => o \in ridx[u] \/ WorksOn(o, {"dependents", "register"})
      BY <1>7, <2>5
    <2>8. o \notin ridx'[u] => o \notin ridx[u]
      BY <1>7
    <2> QED
      BY <1>3, <2>1, <2>2, <2>3, <2>4, <2>6, <2>7, <2>8 DEF ViewOf
  <1> QED
    BY <1>9, <1>10, <1>11, <1>13, <1>14 DEF Converging

\* The parts that steps on the event of a user leave alone, and the views as long as
\* none is written and none is forgotten.
LEMMA UserWorkFrame ==
  ASSUME Typed, Converging, UNCHANGED <<log, queue, seen, latest, ridx, rec>>,
         work.pc \in UserSteps, work'.pc \notin OrderSteps, rec = Idle
  PROVE  /\ Settled' /\ Delivered' /\ RecAlone' /\ IndexKnown'
         /\ \A o \in Orders : Projected(o)' => Projected(o) /\ Current(o)
         /\ \A o \in Orders : /\ ~ WorksOn(o, {"dependents", "register"})
                              /\ ~ WorksOn(o, {"dependents", "register"})'
  <1>1. Settled /\ Delivered /\ RecAlone /\ IndexKnown
    BY DEF Converging
  <1>2. work.pc \notin OrderSteps
    BY DEF OrderSteps, UserSteps
  <1>3. Settled' /\ RecAlone' /\ IndexKnown'
    BY <1>1 DEF Settled, RecAlone, IndexKnown
  <1>4. Delivered'
    BY <1>1 DEF Delivered, Current, store_of
  <1>5. \A o \in Orders : Projected(o)' => Projected(o) /\ Current(o)
    BY <1>2 DEF Projected, Current, WorksOn, OrderSteps
  <1>6. \A o \in Orders : /\ ~ WorksOn(o, {"dependents", "register"})
                          /\ ~ WorksOn(o, {"dependents", "register"})'
    BY <1>2 DEF WorksOn, OrderSteps
  <1> QED
    BY <1>3, <1>4, <1>5, <1>6

\* The list of dependents is read, and the row of one of them.
LEMMA ConvergingTargets ==
  ASSUME Typed, Calm, Converging, ReadTargets \/ \E o \in Orders : ReadTarget(o)
  PROVE  Converging'
  <1> DEFINE n == work.n
             v == log[n].key
  <1>1. work # Idle /\ work.pc \in UserSteps
    BY DEF ReadTargets, ReadTarget, Idle, UserSteps
  <1>2. /\ rec = Idle /\ n \in DOMAIN log /\ n # 0 /\ n = latest[v] /\ v \in Users
        /\ \A j : LastIn(log, j) = n => j = v
    BY <1>1, WorkView, WorkFacts
  <1>3. UNCHANGED <<log, queue, seen, latest, view, copy, ridx, rec>>
    BY DEF ReadTargets, ReadTarget, caches
  <1>4. CASE ReadTargets
    <2>1. work.pc = "targets" /\ lagged' = lagged
      BY <1>4 DEF ReadTargets, caches
    <2>2. work' = [pc |-> "refresh", n |-> n, targets |-> ridx[v]]
      <3>1. PICK r \in Store(ridx[v], {}) : work' = [pc |-> "refresh", n |-> n, targets |-> r[1]]
        BY <1>4 DEF ReadTargets, event
      <3> HIDE DEF v, n
      <3>2. r[1] = ridx[v]
        BY CalmOutcome
      <3> QED
        BY <3>1, <3>2
    <2>3. work'.pc = "refresh" /\ work'.n = n /\ work'.targets = ridx[v]
      BY <2>2
    <2>4. /\ Settled' /\ Delivered' /\ RecAlone' /\ IndexKnown'
          /\ \A o \in Orders : Projected(o)' => Projected(o) /\ Current(o)
          /\ \A o \in Orders : /\ ~ WorksOn(o, {"dependents", "register"})
                               /\ ~ WorksOn(o, {"dependents", "register"})'
      BY <1>1, <1>2, <1>3, <2>3, UserWorkFrame DEF OrderSteps
    <2>5. WorkHolds'
      BY <1>2, <1>3, <2>3 DEF WorkHolds
    <2>6. DeletedShown'
      BY <1>3, <2>1, <2>4 DEF Converging, DeletedShown, Rewrites
    <2>7. CopiesShown'
      BY <1>1, <1>3, <2>3 DEF Converging, CopiesShown, Current, WorksOn, UserSteps
    <2>8. ViewsShown'
      <3> SUFFICES ASSUME NEW o \in Orders, NEW u \in Users,
                          Projected(o)', RowIn(log, o) # 0, log[RowIn(log, o)].user = u
                   PROVE  ViewOf(o, u)'
        BY <1>3 DEF ViewsShown
      <3>1. ViewOf(o, u)
        BY <1>2, <2>4 DEF Converging, ViewsShown
      <3>2. Good(o, u) => Good(o, u)'
        BY <1>3 DEF Good, NoView
      <3>3. o \in ridx[u] /\ Pending(o, u) => Pending(o, u)'
        <4> SUFFICES ASSUME o \in ridx[u], WorksOn(u, {"targets"}) PROVE Pending(o, u)'
          BY <1>3, <2>1 DEF Pending, Current, WorksOn
        <4>1. u = v /\ LastIn(log, u) = n
          BY <1>2 DEF WorksOn
        <4> QED
          BY <1>3, <2>3, <4>1 DEF Pending, WorksOn
      <3> QED
        BY <1>3, <2>1, <2>4, <3>1, <3>2, <3>3 DEF ViewOf
    <2> QED
      BY <2>4, <2>5, <2>6, <2>7, <2>8 DEF Converging
  <1>5. ASSUME NEW p \in Orders, ReadTarget(p) PROVE Converging'
    <2>1. work.pc = "refresh" /\ p \in work.targets
      BY <1>5 DEF ReadTarget
    <2>2. PICK e :
            /\ work' = [pc |-> "rewrite", n |-> n, targets |-> work.targets \ {p},
                        key |-> p, order |-> e]
            /\ Note(p, log[n].del \/ e = row(p))
      BY <1>5 DEF ReadTarget, event
    <2>3. /\ log[n].del \/ p \in lagged' \/ e = RowIn(log, p)
          /\ \A o : o # p => (o \in lagged' <=> o \in lagged)
      <3>1. row(p) = RowIn(log, p)
        BY LogNames
      <3> QED
        BY <2>2, <3>1 DEF Note
    <2>4. /\ work'.pc = "rewrite" /\ work'.n = n /\ work'.targets = work.targets \ {p}
          /\ work'.key = p /\ work'.order = e
      BY <2>2
    <2>5. /\ Settled' /\ Delivered' /\ RecAlone' /\ IndexKnown'
          /\ \A o \in Orders : Projected(o)' => Projected(o) /\ Current(o)
          /\ \A o \in Orders : /\ ~ WorksOn(o, {"dependents", "register"})
                               /\ ~ WorksOn(o, {"dependents", "register"})'
      BY <1>1, <1>2, <1>3, <2>4, UserWorkFrame DEF OrderSteps
    <2>6. work.targets \subseteq ridx[v]
      BY <2>1 DEF Converging, WorkHolds
    <2>7. WorkHolds'
      BY <1>2, <1>3, <2>1, <2>3, <2>4, <2>6 DEF WorkHolds
    <2>8. DeletedShown'
      BY <1>3, <2>1, <2>3, <2>4, <2>5 DEF Converging, DeletedShown, Rewrites
    <2>9. CopiesShown'
      BY <1>1, <1>3, <2>4 DEF Converging, CopiesShown, Current, WorksOn, UserSteps
    <2>10. ViewsShown'
      <3> SUFFICES ASSUME NEW o \in Orders, NEW u \in Users,
                          Projected(o)', RowIn(log, o) # 0, log[RowIn(log, o)].user = u
                   PROVE  ViewOf(o, u)'
        BY <1>3 DEF ViewsShown
      <3>1. ViewOf(o, u)
        BY <1>2, <2>5 DEF Converging, ViewsShown
      <3>2. Good(o, u) => Good(o, u)'
        BY <1>3 DEF Good, NoView
      <3>3. Pending(o, u) => Pending(o, u)'
        BY <1>3, <2>1, <2>4 DEF Pending, Current, WorksOn
      <3>4. o = p => Pending(o, u)'
        <4> SUFFICES ASSUME o = p PROVE Pending(o, u)'
          OBVIOUS
        <4>1. u = v
          <5>1. PICK m \in DOMAIN log : log[m].key = o /\ log[m].user = v
            BY <1>2, <2>1, <2>6 DEF Converging, IndexKnown
          <5>2. log[m].user = log[RowIn(log, o)].user
            BY <5>1, OrderView DEF Converging
          <5> QED
            BY <5>1, <5>2
        <4> QED
          BY <1>2, <1>3, <2>4, <4>1 DEF Pending, Current, WorksOn
      <3> QED
        BY <1>3, <2>3, <2>5, <3>1, <3>2, <3>3, <3>4 DEF ViewOf
    <2> QED
      BY <2>5, <2>7, <2>8, <2>9, <2>10 DEF Converging
  <1> QED
    BY <1>4, <1>5

\* The view of a dependent is rewritten.
LEMMA ConvergingRewrite ==
  ASSUME Typed, Calm, Converging, RewriteTarget
  PROVE  Converging'
  <1> DEFINE n == work.n
             v == log[n].key
             p == work.key
             new == IF log[n].del THEN NoView ELSE [order |-> work.order, user |-> n]
  <1>1. work.pc = "rewrite" /\ work # Idle /\ work.pc \in UserSteps
    BY DEF RewriteTarget, Idle, UserSteps
  <1>2. /\ rec = Idle /\ n \in DOMAIN log /\ n # 0 /\ n = latest[v] /\ v \in Users
        /\ log[n].del \in BOOLEAN
        /\ \A j : LastIn(log, j) = n => j = v
    BY <1>1, WorkView, WorkFacts
  <1>3. UNCHANGED <<log, lagged, queue, seen, latest, copy, ridx, rec>>
    BY DEF RewriteTarget
  <1>4. /\ p \in Orders /\ work.targets \subseteq ridx[v] /\ p \in ridx[v]
        /\ log[n].del \/ p \in lagged \/ work.order = RowIn(log, p) \/ ~ Current(p)
    BY <1>1 DEF Converging, WorkHolds, Typed, WorkType
  <1>5. view' = [view EXCEPT ![p] = new]
    <2>1. PICK r \in Store(new, view[p]) : view' = [view EXCEPT ![p] = r[1]]
      BY DEF RewriteTarget, event
    <2> HIDE DEF new, p
    <2>2. r[1] = new
      BY CalmOutcome
    <2> QED
      BY <2>1, <2>2
  <1>6. view \in [Orders -> [order : 0..MaxCommits, user : 0..MaxCommits]]
    BY DEF Typed, TypeOK
  <1>7. \A o \in Orders : view'[o] = IF o = p THEN new ELSE view[o]
    <2> HIDE DEF new, p
    <2> QED
      BY <1>4, <1>5, <1>6
  <1>8. work'.pc = "refresh" /\ work'.n = n /\ work'.targets = work.targets
    BY DEF RewriteTarget
  <1> HIDE DEF new
  <1>9. /\ Settled' /\ Delivered' /\ RecAlone' /\ IndexKnown'
        /\ \A o \in Orders : Projected(o)' => Projected(o) /\ Current(o)
        /\ \A o \in Orders : /\ ~ WorksOn(o, {"dependents", "register"})
                             /\ ~ WorksOn(o, {"dependents", "register"})'
    BY <1>1, <1>2, <1>3, <1>8, UserWorkFrame DEF OrderSteps
  <1>10. WorkHolds'
    BY <1>2, <1>3, <1>4, <1>8 DEF WorkHolds
  <1>11. DeletedShown'
    <2> SUFFICES ASSUME NEW o \in Orders, Projected(o)', RowIn(log, o) = 0
                 PROVE  view'[o].order = 0 \/ o \in lagged
      BY <1>3 DEF DeletedShown
    <2>1. CASE o # p
      BY <1>7, <1>9, <2>1 DEF Converging, DeletedShown, Rewrites
    <2>2. CASE o = p
      <3>1. log[n].del \/ work.order = 0 \/ o \in lagged
        BY <1>4, <1>9, <2>2
      <3> QED
        BY <1>7, <2>2, <3>1 DEF new, NoView
    <2> QED
      BY <2>1, <2>2
  <1>12. CopiesShown'
    BY <1>1, <1>3, <1>8 DEF Converging, CopiesShown, Current, WorksOn, UserSteps
  <1>13. ViewsShown'
    <2> SUFFICES ASSUME NEW o \in Orders, NEW u \in Users,
                        Projected(o)', RowIn(log, o) # 0, log[RowIn(log, o)].user = u
                 PROVE  ViewOf(o, u)'
      BY <1>3 DEF ViewsShown
    <2>1. ViewOf(o, u)
      BY <1>2, <1>9 DEF Converging, ViewsShown
    <2>2. CASE o # p
      <3>1. view'[o] = view[o]
        BY <1>7, <2>2
      <3>2. Good(o, u) => Good(o, u)'
        BY <1>3, <3>1 DEF Good, NoView
      <3>3. Pending(o, u) => Pending(o, u)'
        BY <1>1, <1>3, <1>8, <2>2 DEF Pending, Current, WorksOn
      <3> QED
        BY <1>3, <1>9, <2>1, <3>1, <3>2, <3>3 DEF ViewOf
    <2>3. CASE o = p
      <3>1. u = v
        <4>1. PICK m \in DOMAIN log : log[m].key = o /\ log[m].user = v
          BY <1>2, <1>4, <2>3 DEF Converging, IndexKnown
        <4>2. log[m].user = log[RowIn(log, o)].user
          BY <4>1, OrderView DEF Converging
        <4> QED
          BY <4>1, <4>2
      <3>2. Current(u) => Good(o, u)' \/ o \in lagged'
        <4> SUFFICES ASSUME Current(u), o \notin lagged PROVE Good(o, u)'
          BY <1>3
        <4>1. LastIn(log, u) = n
          BY <1>2, <3>1 DEF Current
        <4>2. CASE log[n].del
          <5>1. RowIn(log, u) = 0
            BY <1>2, <4>1, <4>2, LogView
          <5>2. view'[o] = NoView
            BY <1>7, <2>3, <4>2 DEF new
          <5> QED
            BY <1>3, <5>1, <5>2 DEF Good, NoView
        <4>3. CASE ~ log[n].del
          <5>1. RowIn(log, u) = n
            BY <1>2, <4>1, <4>3, LogView
          <5>2. work.order = RowIn(log, o)
            BY <1>4, <1>9, <2>3, <4>3
          <5>3. view'[o] = JoinIn(log, o)
            BY <1>7, <2>3, <4>3, <5>1, <5>2 DEF new, JoinIn
          <5> QED
            BY <1>3, <5>3 DEF Good
        <4> QED
          BY <4>2, <4>3
      <3>3. ~ Current(u) => Pending(o, u)'
        BY <1>3 DEF Pending, Current
      <3>4. o \in ridx'[u]
        BY <1>3, <1>4, <2>3, <3>1
      <3> QED
        BY <3>2, <3>3, <3>4 DEF ViewOf
    <2> QED
      BY <2>2, <2>3
  <1> QED
    BY <1>9, <1>10, <1>11, <1>12, <1>13 DEF Converging

\* The user is copied, which ends the work on its event.
LEMMA ConvergingMaterialize ==
  ASSUME Typed, Calm, Converging, Materialize
  PROVE  Converging'
  <1> DEFINE n == work.n
             v == log[n].key
             new == IF log[n].del THEN copy[v] ELSE n
  <1>1. work.pc = "refresh" /\ work.targets = {} /\ work # Idle /\ work.pc \in UserSteps
    BY DEF Materialize, Idle, UserSteps
  <1>2. /\ rec = Idle /\ n \in DOMAIN log /\ n # 0 /\ n = latest[v] /\ v \in Users
        /\ \A j : LastIn(log, j) = n => j = v
    BY <1>1, WorkView, WorkFacts
  <1>3. UNCHANGED <<log, lagged, queue, seen, latest, view, ridx, rec>> /\ work' = Idle
    BY DEF Materialize
  <1>4. copy' = [copy EXCEPT ![v] = new]
    <2>1. PICK r \in Store(new, copy[v]) : copy' = [copy EXCEPT ![v] = r[1]]
      BY DEF Materialize, event
    <2> HIDE DEF new, v
    <2>2. r[1] = new
      BY CalmOutcome
    <2> QED
      BY <2>1, <2>2
  <1>5. copy \in [Users -> 0..MaxCommits] /\ work'.pc = "idle"
    BY <1>3 DEF Typed, TypeOK, Idle
  <1>6. /\ Settled' /\ Delivered' /\ RecAlone' /\ IndexKnown'
        /\ \A o \in Orders : Projected(o)' => Projected(o) /\ Current(o)
        /\ \A o \in Orders : /\ ~ WorksOn(o, {"dependents", "register"})
                             /\ ~ WorksOn(o, {"dependents", "register"})'
    BY <1>1, <1>2, <1>3, <1>5, UserWorkFrame DEF OrderSteps
  <1>7. WorkHolds'
    BY <1>3, <1>5 DEF WorkHolds, Idle
  <1>8. DeletedShown'
    BY <1>1, <1>3, <1>6 DEF Converging, DeletedShown, Rewrites
  <1>9. CopiesShown'
    <2> SUFFICES ASSUME NEW u \in Users, RowIn(log, u) # 0, Current(u)
                 PROVE  copy'[u] = RowIn(log, u)
      BY <1>3 DEF CopiesShown, Current
    <2>1. CASE u = v
      <3>1. LastIn(log, u) = n /\ RowIn(log, u) = n
        BY <1>2, <2>1, LogView DEF Current
      <3>2. ~ log[n].del
        BY <1>2, <3>1, LogView
      <3> QED
        BY <1>2, <1>4, <1>5, <2>1, <3>1, <3>2
    <2>2. CASE u # v
      <3>1. ~ WorksOn(u, UserSteps)
        BY <1>2, <2>2 DEF WorksOn
      <3>2. copy[u] = RowIn(log, u)
        BY <3>1 DEF Converging, CopiesShown
      <3> HIDE DEF new, v
      <3> QED
        BY <1>2, <1>4, <1>5, <2>2, <3>2
    <2> QED
      BY <2>1, <2>2
  <1>10. ViewsShown'
    <2> SUFFICES ASSUME NEW o \in Orders, NEW u \in Users,
                        Projected(o)', RowIn(log, o) # 0, log[RowIn(log, o)].user = u
                 PROVE  ViewOf(o, u)'
      BY <1>3 DEF ViewsShown
    <2>1. ViewOf(o, u)
      BY <1>2, <1>6 DEF Converging, ViewsShown
    <2>2. Good(o, u) => Good(o, u)'
      BY <1>3 DEF Good, NoView
    <2>3. Pending(o, u) => Pending(o, u)'
      BY <1>1, <1>3 DEF Pending, Current, WorksOn
    <2> QED
      BY <1>3, <1>6, <2>1, <2>2, <2>3 DEF ViewOf
  <1> QED
    BY <1>6, <1>7, <1>8, <1>9, <1>10 DEF Converging

\* The reconciler works alone, and ends with every view and copy right.
LEMMA ConvergingRec ==
  ASSUME RecInv, Calm, Converging, RecSteps
  PROVE  Converging'
  <1>1. Typed /\ RunHolds
    BY DEF RecInv
  <1>2. ~ KillReconciler /\ ~ SelectFails
    BY DEF KillReconciler, SelectFails, Lossy, Calm
  <1>3. Quiet /\ (rec # Idle => rec.mark = mark /\ RunFacts)
    <2>1. CASE rec # Idle
      BY <1>1, <2>1 DEF Converging, RecAlone, RunHolds
    <2>2. CASE rec = Idle
      <3>1. DropIndex
        BY <1>2, <2>2 DEF RecSteps, SelectOrders, SelectUsers, RebuildIndex, EnterOrder, RebuildView,
                          SelectCopies, RebuildCopy, EndRun, Idle
      <3> QED
        BY <2>2, <3>1 DEF DropIndex, Calm
    <2> QED
      BY <2>1, <2>2
  <1>4. UNCHANGED <<log, queue, seen, latest, work, resends>>
    BY DEF RecSteps, DropIndex, SelectOrders, SelectUsers, SelectFails, RebuildIndex, EnterOrder,
           RebuildView, SelectCopies, RebuildCopy, EndRun, KillReconciler, caches, projector, bounds
  <1>5. losses' = losses
    <2>1. ASSUME NEW new, NEW old, \E r \in Store(new, old) : losses' = r[2] PROVE losses' = losses
      BY <2>1, CalmOutcome
    <2>2. ASSUME NEW keys, \E r \in Selection(keys) : losses' = r[2] PROVE losses' = losses
      <3>1. ~ Lossy
        BY DEF Lossy, Calm
      <3> QED
        BY <2>2, <3>1, SelectionOutcome
    <2>3. ASSUME DropIndex PROVE losses' = losses
      BY <2>1, <2>3 DEF DropIndex
    <2>4. ASSUME NEW n \in 1..MaxCommits, RebuildIndex(n) PROVE losses' = losses
      BY <2>1, <2>4 DEF RebuildIndex
    <2>5. ASSUME EnterOrder PROVE losses' = losses
      BY <2>1, <2>5 DEF EnterOrder
    <2>6. ASSUME RebuildView PROVE losses' = losses
      BY <2>1, <2>6 DEF RebuildView
    <2>7. ASSUME NEW n \in 1..MaxCommits, RebuildCopy(n) PROVE losses' = losses
      BY <2>1, <2>7 DEF RebuildCopy
    <2>8. ASSUME SelectOrders \/ SelectUsers \/ SelectCopies PROVE losses' = losses
      BY <2>2, <2>8 DEF SelectOrders, SelectUsers, SelectCopies
    <2>9. ASSUME EndRun PROVE losses' = losses
      BY <2>9 DEF EndRun, bounds
    <2> QED
      BY <1>2, <2>3, <2>4, <2>5, <2>6, <2>7, <2>8, <2>9 DEF RecSteps
  <1>6. mark' = mark
    BY <1>4, <1>5 DEF mark
  <1>7. work = Idle /\ work.pc = "idle" /\ Quiet'
    BY <1>3, <1>4 DEF Quiet, Idle, Stores
  <1>8. Settled /\ Delivered /\ WorkHolds /\ IndexKnown /\ RecAlone /\ DeletedShown /\ ViewsShown /\ CopiesShown
    BY DEF Converging
  <1>9. Settled' /\ WorkHolds'
    BY <1>4, <1>7, <1>8 DEF Settled, WorkHolds
  <1>10. Delivered'
    BY <1>4, <1>8 DEF Delivered, Current, store_of
  <1>11. Next
    BY DEF RecSteps, Next
  <1>12. /\ \/ rec' = rec
            \/ rec' = Idle
            \/ rec # Idle /\ rec' # Idle /\ rec'.mark = rec.mark
            \/ DropIndex /\ rec = Idle /\ rec' # Idle /\ rec'.mark = IF Quiet THEN mark ELSE <<>>
    BY <1>1, <1>11, MarkSources
  <1>13. RecAlone'
    <2>1. rec' # Idle => rec'.mark = mark'
      BY <1>3, <1>6, <1>12
    <2> QED
      BY <1>7, <2>1 DEF RecAlone, Idle
  <1>14. rec' = Idle => EndRun
    BY <1>2, RunContinues
  <1>15. EndRun => Repaired'
    <2>1. EndRun => rec # Idle
      BY DEF EndRun, Idle
    <2> QED
      BY <1>1, <1>3, <2>1, RunEnds
  <1>16. IndexKnown'
    <2>1. ASSUME DropIndex PROVE \A u \in Users : ridx'[u] = {}
      <3>1. PICK r \in Store([u \in Users |-> {}], ridx) : ridx' = r[1]
        BY <2>1 DEF DropIndex
      <3>2. r[1] = [u \in Users |-> {}]
        BY CalmOutcome
      <3> QED
        BY <3>1, <3>2
    <2>2. ASSUME EnterOrder
          PROVE  \A u \in Users : \A o \in ridx'[u] :
                   o \in ridx[u] \/ (rec.n \in DOMAIN log /\ o = log[rec.n].key /\ u = log[rec.n].user)
      <3> DEFINE v == log[rec.n].user
                 new == rec.targets \cup {log[rec.n].key}
      <3>1. rec.pc = "enter" /\ rec # Idle
        BY <2>2 DEF EnterOrder, Idle
      <3>2. rec.n \in DOMAIN log /\ rec.targets = ridx[v]
        BY <1>1, <1>3, <3>1 DEF Typed, RecType, RunFacts
      <3>3. PICK r \in Store(new, ridx[v]) : ridx' = [ridx EXCEPT ![v] = r[1]]
        BY <2>2 DEF EnterOrder, reference
      <3>4. r[1] = new
        <4> HIDE DEF new, v
        <4> QED
          BY CalmOutcome
      <3>5. \A o \in new : o \in ridx[v] \/ o = log[rec.n].key
        BY <3>2
      <3>6. ridx \in [Users -> SUBSET Orders]
        BY <1>1 DEF Typed, TypeOK
      <3> HIDE DEF new
      <3> QED
        BY <3>2, <3>3, <3>4, <3>5, <3>6
    <2>3. ASSUME ~ DropIndex, ~ EnterOrder PROVE ridx' = ridx
      BY <2>3 DEF RecSteps, SelectOrders, SelectUsers, SelectFails, RebuildIndex, RebuildView,
                  SelectCopies, RebuildCopy, EndRun, KillReconciler, caches
    <2>4. \A u \in Users : \A o \in ridx'[u] : \E m \in DOMAIN log : log[m].key = o /\ log[m].user = u
      <3>1. \A u \in Users : \A o \in ridx[u] : \E m \in DOMAIN log : log[m].key = o /\ log[m].user = u
        BY <1>8 DEF IndexKnown
      <3>2. CASE DropIndex
        BY <2>1, <3>2
      <3>3. CASE EnterOrder
        BY <2>2, <3>1, <3>3
      <3> QED
        BY <2>3, <3>1, <3>2, <3>3
    <2> QED
      BY <1>4, <2>4 DEF IndexKnown
  <1>17. \A o \in Orders : RowIn(log, o) = 0 => view'[o] = view[o] /\ (o \in lagged' <=> o \in lagged)
    <2>1. CASE RebuildView
      <3>1. rec.pc = "view"
        BY <2>1 DEF RebuildView
      <3>2. RunFacts
        BY <1>3, <3>1 DEF Idle
      <3>3. rec.n \in Live(log, Orders)
        BY <3>1, <3>2 DEF RunFacts
      <3>4. rec.n # 0 /\ rec.n = RowIn(log, log[rec.n].key)
        BY <1>1, <3>3, LiveFacts
      <3>5. (\E x : view' = [view EXCEPT ![log[rec.n].key] = x]) /\ lagged' = lagged \ {log[rec.n].key}
        BY <2>1 DEF RebuildView
      <3>6. view \in [Orders -> [order : 0..MaxCommits, user : 0..MaxCommits]]
        BY <1>1 DEF Typed, TypeOK
      <3> QED
        BY <3>4, <3>5, <3>6
    <2>2. CASE ~ RebuildView
      <3>1. view' = view /\ lagged' = lagged
        BY <2>2 DEF RecSteps, DropIndex, SelectOrders, SelectUsers, SelectFails, RebuildIndex, EnterOrder,
                    SelectCopies, RebuildCopy, EndRun, KillReconciler, caches
      <3> QED
        BY <3>1
    <2> QED
      BY <2>1, <2>2
  <1>18. DeletedShown'
    BY <1>4, <1>8, <1>17 DEF DeletedShown, Rewrites, Projected, Current, WorksOn
  <1>19. CopiesShown'
    <2>1. ASSUME NEW n \in 1..MaxCommits, RebuildCopy(n)
          PROVE  \A u \in Users : copy'[u] = copy[u] \/ copy'[u] = RowIn(log, u)
      <3>1. rec.pc = "copies" /\ rec # Idle /\ n \in rec.users
        BY <2>1 DEF RebuildCopy, Idle
      <3>2. n \in Live(log, Users)
        BY <1>3, <3>1 DEF RunFacts
      <3>3. n = RowIn(log, log[n].key)
        BY <1>1, <3>2, LiveFacts
      <3>4. PICK r \in Store(n, copy[log[n].key]) : copy' = [copy EXCEPT ![log[n].key] = r[1]]
        BY <2>1 DEF RebuildCopy
      <3>5. r[1] = n
        BY CalmOutcome
      <3>6. copy \in [Users -> 0..MaxCommits]
        BY <1>1 DEF Typed, TypeOK
      <3> QED
        BY <3>3, <3>4, <3>5, <3>6
    <2>2. ASSUME ~ \E n \in 1..MaxCommits : RebuildCopy(n) PROVE copy' = copy
      BY <2>2 DEF RecSteps, DropIndex, SelectOrders, SelectUsers, SelectFails, RebuildIndex, EnterOrder,
                  RebuildView, SelectCopies, EndRun, KillReconciler, caches
    <2>3. \A u \in Users : copy'[u] = copy[u] \/ copy'[u] = RowIn(log, u)
      BY <2>1, <2>2
    <2> QED
      BY <1>4, <1>8, <2>3 DEF CopiesShown, Current, WorksOn
  <1>20. ViewsShown'
    <2> SUFFICES ASSUME rec' = Idle, NEW o \in Orders, NEW u \in Users,
                        RowIn(log, o) # 0, log[RowIn(log, o)].user = u
                 PROVE  ViewOf(o, u)'
      BY <1>4 DEF ViewsShown, Idle
    <2>1. Repaired'
      BY <1>14, <1>15
    <2>2. view'[o] = JoinIn(log, o)
      BY <1>4, <2>1 DEF Repaired
    <2>3. o \in ridx'[u] \/ Cardinality(ridx'[u]) = MaxDependents
      <3>1. IndexHolds(log, {}, ridx')
        BY <1>4, <2>1 DEF Repaired
      <3>2. o \in Indexed(log, {}, u)
        BY DEF Indexed
      <3> QED
        BY <3>1, <3>2 DEF IndexHolds
    <2>4. view'[o].order = RowIn(log, o)
      BY <2>2 DEF JoinIn
    <2>5. Good(o, u)'
      BY <1>4, <2>2 DEF Good
    <2> QED
      BY <1>4, <2>3, <2>4, <2>5 DEF ViewOf
  <1> QED
    BY <1>9, <1>10, <1>13, <1>16, <1>18, <1>19, <1>20 DEF Converging

\* Nothing but the environment decides what may go wrong.
LEMMA CalmStays ==
  ASSUME [Next]_vars
  PROVE  env' = env
  <1>1. ASSUME NEW c \in Changes, Commit(c) PROVE env' = env
    BY <1>1, SMTT(60) DEF Commit
  <1>2. ASSUME \/ \E n \in 1..MaxCommits : Resend(n)
               \/ \E s \in Stores : SkipStale(s) \/ SkipDuplicate(s) \/ Take(s)
        PROVE  env' = env
    BY <1>2 DEF Resend, SkipStale, SkipDuplicate, Take
  <1>3. ASSUME Lookup \/ Project \/ ReadDependents \/ Register PROVE env' = env
    BY <1>3 DEF Lookup, Project, ReadDependents, Register
  <1>4. ASSUME ReadTargets \/ RewriteTarget \/ Materialize \/ \E o \in Orders : ReadTarget(o)
        PROVE  env' = env
    BY <1>4 DEF ReadTargets, RewriteTarget, Materialize, ReadTarget
  <1>5. ASSUME LoseSession \/ CrashProjector PROVE env' = env
    BY <1>5 DEF LoseSession, CrashProjector
  <1>6. ASSUME RecSteps PROVE env' = env
    BY <1>6 DEF RecSteps, DropIndex, SelectOrders, SelectUsers, SelectFails, RebuildIndex, EnterOrder,
                RebuildView, SelectCopies, RebuildCopy, EndRun, KillReconciler
  <1>7. ASSUME UNCHANGED vars PROVE env' = env
    BY <1>7 DEF vars
  <1> QED
    BY <1>1, <1>2, <1>3, <1>4, <1>5, <1>6, <1>7, NextCases, SMTT(60)

\* Every step keeps the invariant.
LEMMA ViewInvStep ==
  ASSUME ViewInv, [Next]_vars
  PROVE  ViewInv'
  <1>1. RecInv /\ Typed
    BY DEF ViewInv, RecInv
  <1>2. RecInv'
    BY <1>1, RecInvStep
  <1>3. env' = env
    BY CalmStays
  <1> SUFFICES ASSUME Calm PROVE Converging'
    BY <1>2, <1>3 DEF ViewInv, Calm
  <1>4. Converging
    BY DEF ViewInv, Calm
  <1>5. ASSUME NEW c \in Changes, Commit(c) PROVE Converging'
    BY <1>1, <1>4, <1>5, ConvergingCommit
  <1>7. ASSUME NEW n \in 1..MaxCommits, Resend(n) PROVE Converging'
    BY <1>1, <1>4, <1>7, ConvergingResend
  <1>8. ASSUME NEW s \in Stores, SkipStale(s) \/ SkipDuplicate(s) \/ Take(s) PROVE Converging'
    BY <1>1, <1>4, <1>8, ConvergingSkip, ConvergingTake
  <1>9. CASE Lookup \/ Project \/ ReadDependents \/ Register
    BY <1>1, <1>4, <1>9, ConvergingLookup, ConvergingProject, ConvergingDependents, ConvergingRegister
  <1>10. CASE ReadTargets \/ RewriteTarget \/ Materialize \/ \E o \in Orders : ReadTarget(o)
    BY <1>1, <1>4, <1>10, ConvergingTargets, ConvergingRewrite, ConvergingMaterialize
  <1>11. ~ (LoseSession \/ CrashProjector)
    BY DEF LoseSession, CrashProjector, Lossy, Calm
  <1>12. CASE RecSteps
    BY <1>1, <1>4, <1>12, ConvergingRec
  <1>13. CASE UNCHANGED vars
    <2>1. UNCHANGED <<log, lagged, queue, seen, latest, work, view, copy, ridx, rec>> /\ mark' = mark
      BY <1>13 DEF vars, mark
    <2>2. Settled' /\ WorkHolds' /\ IndexKnown' /\ CopiesShown'
      BY <1>4, <2>1 DEF Converging, Settled, WorkHolds, IndexKnown, CopiesShown, Current, WorksOn
    <2>3. RecAlone'
      BY <1>4, <2>1 DEF Converging, RecAlone, Quiet, Idle
    <2>4. Delivered'
      BY <1>4, <2>1 DEF Converging, Delivered, Current, store_of
    <2>5. DeletedShown'
      BY <1>4, <2>1 DEF Converging, DeletedShown, Rewrites, Projected, Current, WorksOn
    <2>6. ViewsShown'
      BY <1>4, <2>1 DEF Converging, ViewsShown, Projected, Current, WorksOn, ViewOf, Good, Pending, NoView
    <2> QED
      BY <2>2, <2>3, <2>4, <2>5, <2>6 DEF Converging
  <1> QED
    BY <1>5, <1>7, <1>8, <1>9, <1>10, <1>11, <1>12, <1>13, NextCases

\* Once everything has been handled nothing is pending.
LEMMA ConvergingSuffices ==
  ASSUME ViewInv
  PROVE  ViewsConverge
  <1> SUFFICES ASSUME Calm, Quiet, rec = Idle PROVE ViewsConverge
    BY DEF ViewsConverge, Calm
  <1>1. Typed /\ Converging
    BY DEF ViewInv, RecInv, Calm
  <1>2. work = Idle /\ work.pc = "idle" /\ \A s \in Stores : queue[s] = <<>>
    BY DEF Quiet, Idle
  <1>3. \A k : row(k) = RowIn(log, k)
    BY LogNames
  <1>4. \A k \in Keys : Current(k)
    <2> SUFFICES ASSUME NEW k \in Keys PROVE Current(k)
      OBVIOUS
    <2>1. store_of(k) \in Stores
      BY DEF store_of, Stores
    <2>2. DOMAIN queue[store_of(k)] = {}
      BY <1>2, <2>1
    <2>3. CASE LastIn(log, k) # 0
      BY <1>1, <2>2, <2>3 DEF Converging, Delivered
    <2>4. CASE LastIn(log, k) = 0
      <3>1. latest[k] \in Nat /\ latest[k] <= LastIn(log, k)
        BY <1>1 DEF Typed, TypeOK, Converging, Delivered
      <3> QED
        BY <2>4, <3>1 DEF Current
    <2> QED
      BY <2>3, <2>4
  <1>5. \A o \in Orders : Projected(o)
    BY <1>2, <1>4 DEF Projected, WorksOn, Keys
  <1>6. \A u \in Users : row(u) # 0 => copy[u] = row(u)
    BY <1>1, <1>2, <1>3, <1>4 DEF Converging, CopiesShown, WorksOn, UserSteps, Keys
  <1>7. \A o \in Orders \ lagged : row(o) = 0 => view[o].order = 0
    BY <1>1, <1>2, <1>3, <1>5 DEF Converging, DeletedShown, Rewrites
  <1>8. ASSUME NEW o \in Orders \ lagged, row(o) # 0
        PROVE  LET u == reference(row(o))
               IN \/ view[o] = join(o)
                  \/ row(u) = 0 /\ view[o] = NoView
                  \/ /\ o \notin ridx[u] /\ Cardinality(ridx[u]) = MaxDependents
                     /\ view[o].order = row(o)
    <2> DEFINE u == reference(row(o))
    <2>1. RowIn(log, o) # 0 /\ log[RowIn(log, o)].user = u /\ u \in Users
      BY <1>1, <1>3, <1>8, LiveFacts DEF reference
    <2>2. ViewOf(o, u)
      BY <1>1, <1>5, <2>1 DEF Converging, ViewsShown
    <2>3. join(o) = JoinIn(log, o)
      BY <1>3 DEF join, JoinIn, reference
    <2> HIDE DEF u
    <2>4. ~ Pending(o, u) /\ ~ WorksOn(o, {"dependents", "register"})
      BY <1>2, <1>4, <2>1 DEF Pending, WorksOn, Keys
    <2>5. CASE o \in ridx[u]
      BY <1>3, <2>2, <2>3, <2>4, <2>5 DEF ViewOf, Good, u
    <2>6. CASE o \notin ridx[u]
      BY <1>3, <2>2, <2>4, <2>6 DEF ViewOf, u
    <2> QED
      BY <2>5, <2>6
  <1> QED
    BY <1>6, <1>7, <1>8 DEF ViewsConverge

\* Whatever the order in which the events of the two stores arrive, and although they
\* arrive again, late, or after their ids have been forgotten: once the projector has
\* handled them the view of an order is the join of the current rows, up to the
\* fan-out limit and deleted users, unless the row entry that was last read from the
\* cache for it was not the current row (crates/ixmati-projector).
THEOREM ViewsConvergeAll == Spec => []ViewsConverge
  <1>1. Init => ViewInv
    BY RecInvInit, ConvergingInit DEF ViewInv
  <1>2. ViewInv /\ [Next]_vars => ViewInv'
    BY ViewInvStep
  <1>3. ViewInv => ViewsConverge
    BY ConvergingSuffices
  <1> QED
    BY <1>1, <1>2, <1>3, PTL DEF Spec

=============================================================================
