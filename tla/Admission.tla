----------------------------- MODULE Admission -----------------------------
(***************************************************************************)
(* How the API admits writes (ixmati-api: the first half of submit_write,  *)
(* throttle.rs, backpressure.rs and the outbox half of self_monitor.rs):   *)
(* a token bucket per store, and the outbox backlog that a background task *)
(* reads from the databases every few seconds.                             *)
(*                                                                         *)
(* Time is counted in ticks, and a bucket in units of 1/Window token, so   *)
(* that the refill of one tick, max_writes_per_window / window_secs in the *)
(* code's floating point, is the integer MaxWrites.                        *)
(***************************************************************************)
EXTENDS Integers, Sequences, FiniteSets

CONSTANTS
  Stores,
  Paths,        \* the polled databases, in the order of the polling loop
  PathOf,       \* the database of each store
  MaxWrites,    \* max_writes_per_window
  Window,       \* throttle window in ticks
  Threshold,    \* OUTBOX_BACKPRESSURE_THRESHOLD
  MaxTime,      \* bound on the clock
  MaxAccepted   \* bound on the writes accepted per store

ASSUME AdmissionConstants ==
  /\ Paths \in Seq(STRING) /\ Len(Paths) > 0
  /\ PathOf \in [Stores -> {Paths[i] : i \in DOMAIN Paths}]
  /\ MaxWrites \in Nat /\ Window \in Nat \ {0}
  /\ Threshold \in Int /\ MaxTime \in Nat /\ MaxAccepted \in Nat

VARIABLES
  now,          \* Instant::now()
  tokens,       \* Bucket.tokens, in units of 1/Window
  last_refill,  \* Bucket.last_refill; -1 while the store has no bucket
  depths,       \* OutboxBacklog.depths; a store not in the map counts as 0
  next,         \* the path self_monitor reads next
  sent,         \* accepted commands that are not committed yet
  outbox,       \* committed rows with published_at IS NULL
  seen,         \* what the last reading of its database said of each store,
                \* 0 if it left the store out
  accepted      \* when each store's writes were accepted

vars == <<now, tokens, last_refill, depths, next, sent, outbox, seen, accepted>>

MAX_BURST == 3

\* The capacity of a bucket: max_writes_per_window.min(MAX_BURST) tokens.
burst == Window * (IF MaxWrites < MAX_BURST THEN MaxWrites ELSE MAX_BURST)

Init ==
  /\ now = 0
  /\ tokens = [s \in Stores |-> burst] /\ last_refill = [s \in Stores |-> -1]
  /\ depths = [s \in Stores |-> 0]
  /\ next = 1
  /\ sent = [s \in Stores |-> 0] /\ outbox = [s \in Stores |-> 0]
  /\ seen = [s \in Stores |-> 0]
  /\ accepted = [s \in Stores |-> <<>>]

-----------------------------------------------------------------------------
(* Throttle *)

\* Mutant: the bucket has no capacity.
refill_without_burst(s) ==
  IF last_refill[s] = -1 THEN burst
  ELSE tokens[s] + (now - last_refill[s]) * MaxWrites

\* allow_at: what the bucket holds after the time that has passed; a first
\* write finds it full.
refilled(s) ==
  LET grown == tokens[s] + (now - last_refill[s]) * MaxWrites
  IN  IF last_refill[s] = -1 \/ grown > burst THEN burst ELSE grown

\* Mutant: a refused write throws the refill away.
deny_without_refill(s) ==
  /\ refilled(s) < Window
  /\ last_refill' = [last_refill EXCEPT ![s] = now]
  /\ UNCHANGED tokens

\* allow_at returning false: the refill is kept.
deny(s) ==
  /\ refilled(s) < Window
  /\ tokens' = [tokens EXCEPT ![s] = refilled(s)]
  /\ last_refill' = [last_refill EXCEPT ![s] = now]

\* Mutant: an accepted write takes no token.
allow_free(s) ==
  /\ refilled(s) >= Window
  /\ tokens' = [tokens EXCEPT ![s] = refilled(s)]
  /\ last_refill' = [last_refill EXCEPT ![s] = now]

\* allow_at returning true.
allow(s) ==
  /\ refilled(s) >= Window
  /\ tokens' = [tokens EXCEPT ![s] = refilled(s) - Window]
  /\ last_refill' = [last_refill EXCEPT ![s] = now]

-----------------------------------------------------------------------------
(* submit_write *)

\* OutboxBacklog.check: not positive thresholds disable it.
over_threshold(s) == Threshold > 0 /\ depths[s] > Threshold

\* Rejected with OUTBOX_BACKLOG before the throttle is asked.
RejectBacklog(s) ==
  /\ over_threshold(s)
  /\ UNCHANGED vars

\* Rejected with QUEUE_FULL.
RejectThrottled(s) ==
  /\ ~over_threshold(s)
  /\ deny(s)
  /\ UNCHANGED <<now, depths, next, sent, outbox, seen, accepted>>

\* Published to ixmati/cmd/<store>/..., and then waited for.
Accept(s) ==
  /\ Len(accepted[s]) < MaxAccepted
  /\ ~over_threshold(s)
  /\ allow(s)
  /\ sent' = [sent EXCEPT ![s] = @ + 1]
  /\ accepted' = [accepted EXCEPT ![s] = Append(@, now)]
  /\ UNCHANGED <<now, depths, next, outbox, seen>>

-----------------------------------------------------------------------------
(* self_monitor *)

StoresIn(p) == {s \in Stores : PathOf[s] = p}

\* Mutant: stores that left the result keep their last depth.
depths_without_reset(read) ==
  [s \in Stores |-> IF s \in read /\ outbox[s] > 0 THEN outbox[s] ELSE depths[s]]

\* update for every store of the GROUP BY that was read, then reset_missing,
\* which knows the stores of every database.
depths_after(read) == [s \in Stores |-> IF s \in read THEN outbox[s] ELSE 0]

Reading(read) ==
  /\ depths' = depths_after(read)
  /\ seen' = [s \in Stores |-> IF PathOf[s] = Paths[next] THEN depths'[s] ELSE seen[s]]
  /\ next' = (next % Len(Paths)) + 1
  /\ UNCHANGED <<now, tokens, last_refill, sent, outbox, accepted>>

\* collect_outbox_metrics for the next database.
CollectOutboxMetrics == Reading(StoresIn(Paths[next]))

\* A row cannot be read: rows.flatten() passes over the error, and the stores
\* that were not read count as drained.
CollectPartly ==
  \E read \in SUBSET StoresIn(Paths[next]) :
    read # StoresIn(Paths[next]) /\ Reading(read)

\* The database cannot be opened, or the query not prepared: nothing is updated.
CollectFails ==
  /\ next' = (next % Len(Paths)) + 1
  /\ UNCHANGED <<now, tokens, last_refill, depths, sent, outbox, seen, accepted>>

-----------------------------------------------------------------------------
(* The environment: the writers and publishers (modules Writer and         *)
(* EventPublisher) and the clock.                                          *)

Commit(s) ==
  /\ sent[s] > 0
  /\ sent' = [sent EXCEPT ![s] = @ - 1]
  /\ outbox' = [outbox EXCEPT ![s] = @ + 1]
  /\ UNCHANGED <<now, tokens, last_refill, depths, next, seen, accepted>>

Publish(s) ==
  /\ outbox[s] > 0
  /\ outbox' = [outbox EXCEPT ![s] = @ - 1]
  /\ UNCHANGED <<now, tokens, last_refill, depths, next, sent, seen, accepted>>

Tick ==
  /\ now < MaxTime
  /\ now' = now + 1
  /\ UNCHANGED <<tokens, last_refill, depths, next, sent, outbox, seen, accepted>>

Next ==
  \/ \E s \in Stores : RejectBacklog(s) \/ RejectThrottled(s) \/ Accept(s)
  \/ CollectOutboxMetrics \/ CollectPartly \/ CollectFails
  \/ \E s \in Stores : Commit(s) \/ Publish(s)
  \/ Tick

(* The monitor loops for ever and its reads do not fail for ever; writers  *)
(* commit and publish what they have.                                      *)
Fairness ==
  /\ SF_vars(CollectOutboxMetrics)
  /\ \A s \in Stores : WF_vars(Commit(s)) /\ WF_vars(Publish(s))

Spec == Init /\ [][Next]_vars /\ Fairness

-----------------------------------------------------------------------------
(* Properties *)

\* Every variable keeps its type; a bucket never holds more than its burst and is
\* never overdrawn.
TypeOK ==
  /\ now \in 0..MaxTime
  /\ tokens \in [Stores -> 0..burst]
  /\ last_refill \in [Stores -> -1..MaxTime]
  /\ depths \in [Stores -> 0..MaxAccepted]
  /\ next \in DOMAIN Paths
  /\ sent \in [Stores -> 0..MaxAccepted]
  /\ outbox \in [Stores -> 0..MaxAccepted]
  /\ seen \in [Stores -> 0..MaxAccepted]
  /\ accepted \in [Stores -> Seq(0..MaxTime)]

\* throttle.rs: over every interval of time, however writes, refusals and idle
\* periods alternate, a store gets at most its burst and what the configured
\* rate adds in that interval.
RateIsBounded ==
  \A s \in Stores : \A i, j \in DOMAIN accepted[s] :
    i <= j => (j - i + 1) * Window
                <= burst + MaxWrites * (accepted[s][j] - accepted[s][i])

\* throttle.rs, steady_rate_at_configured_limit: a store whose last accepted
\* write is one token's time ago is not throttled, whatever was refused since.
PacedIsAllowed ==
  \A s \in Stores :
    (/\ MaxWrites > 0 /\ accepted[s] # <<>>
     /\ (now - accepted[s][Len(accepted[s])]) * MaxWrites >= Window)
      => refilled(s) >= Window

\* backpressure.rs:4-6: the last known backlog of each store is kept, and no write
\* is accepted for a store that exceeded the threshold at the last reading of its
\* database.  Not so when stores have databases of their own: reading one resets
\* the depths of all the others.
BacklogIsRespected ==
  [][\A s \in Stores :
       Threshold > 0 /\ seen[s] > Threshold => accepted'[s] = accepted[s]]_vars

\* self_monitor.rs: a store refused for its backlog is admitted again once the
\* writer has drained the outbox.
BackpressureLifts ==
  \A s \in Stores : over_threshold(s) ~> ~over_threshold(s)
=============================================================================
