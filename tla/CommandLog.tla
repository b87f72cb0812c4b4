----------------------------- MODULE CommandLog -----------------------------
(***************************************************************************)
(* What a store promises the producers of commands, without broker,        *)
(* batches, transactions or crashes: a log of applied commands that only   *)
(* grows, at most one entry per idempotency key, increasing versions per   *)
(* entity, a table that is the replay of the log, and a confirmation only  *)
(* for a command about which the log has nothing left to decide.           *)
(***************************************************************************)
EXTENDS Integers, Sequences

CONSTANTS Command, Key, None, AppliedOp

VARIABLES
  log,        \* the applied commands, in order
  rows,       \* the live row of each key
  confirmed   \* the commands confirmed to their producer

vars == <<log, rows, confirmed>>

WellOrdered(l) ==
  \A i, j \in 1..Len(l) :
    i < j => /\ l[i].idem # l[j].idem
             /\ l[i].key = l[j].key => l[i].version < l[j].version

IsReplay(l, r) ==
  \A k \in Key :
    \/ r[k] = None /\ \A i \in 1..Len(l) : l[i].key # k
    \/ \E i \in 1..Len(l) :
         /\ l[i].key = k
         /\ \A j \in 1..Len(l) : l[j].key = k => j <= i
         /\ r[k] = IF l[i].op = "delete" THEN None ELSE l[i]

Decided(l, c) ==
  \/ c.op \notin AppliedOp
  \/ \E i \in 1..Len(l) :
       \/ l[i].idem = c.idem
       \/ l[i].key = c.key /\ c.version <= l[i].version

Init ==
  /\ log = <<>>
  /\ rows = [k \in Key |-> None]
  /\ confirmed = {}

\* Some commands are applied, all at once.
Extend ==
  /\ Len(log) < Len(log')
  /\ SubSeq(log', 1, Len(log)) = log
  /\ \A i \in 1..Len(log') : log'[i] \in Command /\ log'[i].op \in AppliedOp
  /\ WellOrdered(log')
  /\ IsReplay(log', rows')
  /\ UNCHANGED confirmed

Confirm ==
  /\ UNCHANGED <<log, rows>>
  /\ \E c \in confirmed' \ confirmed :
       /\ c \in Command
       /\ Decided(log, c)
       /\ confirmed' = confirmed \cup {c}

Next == Extend \/ Confirm

Spec == Init /\ [][Next]_vars
=============================================================================
