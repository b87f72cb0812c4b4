-------------------------- MODULE PublisherFaults --------------------------
(***************************************************************************)
(* The event publisher under a finite number of faults: failed updates,    *)
(* broken connections and crashes.                                         *)
(***************************************************************************)
EXTENDS EventPublisher

CONSTANT MaxFaults

ASSUME FaultsAreFinite == MaxFaults \in Nat

VARIABLE faults      \* how many faults have happened

Work ==
  \/ Commit
  \/ PublishLoop
  \/ EventLoop
  \/ BrokerAccepts
  \/ Resume

FaultNext ==
  \/ Work /\ UNCHANGED faults
  \/ /\ faults < MaxFaults
     /\ faults' = faults + 1
     /\ Fault

(* Every thread and the broker keep running, and a lost connection is      *)
(* established again: the event loop polls for ever.                       *)
Fairness ==
  /\ WF_<<vars, faults>>(PublishLoop /\ UNCHANGED faults)
  /\ WF_<<vars, faults>>(EventLoop /\ UNCHANGED faults)
  /\ WF_<<vars, faults>>(BrokerAccepts /\ UNCHANGED faults)
  /\ WF_<<vars, faults>>(Resume /\ UNCHANGED faults)

FaultInit == Init /\ faults = 0

FaultSpec == FaultInit /\ [][FaultNext]_<<vars, faults>> /\ Fairness

\* SPEC.md CA-10: after the last fault every committed event that has a valid
\* topic is published and marked, although acknowledgements are dropped when
\* the bounded queues are full, marking takes some rows at a time, and rows
\* the client rejects take part in every fetch.
EventuallyPublished ==
  \A r \in Row \ Unpublishable : (r <= rows) ~> (r \in published)

=============================================================================
