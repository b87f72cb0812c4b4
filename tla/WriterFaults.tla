---------------------------- MODULE WriterFaults ----------------------------
(***************************************************************************)
(* The writer under a finite number of faults: connections break, the      *)
(* process is killed and transactions fail MaxFaults times at most, at any *)
(* moment.  What must happen eventually is stated for the time after the   *)
(* last of them.                                                           *)
(***************************************************************************)
EXTENDS Writer

CONSTANT MaxFaults

ASSUME FaultsAreFinite == MaxFaults \in Nat

VARIABLE faults      \* how many faults have happened

Fault == FailBatch \/ Reconnect \/ Restart

Work ==
  \/ RecvPush \/ RecvFlush \/ TimeoutFlush
  \/ SkipDuplicate \/ SkipConflict \/ SkipUnknownOp \/ ApplyCommand
  \/ CommitBatch
  \/ AckCommand \/ FinishBatch

Acknowledge == \E m \in Messages : SendAck(m)

FaultInit == Init /\ faults = 0

FaultNext ==
  \/ /\ \/ \E c \in Command \cup Garbage : Publish(c)
        \/ Acknowledge
        \/ ConsumerStep
        \/ Work
     /\ UNCHANGED faults
  \/ /\ faults < MaxFaults
     /\ Fault
     /\ faults' = faults + 1

(* Every thread of the process and the broker keep running. *)
FaultSpec ==
  /\ FaultInit /\ [][FaultNext]_<<vars, faults>>
  /\ WF_<<vars, faults>>(Work /\ UNCHANGED faults)
  /\ WF_<<vars, faults>>(ConsumerStep /\ UNCHANGED faults)
  /\ WF_<<vars, faults>>(Acknowledge /\ UNCHANGED faults)

\* Nothing gets stuck in the pipeline: after the last fault every command in
\* the channel or in a batch is processed and acknowledged to the broker,
\* whatever was deferred or dropped before and however often it is queued.
HeldIsAcked ==
  \A m \in 1..MaxMessages :
    (faults = MaxFaults /\ m \in Messages /\ Held(m)) ~> Acked(m)

\* A restart drains the backlog: with a channel at least as large as the
\* broker's window, from any state like the one a restart leaves (nothing in
\* memory, nothing stranded) every published command is acknowledged if
\* nothing fails again; none is deferred.  After a mere reconnection it does
\* not hold: the copies sent again fill the channel.  Nor does it with
\* malformed messages, whose acknowledgement may be dropped.
RestartDrains ==
  \A m \in 1..MaxMessages :
    (/\ faults = MaxFaults
     /\ m \in Messages
     /\ chan = <<>> /\ batch = <<>> /\ ackq = {}
     /\ \A n \in Messages : topic[n] \in Command /\ ~ Stranded(n)) ~> Acked(m)
=============================================================================
