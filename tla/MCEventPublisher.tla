-------------------------- MODULE MCEventPublisher --------------------------
(* Small instances of EventPublisher for TLC. *)
EXTENDS EventPublisher
=============================================================================
