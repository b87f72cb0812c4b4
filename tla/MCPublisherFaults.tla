------------------------- MODULE MCPublisherFaults -------------------------
(* Small instances of PublisherFaults for TLC. *)
EXTENDS PublisherFaults
=============================================================================
