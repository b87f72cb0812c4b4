---------------------------- MODULE MCCacheAside ----------------------------
(* Small instances of CacheAside for TLC. *)
EXTENDS CacheAside
=============================================================================
