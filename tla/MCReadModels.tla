---------------------------- MODULE MCReadModels ----------------------------
(* Small instances of ReadModels for TLC. *)
EXTENDS ReadModels

Env(h, n, r, k) ==
  [hazards |-> h, commits |-> n, resends |-> r, runs |-> k]

\* Only the row entries are late, things get lost, or the reconciler interferes.
SomeEnvironments ==
  {Env({}, 4, 0, 0), Env({}, 3, 1, 1), Env({"loss", "move"}, 3, 0, 2), Env({"online", "move"}, 3, 0, 1)}

Symmetry == Permutations(Orders) \cup Permutations(Users)
=============================================================================
