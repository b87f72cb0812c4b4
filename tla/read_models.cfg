SPECIFICATION Spec
CONSTANTS
  Orders = {o1, o2}
  Users = {u1, u2}
  MaxCommits = 4
  MaxLosses = 1
  MaxDependents = 1
  DedupCapacity = 2
  Environments <- SomeEnvironments
SYMMETRY Symmetry
INVARIANTS
  TypeOK
  ViewsConverge
  ReconcilerRepairs
CHECK_DEADLOCK FALSE
