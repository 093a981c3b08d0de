SPECIFICATION Spec
CONSTANTS
  Procs = {p1, p2}
  Ops = {o1, o2, o3}
  TTL = 2
  MaxWait = 2
SYMMETRY Symmetry
INVARIANT StaleBounded
INVARIANT OwnWritesSeen
