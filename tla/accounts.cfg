SPECIFICATION Spec
CONSTANTS
  Ops = {o1, o2}
  MaxOps = 5
  MaxAttempts = 2
  Passwords = {p1, p2}
  Codes = {c1, c2}
  Jtis = {j1, j2}
SYMMETRY Symmetry
INVARIANT GuessesBounded
INVARIANT LockoutEnds
INVARIANT CodeLetsInOnce
INVARIANT RetiredStaysOut
\* Nothing is left to do when the bound on requests is reached.
CHECK_DEADLOCK FALSE
