SPECIFICATION Spec
CONSTANTS
  Browsers = {b1, b2}
  Requests = {r1, r2}
  MaxSent = 5
  MaxNow = 3
  Life = 2
SYMMETRY Symmetry
INVARIANT ParentSpent
INVARIANT OldSessionsEnd
INVARIANT ReuseHasCause
\* Nothing is left to do when the bounds on requests and time are reached.
CHECK_DEADLOCK FALSE
