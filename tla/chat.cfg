SPECIFICATION Spec
CONSTANTS
  Ops = {o1, o2}
  MaxOps = 4
INVARIANT BadgeShown
PROPERTY ReopenedLate
PROPERTY QuestionAnswered
\* Nothing is left to do when the bound on requests is reached.
CHECK_DEADLOCK FALSE
