SPECIFICATION PlansSpec
CONSTANTS
  Ops = {o1, o2}
  MaxOps = 6
  MaxSubs = 3
  MaxNow = 1
  Plan = {"tried", "yearly"}
  Limit <- MCLimit
  Cycle <- MCCycle
  TrialDays <- MCTrialDays
SYMMETRY Symmetry
INVARIANT QuotaKept
INVARIANT OneActive
\* Nothing is left to do when the bounds are reached.
CHECK_DEADLOCK FALSE
