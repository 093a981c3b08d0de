SPECIFICATION FairSpec
CONSTANTS
  Events = {e1}
  Workers = {w1}
  Crons = {k1, k2}
  Admins = {a1}
  MaxAttempts = 2
  MaxJobs = 2
  Budget = 3
INVARIANT EventAccounted
INVARIANT CronExclusive
PROPERTY RetriesEnd
\* Nothing needs to happen once the bound on jobs is reached.
CHECK_DEADLOCK FALSE
