SPECIFICATION FairSpec
CONSTANTS
  t1 = t1
  t2 = t2
  NoTable = NoTable
  NoRun = NoRun
  Tables = {t1, t2}
  Floor <- FirstHasStart
  Stamp <- Stamps
  Runs = {r1, r2}
  Targets = {t1, t2}
  Concurrency = 1
  MaxClock = 1
INVARIANT BatchTold
PROPERTY BatchEnds
CHECK_DEADLOCK FALSE
