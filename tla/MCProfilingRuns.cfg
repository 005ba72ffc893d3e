SPECIFICATION Spec
CONSTANTS
  t1 = t1
  t2 = t2
  NoTable = NoTable
  NoRun = NoRun
  Tables = {t1, t2}
  Floor <- FirstHasStart
  Stamp <- Stamps
  Runs = {r1, r2}
  Targets = {}
  Concurrency = 1
  MaxClock = 4
SYMMETRY Symmetry
INVARIANTS NothingSkipped MarkedStands ProfilingInv
 
CHECK_DEADLOCK FALSE
