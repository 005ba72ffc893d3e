SPECIFICATION Spec
CONSTANTS
  Sources = {d1, d2}
  Runs = {1, 2}
  Scheduler = s
  Requesters = {q1}
  Workers = {w1, w2}
  MaxFaults = 1
  NoSource = NoSource
  NoRun = NoRun
INVARIANTS TypeOK  StrandedBounded SlotNotLost
PROPERTIES ScannedOnce 
