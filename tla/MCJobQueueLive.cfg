SPECIFICATION FairSpec
CONSTANTS
  k1 = k1
  k2 = k2
  w1 = w1
  w2 = w2
  r1 = r1
  r2 = r2
  Rows = {a, b, c}
  Keys = {k1, k2}
  Workers = {w1}
  Requesters = {r1}
  Serves <- OneServes
  MayRequest <- OneRequests
  Replaceable = {k1}
  Reclaimers = {w1}
  IdlePolls = 2
  MaxCrashes = 1
  NoRow = NoRow
  NoKey = NoKey
PROPERTIES QueuedIsStarted OrphansEnd
