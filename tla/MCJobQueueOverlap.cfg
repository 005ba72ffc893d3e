SPECIFICATION Spec
CONSTANTS
  k1 = k1
  k2 = k2
  w1 = w1
  w2 = w2
  r1 = r1
  r2 = r2
  Rows = {a, b}
  Keys = {k1}
  Workers = {w1}
  Requesters = {r1, r2}
  Serves <- OnlyK1
  MayRequest <- SharedKey
  Replaceable = {}
  Reclaimers = {w1}
  IdlePolls = 2
  MaxCrashes = 0
  NoRow = NoRow
  NoKey = NoKey
INVARIANT SingleActiveJob
