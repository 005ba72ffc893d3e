SPECIFICATION Spec
CONSTANTS
  k1 = k1
  k2 = k2
  w1 = w1
  w2 = w2
  r1 = r1
  r2 = r2
  Rows = {a, b, c}
  Keys = {k1, k2}
  Workers = {w1, w2}
  Requesters = {r1, r2}
  Serves <- BothServe
  MayRequest <- OwnKeys
  Replaceable = {k1}
  Reclaimers = {w1}
  IdlePolls = 2
  MaxCrashes = 1
  NoRow = NoRow
  NoKey = NoKey
SYMMETRY Symmetry
INVARIANTS ExclusiveProcessing OneActivePerKey QueueInv
PROPERTIES QueuedOnlyClaimed NoPrematureFailure ImplementsSingleFlight
