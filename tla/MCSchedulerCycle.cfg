SPECIFICATION FairSpec
CONSTANTS
  p1 = p1
  p2 = p2
  c1 = c1
  c2 = c2
  c3 = c3
  x1 = x1
  x2 = x2
  x3 = x3
  x4 = x4
  Processes = {p1, p2}
  Cycles = {c1, c2, c3}
  Home <- TwoAndOne
  Looping = {c3}
  Conns = {x1, x2, x3, x4}
  Pool <- Pools
  Ageing = {p1, p2}
  Rules = {d1}
  MaxHolds = 2
  MaxCrashes = 1
  MaxFaults = 1
  NoConn = NoConn
INVARIANTS CycleInv ExclusiveInProcess RelaunchCostsFault
 
