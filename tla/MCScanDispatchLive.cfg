SPECIFICATION FairSpec
CONSTANTS
  Sources = {d1}
  Runs = {1, 2, 3, 4, 5}
  Scheduler = s
  Requesters = {}
  Workers = {w1}
  MaxFaults = 2
  NoSource = NoSource
  NoRun = NoRun
PROPERTIES DueIsServed RunsEnd
