SPECIFICATION FairSpec
CONSTANTS
  NoJob = NoJob
  Kinds <- BothOrNeither
  Jobs = {j1, j2}
INVARIANTS RuleInv LatestShown RowsAgree OneIncident
PROPERTY JobEnds
CHECK_DEADLOCK FALSE
