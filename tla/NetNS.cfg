\* Both kinds of root; the callers overlap with Close.
SPECIFICATION FairSpec
CONSTANTS
  Callers = {r1, r2}
  LastCap = 3
  FallbackCap = 4
  Mask <- KeptCaps
  SetPCap = 2
  Nobody = nobody
INVARIANTS TypeOK SealedBeforeUse SvcConfined
PROPERTIES RemoveAllSparesHost ChildSurvivesCall RunOnAnchorReturns TakenDown
\* Everything is taken down in the end.
CHECK_DEADLOCK FALSE
