\* One flow, TCP or UDP, up to three pieces in each direction.
SPECIFICATION FairSpec
CONSTANTS
  Calls = {f1}
  MaxPieces = 3
  Expiry = 2
INVARIANTS TypeOK EndMeansAll NothingLeaked
PROPERTIES HalfOpenDelivers FlowEnds CutOnlyWhenIdle
\* A flow ends.
CHECK_DEADLOCK FALSE
