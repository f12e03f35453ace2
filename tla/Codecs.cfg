\* Lengths on both sides of every check of the decoder.
SPECIFICATION Spec
CONSTANTS
  Lengths <- EdgeLengths
  NameLens <- EdgeNames
  Payloads = {0, 1, 9}
  Room = 8
  MaxLine = 7
INVARIANTS DatagramsRead DatagramsWritten ArgsSurvive BindsFaithful
\* One call per behaviour.
CHECK_DEADLOCK FALSE
