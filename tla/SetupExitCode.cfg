SPECIFICATION Spec
CONSTANTS
  Retries = 1
INVARIANT ExitCodeIsChilds
\* The process exits.
CHECK_DEADLOCK FALSE
