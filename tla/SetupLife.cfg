SPECIFICATION FairSpec
CONSTANTS
  Retries = 2
INVARIANTS TypeOK NoResidue NoUnguardedPath ConnectAfterRegister
PROPERTIES SetupEnds ProxyStops
\* The process exits.
CHECK_DEADLOCK FALSE
