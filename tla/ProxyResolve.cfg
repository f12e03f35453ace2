\* Where names are looked up.
SPECIFICATION Spec
CONSTANTS
  Handlers = {h1}
  MaxAddrs = 2
  MaxFd = 3
INVARIANT ResolvesInside
\* The process exits.
CHECK_DEADLOCK FALSE
