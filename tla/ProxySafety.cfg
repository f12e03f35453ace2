\* Two handlers share the descriptor table with the shutdown.
SPECIFICATION Spec
CONSTANTS
  Handlers = {h1, h2}
  MaxAddrs = 2
  MaxFd = 4
SYMMETRY Symmetry
INVARIANTS TypeOK DialsInside UpstreamOwned
\* The process exits.
CHECK_DEADLOCK FALSE
