\* The thread in the namespace may hang.
SPECIFICATION FairSpec
CONSTANTS
  Handlers = {h1}
  MaxAddrs = 2
  MaxFd = 3
PROPERTIES ClientAnswered ProxyReturns UpstreamClosed
\* The process exits.
CHECK_DEADLOCK FALSE
