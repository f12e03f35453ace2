\* Two senders, the receive routine and the device over two connections.
SPECIFICATION FairSpec
CONSTANTS
  Senders = {s1, s2}
  Dev = dev
  Rcv = rcv
  Conn = {c1, c2}
  Sizes <- EdgeSizes
  Nil = Nil
INVARIANTS TypeOK FramingIntact ReadInSync
PROPERTIES StaleDialSparesNewer SendReturns ImplementsBind
