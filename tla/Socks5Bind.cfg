\* A bind that is opened, closed and opened again.
SPECIFICATION FairSpec
CONSTANTS
  Calls = {a1, a2}
  Dev = dev
  Closer = closer
  Rcv = rcv
  Senders = {s1}
  Nil = Nil
INVARIANTS SessionsOwned ErrClosedMeansClosed
PROPERTIES ReceiverEnds OpenReturns ImplementsBind
