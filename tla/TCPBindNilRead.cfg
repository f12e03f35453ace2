\* One sender is enough to refute the claim.
SPECIFICATION Spec
CONSTANTS
  Senders = {s1}
  Dev = dev
  Rcv = rcv
  Conn = {c1, c2, c3}
  Sizes = {1}
  Nil = Nil
INVARIANT NoNilRead
