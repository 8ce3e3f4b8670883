SPECIFICATION Spec
CONSTANTS
  w1 = w1
  w2 = w2
  t1 = t1
  t2 = t2
  p1 = p1
  p2 = p2
  feed = feed
  poll = poll
  Watch = {w1}
  Token = {t1}
  TokenOf <- MCTokenOf
  Dry = {}
  Guarded = {}
  Hot = {feed}
  Proc = {p1, p2}
  Keyed = {p1, p2}
  None = None
  MaxAttempts = 3
  May = {"stop"}
SYMMETRY Symmetry
INVARIANTS CloseCutsOpenFires
CHECK_DEADLOCK FALSE
