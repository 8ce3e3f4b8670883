SPECIFICATION Spec
CONSTANTS
  w1 = w1
  w2 = w2
  t1 = t1
  t2 = t2
  p1 = p1
  p2 = p2
  feed = feed
  poll = poll
  Watch = {w1}
  Token = {t1}
  TokenOf <- MCTokenOf
  Dry = {}
  Guarded = {w1}
  Hot = {feed, poll}
  Proc = {p1, p2}
  Keyed = {p1, p2}
  None = None
  MaxAttempts = 3
  May = {"stop", "crash", "db"}
SYMMETRY Symmetry
INVARIANTS RetryOnlyAfterRefusals FiresOnce ClosedIsOver
CHECK_DEADLOCK FALSE
