SPECIFICATION Spec
CONSTANTS
  o1 = o1
  o2 = o2
  p1 = p1
  p2 = p2
  k1 = k1
  ma = ma
  None = None
  Order = {o1, o2}
  KeyOf <- MCKeyOf
  MarketOf <- MCMarketOf
  Listed <- MCListed
  Gtd = {}
  Farmed = {}
  Proc = {p1, p2}
  Keyed = {p1, p2}
  MaxUnanswered = 1
  MaxJobs = 4
  May = {"crash"}
SYMMETRY Symmetry
INVARIANTS NeverDoubled QueueIsSound
CHECK_DEADLOCK FALSE
