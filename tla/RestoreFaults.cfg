SPECIFICATION Spec
CONSTANTS
  o1 = o1
  o2 = o2
  p1 = p1
  p2 = p2
  k1 = k1
  ma = ma
  None = None
  Order = {o1}
  KeyOf <- MCKeyOf
  MarketOf <- MCMarketOf
  Listed <- MCListed
  Gtd = {o1}
  Farmed = {ma}
  Proc = {p1, p2}
  Keyed = {p1}
  MaxUnanswered = 2
  MaxJobs = 2
  May = {"stop", "stall", "db", "fill", "wait"}
INVARIANTS LinesAreTrue
PROPERTIES EndedIsFinal
CHECK_DEADLOCK FALSE
