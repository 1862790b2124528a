SPECIFICATION FairSpec
CONSTANTS
  Servers = {a, b}
  Agg = agg
  a = a
  b = b
  Calls = {c1, c2}
  c1 = c1
  c2 = c2
  Ids = {x, y}
  x = x
  y = y
  IdOf <- MCIdOf
  Offers <- MCOffers
  Stateless = {b}
  MaxEpoch = 2
  MaxDeaths = 1
  InUnit = {b}
  SavedKeep = {a}
  SavedExcl = {a}
INVARIANTS SelectionHolds NothingOutlives CallOutcome
PROPERTY HostSettles
CHECK_DEADLOCK FALSE
