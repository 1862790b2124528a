SPECIFICATION FairSpec
CONSTANTS
  None = None
  Root = Root
  Calls = {c1, c2, c3}
  Briefs = {b1, b2}
  OwnRoom = TRUE
  Faults = {"refused", "disk"}
  MaxFaults = 2
  MaxCrashes = 0
  MaxTime = 1
  OlderThan = 1
  Verbs = {"new", "spawn", "resolve", "clean"}
  Asked = {"succeeded"}
  Keeping = {FALSE}
  Canaries = {FALSE}
INVARIANT FailedCallLeavesNothing
INVARIANT SpawnsAreSingle
PROPERTY EveryCallReturns
