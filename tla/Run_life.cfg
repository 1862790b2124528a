SPECIFICATION Spec
CONSTANTS
  None = None
  Root = Root
  Calls = {c1, c2, c3, c4}
  Briefs = {b1}
  OwnRoom = TRUE
  Faults = {"refused", "lost", "disk"}
  MaxFaults = 1
  MaxCrashes = 1
  MaxTime = 0
  OlderThan = 1
  Verbs = {"new", "spawn", "resolve", "sweep", "decide"}
  Asked = {"succeeded", "failed"}
  Keeping = {FALSE, TRUE}
  Canaries = {TRUE}
SYMMETRY CallSymmetry
INVARIANT AccountsInOrder
INVARIANT TeardownTruthful
INVARIANT ResolvedOnce
PROPERTY NothingTakenBack
