SPECIFICATION FairSpec
CONSTANTS
  Main = Main
  None = None
  Dups = {d1}
  Hooks = {k1, k2}
  Holders = {h1}
  MaxFaults = 2
  MaxRetries = 1
INVARIANT HoldersTold
INVARIANT OneVerdict
PROPERTY JobRefined
PROPERTY LockedIsSettled
