SPECIFICATION ScopeSpec
CONSTANTS
  moxy = moxy
  justus = justus
  r1 = r1
  r2 = r2
  c1 = c1
  c2 = c2
  k1 = k1
  k2 = k2
  Links <- MCLinks
  Home <- MCHome
  ClownState <- MCClownState
  CircusState <- MCCircusState
  NixConf <- MCNixConf
  Login <- MCLogin
  PassKeys <- MCPass
  ScrubbedKeys <- MCScrubbed
  TmpKeys <- MCTmp
  CredentialKeys <- MCCredentialKeys
  DefaultEgressAllow <- MCEgress
  ModelHosts <- MCModelHosts
  Loopback <- MCLoopback
  Servers = {moxy, justus}
  ProviderCodes = {0, 1, 126}
  Launches <- MCLaunches
  Readers = {r1, r2}
  BufferLines = 2
  GiveUpAfter = 2
  SocketRoom = 1
  MaxLines = 3
  MaxRuns = 2
  Calls = {c1, c2}
  Sites = {"forge", "api", "localhost"}
  Allowed = {"forge", "localhost"}
  LoopbackSites = {"localhost"}
  Addresses = {"public", "loopback"}
  LoopbackAddresses = {"loopback"}
  Bearers = {k1, k2}
  Permissive = FALSE
  Keys = {"k"}
  CostRuns = {"t1", "t2"}
  TeeRuns = {"t1", "t2"}
  MaxRecords = 2
  MaxResponses = 3
  ToolCalls = {"call"}
  HookRuns = {"h1", "h2"}
  MaxReopen = 2
  MaxPending = 1
  MaxPrompts = 2
  MaxFired = 3
  Frontends = {"f1", "f2"}
  SessionIds = {"s1"}
  MaxForgotten = 1
CHECK_DEADLOCK FALSE
INVARIANT ResultIsTrue
INVARIANT UnitIsContained
INVARIANT LinesReachReader
 
INVARIANT StatusStands
PROPERTY UnitEnds
