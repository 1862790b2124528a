SPECIFICATION JugglerSpec
CONSTANTS
  None = None
  Calls = {c1, c2, c3}
  Aliases = {a1}
  Ports = {p1}
  Verbs = {"resolve", "stop", "stopall"}
  ZombieRefuses = FALSE
  MaxFaults = 1
  Downloads = {"d1", "d2"}
  Processes = {"daemon", "cli"}
  MaxByHand = 1
  MaxCrashes = 1
INVARIANT ServersAccounted
INVARIANT StopsHold
PROPERTY SlotsImplemented
INVARIANT ModelStands
PROPERTY LauncherSettles
