SPECIFICATION FairSpec
CONSTANTS
  None = None
  Poke = Poke
  Requests = {i1, n1}
  Nows = {n1}
  MaxAttempts = 2
  MaxTurns = 2
INVARIANT RestartIsFinal
INVARIANT RestartSettles
PROPERTY AskedOnce
PROPERTY RequestIsAsked
