SPECIFICATION Spec
CONSTANTS
  None = None
  Poke = Poke
  Requests = {i1, i2}
  Nows = {}
  MaxAttempts = 2
  MaxTurns = 2
PROPERTY NewestWins
