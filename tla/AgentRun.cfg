SPECIFICATION FairRunSpec
CONSTANTS
  Tools = {"build", "forge"}
  Allow = {"build"}
  MaxSteps = 2
  MaxReply = 2
  StopOnPass = TRUE
CHECK_DEADLOCK FALSE
INVARIANT RequestsAccepted
INVARIANT AccountsAgree
INVARIANT EndsWell
PROPERTY RunEnds
