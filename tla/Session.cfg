SPECIFICATION Spec
CONSTANTS
  a = a
  b = b
  s1 = s1
  Launches = {a, b}
  Sessions = {a, b, s1}
  None = None
  Refused = Refused
  Unpinnable = Unpinnable
  Pool <- MCPool
  Invocations <- MCInvocations
  Starts <- MCStarts
  Default <- MCDefault
  Digests <- MCDigests
  Boundaries <- MCBoundaries
  InitialRegistry <- MCRegistry
  InitialSpecs <- MCSpecs
  MaxTroubles = 1
  MaxRestarts <- MCRestarts
INVARIANTS  GatesAgree
PROPERTY PinStands
