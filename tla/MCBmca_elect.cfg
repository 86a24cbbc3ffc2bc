SPECIFICATION Spec
CONSTANTS
  Bridge = {1, 2, 3}
  Ports = 2
  Link <- Ring
  Priority = {1, 2, 3}
  Default = 2
  TIMEOUT = 2
  MaxSteps = 255
  MaxHops = 8
  SETTLE = 9
  MaxChanges = 1
  NULL = NULL
INVARIANTS OneSlave GmIsBest Converges
