CONSTANTS
  Environments <- MCEnvironment
  Blank = Blank
  Junk = Junk
  NoPolicy = NoPolicy
  Producers = {p1}
  worker = worker
  MaxFaults = 0
SPECIFICATION Spec
CHECK_DEADLOCK FALSE
INVARIANTS
  ConnectSucceeds
