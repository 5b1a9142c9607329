CONSTANTS
  Environments <- MCEnvironments
  Blank = Blank
  Junk = Junk
  NoPolicy = NoPolicy
  Producers = {p1, p2}
  worker = worker
  MaxFaults = 3
SPECIFICATION FairSpec
CHECK_DEADLOCK FALSE
INVARIANTS
  BootTypeOK
  PublishedIsRunning
  ReadyHasTopic
PROPERTIES
  PolicyNeverVanishes
  WorkerComesUp
