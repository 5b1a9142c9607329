CONSTANTS
  Window = 4
  Costs <- MCCosts
  MaxNow = 7
  MaxCalls = 3
  MaxGranted = 8
SPECIFICATION Spec
CHECK_DEADLOCK FALSE
INVARIANTS
  LimiterTypeOK
  Envelope
  WaitIsOwnCost
  LimiterInv
