CONSTANTS
  Jobs = {j1}
  j1 = j1
  j2 = j2
  m1 = m1
  m2 = m2
  unwired = unwired
  key = key
  Models <- AllModels
  Routed <- AllModels
  Wired <- Wirable
  NoModel = NoModel
  Days = {1}
  PricedDays = {1}
  NoDay = NoDay
  NoCost = NoCost
  Keys = {key}
  Submits = {s1, s2}
  Awaited = {s1, s2}
  Requests <- DuplicateRequests
  Asks <- AnyAsks
  NoSubmit = NoSubmit
  NoJob = NoJob
  ForeignMsgs = {}
  MaxAttempts = 1
  MaxFaults = 2
SYMMETRY MCSymmetry
SPECIFICATION Spec
INVARIANTS
  TypeOK
  RowTopicAgree
  SpendIsAttributed
  CallbackOnce
  PendingIsOwed
  GotIsFinal
  IndInv
PROPERTIES
  LifecycleSpec
