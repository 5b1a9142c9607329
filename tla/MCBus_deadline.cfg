CONSTANTS
  Jobs = {j1, j2}
  j1 = j1
  j2 = j2
  m1 = m1
  m2 = m2
  unwired = unwired
  key = key
  Models = {m1}
  Routed = {m1}
  Wired = {m1}
  NoModel = NoModel
  Days = {1, 2}
  PricedDays = {1}
  NoDay = NoDay
  NoCost = NoCost
  Keys = {key}
  Submits = {s1, s2}
  Awaited = {s1}
  Requests <- QueueRequests
  Asks <- QueueAsks
  NoSubmit = NoSubmit
  NoJob = NoJob
  ForeignMsgs <- Poison
  MaxAttempts = 2
  MaxFaults = 1
SPECIFICATION FairSpec
INVARIANTS
  CommittedMeansSettled
PROPERTIES
  NoCallAfterDeadline
  JobsFinish
  PollEnds
