CONSTANTS
  Unset = Unset
  Infinite = Infinite
  Blank = Blank
  Junk = Junk
  MaxTtl = 9
  Hottest = 1
  Environments <- MCEnvironments
  Submissions <- MCSubmissions
  SubmittedAt <- MCSubmittedAt
  Statuses = {400, 408, 499, 500}
  TokenRate = 1
  RequestWait = 1
  Window = 3
  Levels <- MCLevels
  LoopAttempts = 4
  SdkResends = 2
SPECIFICATION Spec
CHECK_DEADLOCK FALSE
INVARIANTS
  RetryTypeOK
  SpentWithinBudget
  ResultInTime
  NoTailBeyondTimeout
  HonouredOrRefused
  AnswerIsFinal
PROPERTY
  LoopIsTheWorkers
