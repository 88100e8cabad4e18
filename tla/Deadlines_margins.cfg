CONSTANTS
  Second = 2
  MaxDeliver = 3
  AckWait = 3
  NakDelay = 1
  PublishLag = 1
  PullWait = 1
  RunMax = 2
  FinishMax = 1
  PostMax = 1
  RetryDelay = 1
  Retries = 2
  StaleAfter = 5
  StaleQueuedAfter = 17
  SweepEvery = 2
  MaxTime = 33
SPECIFICATION Spec
INVARIANTS TypeOK LiveWorkKept RetryKept PostsBounded SettledInTime
