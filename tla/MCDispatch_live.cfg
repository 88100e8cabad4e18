CONSTANTS
  Exec = {e1}
  Poison = {p1}
  Webhook = {e1}
  Dispatcher = {d1}
  Workers = {w1}
  HostOf <- SameHost
  MaxDeliver = 2
  FinishAttempts = 1
  MaxMsgs = 1
  LateWork = FALSE
  MaxFaults = 1
  None = None
SPECIFICATION FairSpec
INVARIANT ResultMatchesRow
PROPERTIES
  EventuallySettled
  ShutdownCompletes
