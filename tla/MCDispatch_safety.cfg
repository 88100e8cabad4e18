CONSTANTS
  Exec = {e1}
  Poison = {}
  Webhook = {e1}
  Dispatcher = {d1, d2}
  Workers = {d1, d2}
  HostOf <- OwnHost
  MaxDeliver = 2
  FinishAttempts = 2
  MaxMsgs = 2
  LateWork = TRUE
  MaxFaults = 2
  None = None
SPECIFICATION Spec
SYMMETRY Symmetry
INVARIANTS
  TypeOK
  ClaimExclusive
  CodeRunsAtMostOnce
  QueuedNeverRan
  SuccessIsGenuine
  OneVerdict
  ResultOrReaped
PROPERTIES
  TerminalIsFinal
  LifecycleSpec
