CONSTANTS
  Exec = {e1}
  Poison = {}
  Webhook = {e1}
  Dispatcher = {d1}
  Workers = {d1}
  HostOf <- OwnHost
  MaxDeliver = 2
  FinishAttempts = 2
  MaxMsgs = 2
  LateWork = FALSE
  MaxFaults = 0
  None = None
SPECIFICATION FairSpec
PROPERTY WebhookOnEveryEnd
