CONSTANTS
  Gateway = {g1}
  Dispatcher = {d1}
  Migrator = {m1}
  Versions <- Rolling
  MaxFaults = 3
  None = None
SPECIFICATION FairSpec
INVARIANTS AppliedInOrder ServesMigrated ReadyIsWired
PROPERTY EventuallyUp
