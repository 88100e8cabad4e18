CONSTANTS
  Req = {r1, r2, r3}
  Email = {e1, e2}
  Name = {Bob, bob}
  Base = {b}
  slugify <- SameSlug
  Suffix = {x}
  MaxRetry = 1
  MaxFaults = 2
  None = None
SPECIFICATION FairSpec
INVARIANTS AccountsWhole KeysUnique ErrorsHaveCauses
PROPERTY EveryoneAnswered
