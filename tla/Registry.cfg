SPECIFICATION FairSpec
CONSTANTS
  Threads = {t1, t2}
  Tokens = {a, b}
  NoToken = NoToken
  MaxRegistrations = 2
INVARIANTS TypeOK CleanupExclusive DeadIsCollected
PROPERTIES NoOtherLeaves Finalized
CHECK_DEADLOCK FALSE
