SPECIFICATION Spec
CONSTANTS
  Threads = {t1, t2}
  Tokens = {a}
  NoToken = NoToken
  MaxRegistrations = 2
INVARIANT HeldIsCollected
CHECK_DEADLOCK FALSE
