SPECIFICATION Spec
CONSTANTS
  Threads = {t1}
  Tokens = {a}
  NoToken = NoToken
  MaxRegistrations = 2
INVARIANT KeptUntilDone
CHECK_DEADLOCK FALSE
