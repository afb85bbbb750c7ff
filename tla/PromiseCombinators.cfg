\* The budget lets a script combine two promises of its own, or one twice.
\* A script need not call anything.
SPECIFICATION CombFairSpec
CHECK_DEADLOCK FALSE

CONSTANTS
  undef = undef
  terr = terr
  alien = alien
  x = x
  array = array
  errors = errors
  MaxPromises = 5
  MaxCombined = 1
  MaxDepth = 0
  Threads = {t1}
  Free = Free
  Undefined = undef
  TypeErr = terr
  ResultArray = array
  AggregateError = errors
  Plain <- MCPlain
  Throwing = {}
  Foreign <- MCForeign
  ScriptValues = {undef}
  Reasons = {undef}
  ScriptHandlers = {}
  Kinds <- MCKinds
  ElementValues <- MCElementValues

INVARIANTS
  CombTypeOK
  ResultsComplete
  FirstWins

PROPERTIES
  DecidedSettles
