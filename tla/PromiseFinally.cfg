SPECIFICATION Spec
CONSTANTS
  MaxPromises = 5
  Threads = {t1}
  Free = Free
  undef = undef
  terr = terr
  evil = evil
  alien = alien
  Undefined = undef
  TypeErr = terr
  Plain <- MCPlain
  Throwing <- MCThrowing
  Foreign <- MCForeign
  ScriptValues <- FinallyValues
  Reasons <- PlainValues
  ScriptHandlers <- FinallyOnly
INVARIANT FinallyWaits
CHECK_DEADLOCK FALSE
