SPECIFICATION FairSpec
CONSTANTS
  MaxPromises = 2
  Threads = {t1}
  Free = Free
  undef = undef
  terr = terr
  evil = evil
  alien = alien
  Undefined = undef
  TypeErr = terr
  Plain <- MCPlain
  Throwing <- MCThrowing
  Foreign <- MCForeign
  ScriptValues <- SelfValues
  Reasons <- PlainValues
  ScriptHandlers <- SimpleHandlers
PROPERTY SelfResolutionRejects
CHECK_DEADLOCK FALSE
