SPECIFICATION Spec
CONSTANTS
  MaxPromises = 3
  Threads = {t1, t2}
  Free = Free
  undef = undef
  terr = terr
  evil = evil
  alien = alien
  Undefined = undef
  TypeErr = terr
  Plain <- MCPlain
  Throwing <- MCThrowing
  Foreign <- MCForeign
  ScriptValues <- AllValues
  Reasons <- PlainValues
  ScriptHandlers <- AllHandlers
INVARIANTS SettledHasNoReactions JobsFitOutcome SoleHolder
PROPERTY SettleOnce
CHECK_DEADLOCK FALSE
