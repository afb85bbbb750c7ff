SPECIFICATION FairSpec
CONSTANTS
  MaxPromises = 4
  Threads = {t1}
  Free = Free
  undef = undef
  terr = terr
  evil = evil
  alien = alien
  Undefined = undef
  TypeErr = terr
  Plain <- MCPlain
  Throwing <- MCThrowing
  Foreign <- MCForeign
  ScriptValues <- LoopValues
  Reasons <- PlainValues
  ScriptHandlers <- LoopHandlers
INVARIANTS TypeOK FulfilledIsPlain SoleHolder ReactionOrder
PROPERTY Served
CHECK_DEADLOCK FALSE
