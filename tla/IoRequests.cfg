CONSTANTS
  Coros = {c1, c2, c3}
  Ctxs = {x1, x2, x3, x4}
  None = None
SPECIFICATION IoFairSpec
INVARIANTS IoTypeOK ContextsOwned ReadyHasResult
PROPERTY EveryContextFreed
