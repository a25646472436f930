CONSTANTS
  Thread = {t1, t2}
  Fn <- AllFn
  Cap <- OneSlot
  Nobody = Nobody
SPECIFICATION FairSpec
CHECK_DEADLOCK FALSE
INVARIANTS HandleResolves NoLeak VerdictTruthful
PROPERTIES KeepsPromise CallsReturn
