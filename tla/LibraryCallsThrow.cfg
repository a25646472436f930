CONSTANTS
  Thread = {t1, t2}
  Fn <- OnePerFamily
  Cap <- OneSlot
  Nobody = Nobody
SPECIFICATION Spec
CHECK_DEADLOCK FALSE
INVARIANTS NothingToCatch
