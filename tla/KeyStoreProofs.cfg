CONSTANTS
  Thread = {t1, t2}
  Key = {k1, k2}
  Oversized = {k3}
  Capacity = 2
  IdBase = 1
  NoKey = NoKey
  Nobody = Nobody
SPECIFICATION MCSpec
INVARIANTS IInv SlotsWhole CopyNotTorn RefsExact
PROPERTIES OnlyDestroyTouches KeepsPromise LockReleased ObjectsKeepPromise FreedInTheEnd
