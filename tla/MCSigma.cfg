CONSTANTS
  i1 = i1
  i2 = i2
  r1 = r1
  r2 = r2
  alice = alice
  bob = bob
  carol = carol
  Initiator = {i1, i2}
  Responder = {r1, r2}
  PartyOf <- MCPartyOf
  Expected <- MCExpected
  Damaged = Damaged
  Nobody = Nobody
  MaxDamage = 1
  MaxFaults = 1
SPECIFICATION MCSpec
CHECK_DEADLOCK FALSE
INVARIANTS UntouchedInBoth KeysPair
PROPERTIES KeepsPromise ResponderRecovers
