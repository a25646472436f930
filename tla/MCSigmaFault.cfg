CONSTANTS
  i1 = i1
  i2 = i2
  r1 = r1
  r2 = r2
  alice = alice
  bob = bob
  carol = carol
  Initiator = {i1, i2}
  Responder = {r1, r2}
  PartyOf <- PeersPartyOf
  Expected <- PeersExpected
  Damaged = Damaged
  Nobody = Nobody
  MaxDamage = 0
  MaxFaults = 1
SPECIFICATION SigmaSpec
CHECK_DEADLOCK FALSE
PROPERTIES ErrorOnFault
