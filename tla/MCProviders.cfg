CONSTANTS
  Local = Local
  Oqs = {c1, c2}
  Null = Null
  Block = 3
  Rate = 3
  MaxFed = 4
  MaxSqueezed = 4
  MaxSession = 2
  CipherBlock = 2
  StreamBlock = 3
  CounterRange = 10
  TextLength = {0, 1, 2, 3, 8, 16}
  AadLength = {0, 1, 2, 3}
SPECIFICATION MCSpec
\* An exchange ends.
CHECK_DEADLOCK FALSE
INVARIANTS
  Sound
  Interop
  AlterationTold
  ArithmeticExact
  SealedOpens
  GroupExact
  SignaturesVerify
  VerifyIsEcdsa
  RsaExact
  DigestsExact
  RoundsExact
