CONSTANTS
  Handle = {h1, h2, h3}
  KeyId = {k1, k2, k3}
  NullId = NullId
  Thread = {t1, t2}
  Name = {n1, n2}
  Capacity = 2
  IdBase = 4
  Block = {b1, b2, b3}
  Null = Null
  Buffer = {v1, v2}
  Fixed = {f1, f2}
  Secret = {s1, s2}
  Zero = Zero
  NoBlock = NoBlock
  MaxSize = 2
  StoredId = {1, 2}
  Key = {x, y}
  NoKey = NoKey
  Text = {salt, info}
  Empty = Empty
  TooLong = TooLong
  HashLen = 2
  CounterRange = 4
SPECIFICATION MCSpec
SYMMETRY Symmetry
INVARIANTS OneOwner BlocksOwned KeysWhole SecretsHeld DerivesAsGiven
PROPERTIES OwnersKeep
