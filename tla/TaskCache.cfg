SPECIFICATION ExpirySpec
CONSTANTS
  Kinds <- SomeKinds
  WriteOps <- AllOps
  Writers = {w1, w2}
  Readers = {r1}
  MaxCommits = 2
  RedisFails = TRUE
  None = None
INVARIANTS TypeOK
PROPERTIES EventuallyFresh
