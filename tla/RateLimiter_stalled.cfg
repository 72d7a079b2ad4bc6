SPECIFICATION Spec
CONSTANTS
  Tenants = {t1}
  Handlers = {h1, h2}
  max_per_window = 2
  window_size = 4
  TicksPerSecond = 2
  MaxStall = 2
  MaxTime = 8
SYMMETRY HandlerSymmetry
INVARIANTS
  TypeOK
  BurstBound
  RetryAfterIsClose
PROPERTY RefusedOnlyWhenSpent
