\* Four requests: enqueue, two stages and completion, or a second round.
CONSTANTS
  WorkOrder = {w1, w2}
  Request = {r1, r2, r3, r4}
  Details = {d1}
  NULL = NULL
SPECIFICATION SerialSpec
SYMMETRY Symmetry
INVARIANTS
  StampsMatchStatus
PROPERTIES
  ImplementsLifecycle
  StatusNeverGoesBack
  FinishedOnlyOnce
  RemovedStaysRemoved
