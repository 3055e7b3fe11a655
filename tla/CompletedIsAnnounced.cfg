\* The row is saved, and the send fails.
CONSTANTS
  WorkOrder = {w1}
  Request = {r1, r2}
  Details = {d1}
  NULL = NULL
SPECIFICATION Spec
INVARIANTS
  CompletedIsAnnounced
