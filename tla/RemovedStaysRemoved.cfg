\* A handler read the row before the compensation removed it.
CONSTANTS
  WorkOrder = {w1}
  Request = {r1, r2, r3}
  Details = {d1}
  NULL = NULL
SPECIFICATION Spec
PROPERTIES
  RemovedStaysRemoved
