\* Two PATCH calls race past the check of execute.
CONSTANTS
  WorkOrder = {w1}
  Request = {r1, r2}
  Details = {d1}
  NULL = NULL
SPECIFICATION Spec
PROPERTIES
  StatusNeverGoesBack
