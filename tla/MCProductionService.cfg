\* One work order, its message and its compensation, two attempts, PATCH calls to
\* COMPLETED (no other status is announced), three runs of handlers, two faults.
CONSTANTS
  WorkOrder = {w1}
  Request = {r1, r2, r3}
  Details = {}
  WorkOrderMessage = {m1}
  SagaMessage = {s1}
  PatchStatus = {"COMPLETED"}
  MaxRetries = 2
  MaxLosses = 1
  MaxFaults = 2
  NULL = NULL
SPECIFICATION Spec
SYMMETRY Symmetry
INVARIANTS
  TypeOK
  AckedOrderIsKept
  OrderIsAccountedFor
  CompensationHolds
PROPERTIES
  ReceiptUndoesNoWork
\* The handlers that may run are used up, or all is settled.
CHECK_DEADLOCK FALSE
