\* Three requests, so that a third can undo what two have raced to.
CONSTANTS
  WorkOrder = {w1, w2}
  Request = {r1, r2, r3}
  Details = {d1}
  NULL = NULL
SPECIFICATION Spec
SYMMETRY Symmetry
INVARIANTS
  TypeOK
  OneRowPerWorkOrder
  ConflictOnlyUnderRace
  StampedIsAnnounced
PROPERTIES
  UndisturbedStepsImplementLifecycle
