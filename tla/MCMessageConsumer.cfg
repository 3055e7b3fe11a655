\* The deployed three attempts, with dead letters republished: the longest way a message can go.
CONSTANTS
  Message = {m1, m2}
  MaxRetries = 3
  Republish = TRUE
  MaxLosses = 1
  NULL = NULL
SPECIFICATION Spec
INVARIANTS
  TypeOK
  NoMessageLost
  AckedIsApplied
  GivenUpAfterRetries
  RetriesAreBounded
  OrderedWithoutLoss
PROPERTIES
  SettledUnlessHung
  ImplementsMessageFate
