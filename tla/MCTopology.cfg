\* Two processes that overlap, one message (messages do not meet), dead letters republished, the broker replaced twice.
CONSTANTS
  Process = {p1, p2}
  Message = {m1}
  Republish = TRUE
  MaxWipes = 2
SPECIFICATION Spec
SYMMETRY Symmetry
INVARIANTS
  TypeOK
  DeadLettersAreKept
  RightStrategy
  KeepsToItsQueues
PROPERTIES
  RoutedOnceSetUp
