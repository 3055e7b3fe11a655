\* A message that failed MaxRetries times is republished without its envelope.
CONSTANTS
  Message = {m1}
  MaxRetries = 2
  Republish = TRUE
  MaxLosses = 0
  NULL = NULL
SPECIFICATION Spec
INVARIANTS
  RepublishedIsHandled
