CONSTANTS
  Controllers = {c1}
  Listeners = {l1}
  MaxRetries = 1
  CloseMayFail = FALSE
  MaxSessions = 2
  MaxMessages = 1
SPECIFICATION Spec
INVARIANT OpenMeansConnected
