CONSTANTS
  Controllers = {c1, c2}
  Listeners = {l1, l2}
  MaxRetries = 2
  CloseMayFail = TRUE
  MaxSessions = 2
  MaxMessages = 1
SPECIFICATION Spec
SYMMETRY Symmetry
INVARIANTS TypeOK ConnectedMeansOpen LiveQueueIsClean DeliveredInOrder HandlersExclude
