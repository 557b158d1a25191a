CONSTANTS
  Streams = {s1, s2}
  MaxAttempts = 1
  MaxSockets = 3
  MaxRequests = 2
SPECIFICATION Spec
SYMMETRY Symmetry
INVARIANTS TypeOK DisconnectIsFinal SubscriptionsSurvive
CHECK_DEADLOCK FALSE
