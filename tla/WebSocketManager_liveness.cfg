CONSTANTS
  Controllers = {c1, c2}
  Listeners = {l1}
  MaxRetries = 1
  CloseMayFail = TRUE
  MaxSessions = 2
  MaxMessages = 1
SPECIFICATION FairSpec
PROPERTIES ListenersReturn CallsReturn
