CONSTANTS
  Calls = {k1, k2}
  Adapters = {a1, a2}
  Injected = {a2}
  Names = {n1, n2}
  MaxClients = 2
  Foreign = {o1}
  None = None
  MaxRetries = 1
  RecvWindow = 1
  MaxStimuli = 4
SPECIFICATION Spec
SYMMETRY Symmetry
INVARIANTS ManagerTypeOK ActsOnceInTime AnswersAreTrue OnlyClaimsMislead LeaksOnlyAfterFailedClose FailuresStayRegistered
CHECK_DEADLOCK FALSE
