CONSTANTS
  OrderIds = {o1, o2}
  Times = {t1, t2}
  Malformed = malformed
  MaxBatch = 2
SPECIFICATION Spec
PROPERTIES ImplementsLifecycle FailedCallsChangeNothing
