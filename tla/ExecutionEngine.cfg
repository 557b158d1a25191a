CONSTANTS
  Workers = {w1, w2}
  Monitors = {m1}
  Exchanges = {x1, x2}
  OrderIds = {i1, i2}
  Times = {t1}
  MaxPositions = 1
  Malformed = malformed
  MaxBatch = 0
SPECIFICATION Spec
SYMMETRY Symmetry
INVARIANTS CeilingSlack KillSlack AnswersAreHonest RecordsAreNotShared
