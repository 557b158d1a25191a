------------------------- MODULE MCExecutionEngine -------------------------
EXTENDS ExecutionEngine, TLC

\* Workers, monitors, venues and identifiers are interchangeable.
Symmetry ==
  Permutations(Workers) \cup Permutations(Exchanges) \cup Permutations(OrderIds)
=============================================================================
