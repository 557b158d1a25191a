-------------------------- MODULE MCExchangeManager --------------------------
EXTENDS ExchangeManager, TLC

\* Calls are interchangeable, and so are the names of the registry.
Symmetry == Permutations(Calls) \cup Permutations(Names)
=============================================================================
