--------------------------- MODULE MCBingXWebSocket ---------------------------
EXTENDS BingXWebSocket, TLC

\* Streams are interchangeable.
Symmetry == Permutations(Streams)
=============================================================================
