------------------------- MODULE MCWebSocketManager -------------------------
EXTENDS WebSocketManager, TLC

\* Controllers are interchangeable, and so are listeners.
Symmetry == Permutations(Controllers) \cup Permutations(Listeners)
=============================================================================
