--------------------------- MODULE MCRemotePlayer ---------------------------
EXTENDS RemotePlayer

\* A board of one dimension, and the gun turned either way along it.
MCDirections == [Axis -> {-1, 1}]
=============================================================================
