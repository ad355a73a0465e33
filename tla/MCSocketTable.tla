--------------------------- MODULE MCSocketTable ----------------------------
EXTENDS SocketTable, TLC

CONSTANTS p1, p2, c1, c2

\* Nothing, or what a closed connection left.
MCRemains == {<<NoPort, NoPeer>>} \cup Bindable \X Peer

Symmetry == Permutations({c1, c2})
=============================================================================
