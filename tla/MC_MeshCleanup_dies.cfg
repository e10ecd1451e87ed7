\* A new key inserted while a comprehension iterates.
CONSTANTS
    P1 = P1
    P2 = P2
    Origins <- MCOrigins
    Seqnos = {1, 2}
    RouteExpiry = 1
    NeighborExpiry = 1
    DataSeenExpiry = 1
    MaxTime = 2

SPECIFICATION Spec
SYMMETRY PeerSymmetry

INVARIANT CleanupAlive
