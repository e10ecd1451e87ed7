\* Three nodes that all hear each other; one process restart somewhere in
\* the run, at any point; no counter wrap within the bounds.
CONSTANTS
    A = A
    B = B
    C = C
    NoNode = NoNode
    Nodes <- MCNodes
    Links <- TriangleLinks
    OgmTtl = 2
    SeqMod = 8
    RouteExpiry = 0
    DataSeenExpiry = 0
    MaxTime = 1
    MaxSends = 2
    MaxRestarts = 1

SPECIFICATION Spec
SYMMETRY TriangleSymmetry

INVARIANT TypeOK
INVARIANT DedupWindow
INVARIANT DedupSound
INVARIANT RouteSeqBounded
