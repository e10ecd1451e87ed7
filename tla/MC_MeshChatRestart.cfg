\* One sender, one seqno, two different chat lines and one restart: the
\* line sent after the restart reuses the key of the first.  Expiries of 1
\* with a clock up to 2 let the dedup key expire before the second line
\* arrives, or not.
CONSTANTS
    P1 = P1
    L1 = L1
    L2 = L2
    Origins = {P1}
    Lines = {L1, L2}
    Seqnos = {1}
    RouteExpiry = 1
    NeighborExpiry = 1
    DataSeenExpiry = 1
    MaxTime = 2
    MaxRestarts = 1

SPECIFICATION RestartSpec

INVARIANT LinesLogged
