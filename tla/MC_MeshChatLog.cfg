\* The cleanup loop against the RX thread of one node, whose deliveries go
\* to the chat log.  Expiries of 1 with a clock up to 2 let a dedup key
\* expire and a late copy of its frame be delivered again.
CONSTANTS
    P1 = P1
    P2 = P2
    L1 = L1
    Origins <- MCOrigins
    Lines = {L1}
    Seqnos = {1}
    RouteExpiry = 1
    NeighborExpiry = 1
    DataSeenExpiry = 1
    MaxTime = 2

SPECIFICATION ChatSpec
SYMMETRY PeerSymmetry

INVARIANT DeliveryTypeOK
PROPERTY DedupKeptForWindow
