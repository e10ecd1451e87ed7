\* Three nodes with distinct callsign shapes, one seqno each (an OGM or a
\* DATA frame).  The ogm_ttl of the nodes (1, 2, 3, from their YAML
\* documents) give frames forwarded never, once and twice.  The nodes'
\* callsigns differ, so there is no symmetry.
CONSTANTS
    A = A
    B = B
    C = C
    Nodes = {A, B, C}
    Callsign <- MCCallsign
    MeshDestCallsign <- MCMeshDest
    OgmTtl <- MCOgmTtl
    Payloads <- MCPayloads
    MaxSends = 1

SPECIFICATION Spec

INVARIANT TypeOK
INVARIANT RoundTrip
INVARIANT ForwardRule
INVARIANT DeliveredAsSent
INVARIANT AddressesDecode
