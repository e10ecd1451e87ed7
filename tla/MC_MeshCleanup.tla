--------------------------- MODULE MC_MeshCleanup ---------------------------
(***************************************************************************)
(* Model-checking instance of MeshCleanup: two peers, which the code       *)
(* treats alike, so the peers are symmetric.                               *)
(***************************************************************************)
EXTENDS MeshCleanup

CONSTANTS P1, P2

MCOrigins == {P1, P2}

PeerSymmetry == Permutations(MCOrigins)

=============================================================================
