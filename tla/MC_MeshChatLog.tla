--------------------------- MODULE MC_MeshChatLog ---------------------------
(***************************************************************************)
(* Model-checking instance of MeshChatLog: two peers, which the code and   *)
(* the chat log treat alike, so the peers are symmetric.                   *)
(***************************************************************************)
EXTENDS MeshChatLog

CONSTANTS P1, P2, L1

MCOrigins == {P1, P2}

PeerSymmetry == Permutations(MCOrigins)

=============================================================================
