------------------------- MODULE MC_MeshChatRestart -------------------------
(* One sender that restarts once and sends two different lines.           *)
EXTENDS MeshChatRestart

CONSTANTS P1, L1, L2
=============================================================================
