---------------------------- MODULE MC_KissLink ----------------------------
(***************************************************************************)
(* Model-checking instance of KissLink.                                    *)
(***************************************************************************)
EXTENDS KissLink

=============================================================================
