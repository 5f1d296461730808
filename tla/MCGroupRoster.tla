--------------------------- MODULE MCGroupRoster ---------------------------
(***************************************************************************)
(* GroupRoster for TLC: an owner, an admin, a member and one outsider.     *)
(***************************************************************************)
EXTENDS GroupRoster

CONSTANTS O, A, M, X
=============================================================================
