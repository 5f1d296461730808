---------------------------- MODULE MCPskRotation ----------------------------
(***************************************************************************)
(* PskRotation for TLC.                                                    *)
(***************************************************************************)
EXTENDS PskRotation, TLC

\* The two devices do the same things.
Symmetry == Permutations(Device)
=============================================================================
