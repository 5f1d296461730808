---------------------------- MODULE MCCallSession ----------------------------
(***************************************************************************)
(* CallSession for TLC: an account of one device and one of two, and a call *)
(* each way, which may cross.  Each run takes some of the devices and calls. *)
(***************************************************************************)
EXTENDS CallSession

CONSTANTS a, b1, b2, A, B, FromA, FromB

OwnerVal == [d \in Devices |-> IF d = a THEN A ELSE B]

PlacerVal == [c \in Calls |-> IF c = FromA THEN a ELSE b1]

InviteeVal == [c \in Calls |-> IF c = FromA THEN B ELSE A]

=============================================================================
