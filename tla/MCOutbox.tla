------------------------------- MODULE MCOutbox -------------------------------
(***************************************************************************)
(* Outbox for TLC: a chat message and a control message of one record      *)
(* each; or one message of two records.                                    *)
(***************************************************************************)
EXTENDS Outbox, TLC

CONSTANTS m1, m2, r1, r2

MCMessageOf == r1 :> m1 @@ r2 :> m2

MCKindsOf == m1 :> {"direct", "copies", "group"} @@ m2 :> {"control"}

\* One message, with a copy for each of two devices.
MCCopiesMessageOf == r1 :> m1 @@ r2 :> m1

MCCopiesKindsOf == m1 :> {"copies"}
=============================================================================
