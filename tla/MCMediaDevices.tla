---------------------------- MODULE MCMediaDevices ----------------------------
(***************************************************************************)
(* MediaDevices for TLC: two requests, of one caller or of two, for what   *)
(* may get in each other's way.                                            *)
(***************************************************************************)
EXTENDS MediaDevices

CONSTANTS a, b

\* MediaDeviceSharePolicy's default, and one that shares nothing.
Default == {"mic", "camera"}
AllExclusive == Kind

Setup(want, caller, exclusive) == [want |-> want, caller |-> caller, exclusive |-> exclusive]

\* One caller asks again, or another one does.
MCSetups ==
  {Setup(<<"mic", "mic">>, <<a, a>>, Default),
   Setup(<<"camera", "camera">>, <<a, b>>, Default),
   Setup(<<"duplex", "mic">>, <<a, a>>, Default),
   Setup(<<"duplex", "speaker">>, <<a, b>>, AllExclusive),
   Setup(<<"speaker", "duplex">>, <<a, b>>, AllExclusive)}
=============================================================================
