-------------------------- MODULE MCClientHeartbeat --------------------------
(* Constants of ClientHeartbeat for TLC: those of the proxy. *)
EXTENDS ClientHeartbeat, MCEventStreamProxy

MCPrompt == {c2}
MCLeavers == {c1}
=============================================================================
