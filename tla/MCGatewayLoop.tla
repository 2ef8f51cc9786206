----------------------------- MODULE MCGatewayLoop -----------------------------
(* Values of GatewayLoop's constants for TLC: one lane with one slot and two *)
(* tasks, so that one is queued behind the other when a signal comes.        *)
EXTENDS GatewayLoop, TLC

CONSTANTS main, a, b

MCLaneOf == (a :> main) @@ (b :> main)

=============================================================================
