--------------------------- MODULE MCGatewayLock ---------------------------
(* Small instances of GatewayLock for TLC.                                 *)
EXTENDS GatewayLock
=============================================================================
