---------------------------- MODULE MCCommandQueue ----------------------------
(* Values of CommandQueue's constants for TLC: two lanes, the second with a  *)
(* single task so that a reset meets lanes in different situations.          *)
EXTENDS CommandQueue, TLC

CONSTANTS main, cron, a, b, c, d

MCLaneOf == (a :> main) @@ (b :> main) @@ (c :> main) @@ (d :> cron)

=============================================================================
