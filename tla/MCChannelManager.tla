-------------------------- MODULE MCChannelManager --------------------------
(* Small instances of ChannelManager for TLC; the configurations give the   *)
(* constants their values.                                                  *)
EXTENDS ChannelManager, TLC
=============================================================================
