------------------------------ MODULE MCReplyTurn ------------------------------
(* Small instances of ReplyTurn for TLC; the configurations give the       *)
(* constants their values.                                                  *)
EXTENDS ReplyTurn, TLC
=============================================================================
