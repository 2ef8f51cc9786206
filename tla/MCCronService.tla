---------------------------- MODULE MCCronService ----------------------------
(* Small instances of CronService for TLC; the configurations give the      *)
(* constants their values.                                                  *)
EXTENDS CronService, TLC
=============================================================================
