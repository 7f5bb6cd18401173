---------------------------- MODULE MCCronSched ----------------------------
(* Two rows of the schedule file, a day of three instants, one set_zaman   *)
(* request on top of the boot-time init_cron.                              *)
EXTENDS CronSched

CONSTANTS e1, e2

MCAt == e1 :> 1 @@ e2 :> 2
=============================================================================
