----------------------- MODULE MC_DriverAvailability -----------------------
(* One driver and two trips: the late commands of the first ride can hit   *)
(* the second.  Drivers share no Redis key, so a second one adds nothing.  *)
EXTENDS DriverAvailability
=============================================================================
