------------------------- MODULE MC_TripLifecycle -------------------------
(* Two drivers, two trips and two server processes: enough for two drivers *)
(* to race for a trip, for one driver to tap two offers, and for any other *)
(* handler to come between the lock, the check and the commit.             *)
EXTENDS TripLifecycle
=============================================================================
