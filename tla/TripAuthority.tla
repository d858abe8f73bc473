--------------------------- MODULE TripAuthority ---------------------------
(***************************************************************************)
(* What PostgreSQL promises about rides, with every handler atomic: a trip *)
(* is booked, given to at most one driver, moved forward, and closed once. *)
(* `TripLifecycle` implements this with row locks and interleaved          *)
(* transactions; `DriverAvailability` builds on it.                        *)
(***************************************************************************)
CONSTANTS Trips,    \* rows of the Trip table
          Drivers,  \* rows of the Driver table
          None      \* SQL NULL

ASSUME NoneIsNobody == None \notin Drivers

VARIABLES status,    \* Trip.status_id.status_code; "absent" before the INSERT
          assigned   \* Trip.driver_id

vars == <<status, assigned>>

\* Statuses in which a driver is committed to the trip.
DRIVER_ACTIVE_TRIP_STATUSES == {"accepted", "reached", "in_progress"}

TripStatus ==
  {"absent", "requested", "completed", "cancelled"} \cup DRIVER_ACTIVE_TRIP_STATUSES

Finished == {"completed", "cancelled"}

\* From which statuses each status may be entered, over all the handlers.
EnteredFrom ==
  [reached     |-> {"accepted"},
   in_progress |-> {"accepted", "reached"},
   completed   |-> {"in_progress"},
   cancelled   |-> {"requested"} \cup DRIVER_ACTIVE_TRIP_STATUSES]

driver_active_trip_ids(d) ==
  {t \in Trips : assigned[t] = d /\ status[t] \in DRIVER_ACTIVE_TRIP_STATUSES}

Init == /\ status = [t \in Trips |-> "absent"]
        /\ assigned = [t \in Trips |-> None]

Book(t) ==
  /\ status[t] = "absent"
  /\ status' = [status EXCEPT ![t] = "requested"]
  /\ UNCHANGED assigned

Assign(t, d) ==
  /\ status[t] = "requested" /\ assigned[t] = None
  /\ driver_active_trip_ids(d) = {}
  /\ status' = [status EXCEPT ![t] = "accepted"]
  /\ assigned' = [assigned EXCEPT ![t] = d]

Move(t, s) ==
  /\ status[t] \in EnteredFrom[s]
  /\ status' = [status EXCEPT ![t] = s]
  /\ UNCHANGED assigned

Next == \E t \in Trips :
          \/ Book(t)
          \/ \E d \in Drivers : Assign(t, d)
          \/ \E s \in {"reached", "in_progress", "completed", "cancelled"} : Move(t, s)

Spec == Init /\ [][Next]_vars
=============================================================================
