------------------------ MODULE TripAuthority_proofs ------------------------
(***************************************************************************)
(* What follows from the abstract specification of rides alone.  Every     *)
(* module shown to implement it inherits these theorems: the search, the   *)
(* booking path and, through its own instance, the locked handlers.        *)
(*                                                                         *)
(* Nobody being on two rides is inductive only together with the agreement *)
(* of the two columns: a trip that is still open has no driver who could   *)
(* be given another ride meanwhile.                                        *)
(***************************************************************************)
EXTENDS TripAuthority, TLAPS

ColumnsTyped == status \in [Trips -> TripStatus] /\ assigned \in [Trips -> Drivers \cup {None}]

\* A ride before its acceptance has no driver, one under way or completed has one.
ColumnsAgree ==
  \A t \in Trips :
    /\ status[t] \in {"absent", "requested"} => assigned[t] = None
    /\ status[t] \in DRIVER_ACTIVE_TRIP_STATUSES \cup {"completed"} => assigned[t] \in Drivers

OneRideEach ==
  \A d \in Drivers : \A t, u \in driver_active_trip_ids(d) : t = u

AuthorityInv == ColumnsTyped /\ ColumnsAgree /\ OneRideEach

\* An empty table, and the INSERT of a ride.
LEMMA AuthorityInit == Init => AuthorityInv
<1> SUFFICES ASSUME Init PROVE AuthorityInv
  OBVIOUS
<1>1. status = [t \in Trips |-> "absent"] /\ assigned = [t \in Trips |-> None]
  BY DEF Init
<1>2. ColumnsTyped
  BY <1>1 DEF ColumnsTyped, TripStatus
<1>3. ColumnsAgree /\ OneRideEach
  BY <1>1 DEF ColumnsAgree, OneRideEach, driver_active_trip_ids, DRIVER_ACTIVE_TRIP_STATUSES
<1> QED BY <1>2, <1>3 DEF AuthorityInv

\* One status is written and no driver, and nobody's ride begins by that.
LEMMA StatusWritten ==
  ASSUME AuthorityInv, NEW t \in Trips, NEW s \in TripStatus, status' = [status EXCEPT ![t] = s],
         UNCHANGED assigned,
         s \in DRIVER_ACTIVE_TRIP_STATUSES => status[t] \in DRIVER_ACTIVE_TRIP_STATUSES,
         s \in {"absent", "requested"} => status[t] \in {"absent", "requested"},
         s = "completed" => status[t] \in DRIVER_ACTIVE_TRIP_STATUSES
  PROVE  AuthorityInv'
<1>1. ColumnsTyped'
  BY DEF AuthorityInv, ColumnsTyped
<1>2. \A u \in Trips : status'[u] = IF u = t THEN s ELSE status[u]
  BY DEF AuthorityInv, ColumnsTyped
<1>3. ColumnsAgree'
  BY <1>2 DEF AuthorityInv, ColumnsAgree
<1>4. \A d \in Drivers : driver_active_trip_ids(d)' \subseteq driver_active_trip_ids(d)
  BY <1>2 DEF driver_active_trip_ids
<1>5. OneRideEach'
  BY <1>4 DEF AuthorityInv, OneRideEach
<1> QED BY <1>1, <1>3, <1>5 DEF AuthorityInv

\* An open ride is given to a driver who is on none.
LEMMA RideAssigned ==
  ASSUME AuthorityInv, NEW t \in Trips, NEW d \in Drivers, Assign(t, d)
  PROVE  AuthorityInv'
<1>1. /\ status \in [Trips -> TripStatus] /\ assigned \in [Trips -> Drivers \cup {None}]
      /\ status' = [status EXCEPT ![t] = "accepted"] /\ assigned' = [assigned EXCEPT ![t] = d]
  BY DEF AuthorityInv, ColumnsTyped, Assign
<1>2. ColumnsTyped'
  BY <1>1 DEF ColumnsTyped, TripStatus, DRIVER_ACTIVE_TRIP_STATUSES
<1>3. /\ \A u \in Trips : status'[u] = IF u = t THEN "accepted" ELSE status[u]
      /\ \A u \in Trips : assigned'[u] = IF u = t THEN d ELSE assigned[u]
  BY <1>1
<1>4. ColumnsAgree'
  BY <1>3 DEF AuthorityInv, ColumnsAgree
<1>5. driver_active_trip_ids(d)' \subseteq {t}
  BY <1>3 DEF Assign, driver_active_trip_ids
<1>6. \A e \in Drivers \ {d} : driver_active_trip_ids(e)' \subseteq driver_active_trip_ids(e)
  BY <1>3 DEF driver_active_trip_ids
<1>7. OneRideEach'
  BY <1>5, <1>6 DEF AuthorityInv, OneRideEach
<1> QED BY <1>2, <1>4, <1>7 DEF AuthorityInv

\* Every step keeps the columns in agreement.
LEMMA AuthorityStep == AuthorityInv /\ [Next]_vars => AuthorityInv'
<1> SUFFICES ASSUME AuthorityInv, [Next]_vars PROVE AuthorityInv'
  OBVIOUS
<1>1. ASSUME NEW t \in Trips, Book(t) PROVE AuthorityInv'
  <2>1. status[t] = "absent" /\ status' = [status EXCEPT ![t] = "requested"] /\ UNCHANGED assigned
    BY <1>1 DEF Book
  <2>2. "requested" \in TripStatus /\ "requested" \notin DRIVER_ACTIVE_TRIP_STATUSES
    BY DEF TripStatus, DRIVER_ACTIVE_TRIP_STATUSES
  <2> QED BY <2>1, <2>2, StatusWritten
<1>2. ASSUME NEW t \in Trips, NEW s \in {"reached", "in_progress", "completed", "cancelled"}, Move(t, s)
      PROVE  AuthorityInv'
  <2>1. status' = [status EXCEPT ![t] = s] /\ UNCHANGED assigned /\ status[t] \in EnteredFrom[s]
    BY <1>2 DEF Move
  <2>2. s \in TripStatus /\ s \notin {"absent", "requested"}
    BY DEF TripStatus, DRIVER_ACTIVE_TRIP_STATUSES
  <2>3. s # "cancelled" => status[t] \in DRIVER_ACTIVE_TRIP_STATUSES
    BY <2>1 DEF EnteredFrom, DRIVER_ACTIVE_TRIP_STATUSES
  <2>4. "cancelled" \notin DRIVER_ACTIVE_TRIP_STATUSES
    BY DEF DRIVER_ACTIVE_TRIP_STATUSES
  <2> QED BY <2>1, <2>2, <2>3, <2>4, StatusWritten
<1>3. CASE UNCHANGED vars
  <2>1. UNCHANGED <<status, assigned>>
    BY <1>3 DEF vars
  <2> QED BY <2>1 DEF AuthorityInv, ColumnsTyped, ColumnsAgree, OneRideEach, driver_active_trip_ids
<1> QED BY <1>1, <1>2, <1>3, RideAssigned DEF Next

\* A ride's status and driver columns never disagree and no driver is on two rides at once, whatever
\* handlers write them, for any number of trips and drivers (_create_trip, _accept_trip, _update_trip_status).
THEOREM RidesAgree == Spec => [](ColumnsAgree /\ OneRideEach)
<1>1. AuthorityInv => ColumnsAgree /\ OneRideEach
  BY DEF AuthorityInv
<1> QED BY <1>1, AuthorityInit, AuthorityStep, PTL DEF Spec

\* A finished ride is never touched again, and the driver of a ride is written once: no cancellation
\* or release takes the driver off the row, and none gives the ride to another.
THEOREM RidesAreFinal ==
  Spec => [][\A t \in Trips : /\ status[t] \in Finished => status'[t] = status[t]
                              /\ assigned[t] # None \/ status[t] \in Finished => assigned'[t] = assigned[t]]_vars
<1> DEFINE Final == \A t \in Trips : /\ status[t] \in Finished => status'[t] = status[t]
                                     /\ assigned[t] # None \/ status[t] \in Finished => assigned'[t] = assigned[t]
<1>1. AuthorityInv /\ Next => Final
  <2> SUFFICES ASSUME AuthorityInv, Next, NEW t \in Trips
               PROVE  /\ status[t] \in Finished => status'[t] = status[t]
                      /\ assigned[t] # None \/ status[t] \in Finished => assigned'[t] = assigned[t]
    OBVIOUS
  <2>0. status \in [Trips -> TripStatus] /\ assigned \in [Trips -> Drivers \cup {None}]
    BY DEF AuthorityInv, ColumnsTyped
  <2>1. ASSUME NEW u \in Trips, Book(u)
        PROVE  /\ status[t] \in Finished => status'[t] = status[t]
               /\ assigned[t] # None \/ status[t] \in Finished => assigned'[t] = assigned[t]
    BY <2>0, <2>1 DEF Book, Finished
  <2>2. ASSUME NEW u \in Trips, NEW d \in Drivers, Assign(u, d)
        PROVE  /\ status[t] \in Finished => status'[t] = status[t]
               /\ assigned[t] # None \/ status[t] \in Finished => assigned'[t] = assigned[t]
    BY <2>0, <2>2 DEF Assign, Finished
  <2>3. ASSUME NEW u \in Trips, NEW s \in {"reached", "in_progress", "completed", "cancelled"}, Move(u, s)
        PROVE  /\ status[t] \in Finished => status'[t] = status[t]
               /\ assigned[t] # None \/ status[t] \in Finished => assigned'[t] = assigned[t]
    <3>1. status[u] \notin Finished
      BY <2>3 DEF Move, EnteredFrom, Finished, DRIVER_ACTIVE_TRIP_STATUSES
    <3> QED BY <2>0, <2>3, <3>1 DEF Move
  <2> QED BY <2>1, <2>2, <2>3 DEF Next
<1> HIDE DEF Final
<1>2. AuthorityInv /\ [Next]_vars => [Final]_vars
  BY <1>1
<1>3. Spec => [][Final]_vars
  BY <1>2, AuthorityInit, AuthorityStep, PTL DEF Spec
<1> QED BY <1>3 DEF Final
=============================================================================
