--------------------------- MODULE TripLifecycle ---------------------------
(***************************************************************************)
(* The ride state machine as the server runs it: several transactions at   *)
(* once, each taking SELECT ... FOR UPDATE on the Trip row, checking, then *)
(* (acceptance, completion, driver cancellation) the Driver row as well,   *)
(* and committing.  Socket commands first read the trip without a lock to  *)
(* decide who is speaking; that read can be old when the lock is granted.  *)
(*                                                                         *)
(* A statement that waits for a row lock is an action whose guard is that  *)
(* the lock is free.  A check that fails returns from the handler: the     *)
(* transaction ends and nothing is written.  Redis and the notifications   *)
(* come after the commit and are modelled in `DriverAvailability` and      *)
(* `Dispatch`; money is in `TripPayment`.                                  *)
(***************************************************************************)
EXTENDS Naturals, FiniteSets

CONSTANTS Trips,    \* rows of the Trip table
          Drivers,  \* rows of the Driver table
          Procs,    \* server processes and Celery workers
          None      \* SQL NULL

ASSUME TripsFinite == IsFiniteSet(Trips)
ASSUME NoneIsNobody == None \notin Drivers /\ None \notin Trips /\ None \notin Procs

VARIABLES
  status,      \* Trip.status_id.status_code
  assigned,    \* Trip.driver_id
  closedBy,    \* Trip.cancelled_by; "operator_end" stands for Trip.end_rule being set
  totalTrips,  \* Driver.total_trips
  fit,         \* may_operate, not blocked, has a vehicle, not in a lockout
  lockT,       \* which process holds the Trip row lock
  lockD,       \* which process holds the Driver row lock
  tx           \* what each server process is in the middle of

rows == <<status, assigned, closedBy, totalTrips, fit>>
vars == <<status, assigned, closedBy, totalTrips, fit, lockT, lockD, tx>>

AUTH == INSTANCE TripAuthority WITH status <- status, assigned <- assigned

DRIVER_ACTIVE_TRIP_STATUSES == {"accepted", "reached", "in_progress"}

TripStatus ==
  {"absent", "requested", "completed", "cancelled"} \cup DRIVER_ACTIVE_TRIP_STATUSES

CANCELLABLE_STATUSES == {"requested", "accepted", "reached"}

\* Mutants of the table below: completion accepted before the start; a completed
\* trip completed again; a cancelled trip cancelled again by somebody else.
allowed_transitions_unstarted ==
  [reached |-> {"accepted"}, in_progress |-> {"accepted", "reached"},
   completed |-> {"reached", "in_progress"},
   cancelled |-> {"requested", "accepted", "reached", "in_progress"}]

allowed_transitions_recomplete ==
  [reached |-> {"accepted"}, in_progress |-> {"accepted", "reached"},
   completed |-> {"in_progress", "completed"},
   cancelled |-> {"requested", "accepted", "reached", "in_progress"}]

allowed_transitions_recancel ==
  [reached |-> {"accepted"}, in_progress |-> {"accepted", "reached"},
   completed |-> {"in_progress"},
   cancelled |-> {"requested", "accepted", "reached", "in_progress", "cancelled"}]

\* _update_trip_status: target status -> statuses it may be entered from.
allowed_transitions ==
  [reached     |-> {"accepted"},
   in_progress |-> {"accepted", "reached"},
   completed   |-> {"in_progress"},
   cancelled   |-> {"requested", "accepted", "reached", "in_progress"}]

DriverCommands == {"reached", "in_progress", "completed", "cancelled"}

Ops == {"accept", "rider_cancel", "driver_cancel", "operator_cancel",
        "operator_end", "auto_cancel", "socket_rider_cancel"} \cup DriverCommands

Closers == {"", "rider", "driver", "admin", "system", "operator_end"}

\* Mutant: the operator's cancellation writes a value that is not a choice of the field.
cancelled_by_unknown ==
  [cancelled |-> "driver", socket_rider_cancel |-> "rider", rider_cancel |-> "rider",
   driver_cancel |-> "driver", operator_cancel |-> "operator", auto_cancel |-> "system"]

\* Whom each cancelling handler writes into Trip.cancelled_by.
cancelled_by ==
  [cancelled |-> "driver", socket_rider_cancel |-> "rider", rider_cancel |-> "rider",
   driver_cancel |-> "driver", operator_cancel |-> "admin", auto_cancel |-> "system"]

Idle == [pc |-> "idle", op |-> None, trip |-> None, driver |-> None]

\* Mutant: a driver waiting at the pickup does not count as on a ride.
driver_active_trip_ids_reached(d) ==
  {t \in Trips : assigned[t] = d /\ status[t] \in {"accepted", "in_progress"}}

\* The plain read that the acceptance makes while it holds the Driver row.
driver_active_trip_ids(d) ==
  {t \in Trips : assigned[t] = d /\ status[t] \in DRIVER_ACTIVE_TRIP_STATUSES}

Init ==
  /\ status = [t \in Trips |-> "absent"]
  /\ assigned = [t \in Trips |-> None]
  /\ closedBy = [t \in Trips |-> ""]
  /\ totalTrips = [d \in Drivers |-> 0]
  /\ fit \in [Drivers -> BOOLEAN]
  /\ lockT = [t \in Trips |-> None]
  /\ lockD = [d \in Drivers |-> None]
  /\ tx = [p \in Procs |-> Idle]

-----------------------------------------------------------------------------
(* Steps that the handlers share.                                          *)

\* The unlocked read of a socket command: who is this, and may they speak?
Authorise(p, op, t, d) ==
  /\ tx[p].pc = "idle"
  /\ tx' = [tx EXCEPT ![p] = [pc |-> "authorised", op |-> op, trip |-> t, driver |-> d]]
  /\ UNCHANGED <<rows, lockT, lockD>>

\* SELECT ... FOR UPDATE on the Trip row, the checks under it having passed.
TakeTrip(p, op, t, d) ==
  /\ lockT[t] = None
  /\ lockT' = [lockT EXCEPT ![t] = p]
  /\ tx' = [tx EXCEPT ![p] = [pc |-> "trip_locked", op |-> op, trip |-> t, driver |-> d]]
  /\ UNCHANGED <<rows, lockD>>

\* Mutant: the Driver row lock outlives the transaction.
Release_driver_kept(p) ==
  /\ lockT' = [t \in Trips |-> IF lockT[t] = p THEN None ELSE lockT[t]]
  /\ tx' = [tx EXCEPT ![p] = Idle]
  /\ UNCHANGED lockD

\* End of the transaction: its locks are gone.
Release(p) ==
  /\ lockT' = [t \in Trips |-> IF lockT[t] = p THEN None ELSE lockT[t]]
  /\ lockD' = [d \in Drivers |-> IF lockD[d] = p THEN None ELSE lockD[d]]
  /\ tx' = [tx EXCEPT ![p] = Idle]

\* A socket command whose check under the lock fails returns at once.
Refused(p) ==
  /\ lockT[tx[p].trip] = None
  /\ Release(p)
  /\ UNCHANGED rows

-----------------------------------------------------------------------------
(* Booking.                                                                *)

Book(t) ==
  /\ status[t] = "absent"
  /\ status' = [status EXCEPT ![t] = "requested"]
  /\ UNCHANGED <<assigned, closedBy, totalTrips, fit, lockT, lockD, tx>>

-----------------------------------------------------------------------------
(* Acceptance: Trip row, then Driver row, then the commit.                 *)

\* Participation is settled when the socket opens and kept for its lifetime.
OfferAccept(p, t, d) ==
  /\ \/ assigned[t] = None /\ status[t] = "requested"
     \/ assigned[t] = d
  /\ Authorise(p, "accept", t, d)

Acceptable(t) == assigned[t] = None /\ status[t] = "requested"

LockAccept(p) ==
  /\ tx[p].pc = "authorised" /\ tx[p].op = "accept"
  /\ \/ Acceptable(tx[p].trip) /\ TakeTrip(p, "accept", tx[p].trip, tx[p].driver)
     \/ ~Acceptable(tx[p].trip) /\ Refused(p)

\* Waits for the Driver row, re-reads the driver, then looks for another ride.
CheckDriver(p) ==
  LET d == tx[p].driver
      free == driver_active_trip_ids(d) \ {tx[p].trip} = {}
  IN /\ tx[p].pc = "trip_locked" /\ tx[p].op = "accept"
     /\ lockD[d] = None
     /\ \/ /\ fit[d] /\ free
           /\ lockD' = [lockD EXCEPT ![d] = p]
           /\ tx' = [tx EXCEPT ![p].pc = "driver_locked"]
           /\ UNCHANGED <<rows, lockT>>
        \/ /\ ~(fit[d] /\ free)
           /\ Release(p)
           /\ UNCHANGED rows

\* Mutant: save(update_fields=...) without driver_id.
CommitAccept_driver_lost(p) ==
  /\ tx[p].pc = "driver_locked"
  /\ status' = [status EXCEPT ![tx[p].trip] = "accepted"]
  /\ Release(p)
  /\ UNCHANGED <<assigned, closedBy, totalTrips, fit>>

CommitAccept(p) ==
  /\ tx[p].pc = "driver_locked"
  /\ status' = [status EXCEPT ![tx[p].trip] = "accepted"]
  /\ assigned' = [assigned EXCEPT ![tx[p].trip] = tx[p].driver]
  /\ Release(p)
  /\ UNCHANGED <<closedBy, totalTrips, fit>>

-----------------------------------------------------------------------------
(* The socket commands of an assigned driver, and a rider's socket cancel. *)

DriverCommand(p, op, t, d) ==
  /\ assigned[t] = d
  /\ Authorise(p, op, t, d)

RiderSocketCancel(p, t) ==
  /\ status[t] # "absent"
  /\ Authorise(p, "socket_rider_cancel", t, None)

target(op) == IF op = "socket_rider_cancel" THEN "cancelled" ELSE op

\* The start command is also refused when the OTP is wrong.
LockUpdate(p) ==
  LET t == tx[p].trip
      ok == status[t] \in allowed_transitions[target(tx[p].op)]
  IN /\ tx[p].pc = "authorised" /\ tx[p].op # "accept"
     /\ \/ ok /\ TakeTrip(p, tx[p].op, t, tx[p].driver)
        \/ (~ok \/ tx[p].op = "in_progress") /\ Refused(p)

CommitMove(p) ==
  /\ tx[p].pc = "trip_locked" /\ tx[p].op \in {"reached", "in_progress"}
  /\ status' = [status EXCEPT ![tx[p].trip] = tx[p].op]
  /\ Release(p)
  /\ UNCHANGED <<assigned, closedBy, totalTrips, fit>>

\* Completion also updates the driver's row: it waits for that lock.
CommitComplete(p) ==
  LET t == tx[p].trip
      d == assigned[t]
  IN /\ tx[p].pc = "trip_locked" /\ tx[p].op = "completed"
     /\ lockD[d] = None
     /\ status' = [status EXCEPT ![t] = "completed"]
     /\ totalTrips' = [totalTrips EXCEPT ![d] = @ + 1]
     /\ Release(p)
     /\ UNCHANGED <<assigned, closedBy, fit>>

-----------------------------------------------------------------------------
(* Cancellations that check everything under the Trip row lock.            *)

LockRiderCancel(p, t) ==
  /\ tx[p].pc = "idle"
  /\ status[t] \in {"requested", "accepted", "reached", "in_progress"}
  /\ TakeTrip(p, "rider_cancel", t, None)

LockDriverCancel(p, t, d) ==
  /\ tx[p].pc = "idle"
  /\ assigned[t] = d
  /\ status[t] \in {"accepted", "reached"}
  /\ TakeTrip(p, "driver_cancel", t, d)

LockOperatorCancel(p, t) ==
  /\ tx[p].pc = "idle"
  /\ status[t] \in CANCELLABLE_STATUSES
  /\ TakeTrip(p, "operator_cancel", t, None)

\* The countdown task, and the sweep that runs the same code.
LockAutoCancel(p, t) ==
  /\ tx[p].pc = "idle"
  /\ assigned[t] = None
  /\ status[t] = "requested"
  /\ TakeTrip(p, "auto_cancel", t, None)

\* Stale panel, "release driver": before pickup the operator's cancellation,
\* after the start the operator's end.  Staleness itself is the environment's.
LockStaleRelease(p, t) ==
  /\ tx[p].pc = "idle"
  /\ assigned[t] # None /\ closedBy[t] # "operator_end"
  /\ \/ status[t] \in {"accepted", "reached"} /\ TakeTrip(p, "operator_cancel", t, None)
     \/ status[t] = "in_progress" /\ TakeTrip(p, "operator_end", t, None)

\* Mutant: the cancellation also clears the driver.
CommitCancel_driver_cleared(p) ==
  /\ tx[p].pc = "trip_locked"
  /\ tx[p].op \in {"cancelled", "socket_rider_cancel", "rider_cancel",
                    "operator_cancel", "auto_cancel"}
  /\ status' = [status EXCEPT ![tx[p].trip] = "cancelled"]
  /\ closedBy' = [closedBy EXCEPT ![tx[p].trip] = cancelled_by[tx[p].op]]
  /\ assigned' = [assigned EXCEPT ![tx[p].trip] = None]
  /\ Release(p)
  /\ UNCHANGED <<totalTrips, fit>>

\* The narrow UPDATE of status and cancelled_by.
CommitCancel(p) ==
  /\ tx[p].pc = "trip_locked"
  /\ tx[p].op \in {"cancelled", "socket_rider_cancel", "rider_cancel",
                    "operator_cancel", "auto_cancel"}
  /\ status' = [status EXCEPT ![tx[p].trip] = "cancelled"]
  /\ closedBy' = [closedBy EXCEPT ![tx[p].trip] = cancelled_by[tx[p].op]]
  /\ Release(p)
  /\ UNCHANGED <<assigned, totalTrips, fit>>

\* The penalty row points at the driver, so this waits for the Driver row; the
\* third cancel of the window also locks the driver out.
CommitDriverCancel(p) ==
  LET t == tx[p].trip
      d == tx[p].driver
  IN /\ tx[p].pc = "trip_locked" /\ tx[p].op = "driver_cancel"
     /\ lockD[d] = None
     /\ status' = [status EXCEPT ![t] = "cancelled"]
     /\ closedBy' = [closedBy EXCEPT ![t] = cancelled_by[tx[p].op]]
     /\ \E locked \in BOOLEAN : fit' = [fit EXCEPT ![d] = @ /\ ~locked]
     /\ Release(p)
     /\ UNCHANGED <<assigned, totalTrips>>

CommitOperatorEnd(p) ==
  LET t == tx[p].trip
      d == assigned[t]
  IN /\ tx[p].pc = "trip_locked" /\ tx[p].op = "operator_end"
     /\ lockD[d] = None
     /\ status' = [status EXCEPT ![t] = "completed"]
     /\ closedBy' = [closedBy EXCEPT ![t] = "operator_end"]
     /\ totalTrips' = [totalTrips EXCEPT ![d] = @ + 1]
     /\ Release(p)
     /\ UNCHANGED <<assigned, fit>>

-----------------------------------------------------------------------------
(* The rest of the world.                                                  *)

\* A database error or a killed worker rolls the transaction back.
Rollback(p) ==
  /\ tx[p].pc \in {"trip_locked", "driver_locked"}
  /\ Release(p)
  /\ UNCHANGED rows

\* Mutant: the suspension updates the row without waiting for its lock.
Suspend_unlocked(d) ==
  /\ fit[d]
  /\ fit' = [fit EXCEPT ![d] = FALSE]
  /\ UNCHANGED <<status, assigned, closedBy, totalTrips, lockT, lockD, tx>>

\* Suspension, expiry and lockouts take the Driver row; so does reinstatement.
Suspend(d) ==
  /\ fit[d] /\ lockD[d] = None
  /\ fit' = [fit EXCEPT ![d] = FALSE]
  /\ UNCHANGED <<status, assigned, closedBy, totalTrips, lockT, lockD, tx>>

Reinstate(d) ==
  /\ ~fit[d] /\ lockD[d] = None
  /\ fit' = [fit EXCEPT ![d] = TRUE]
  /\ UNCHANGED <<status, assigned, closedBy, totalTrips, lockT, lockD, tx>>

\* A new request reaches process p.
Request(p) ==
  \E t \in Trips :
    \/ RiderSocketCancel(p, t) \/ LockRiderCancel(p, t) \/ LockOperatorCancel(p, t)
    \/ LockAutoCancel(p, t) \/ LockStaleRelease(p, t)
    \/ \E d \in Drivers :
         \/ OfferAccept(p, t, d) \/ LockDriverCancel(p, t, d)
         \/ \E op \in DriverCommands : DriverCommand(p, op, t, d)

\* Process p goes on with the request it is serving.
Continue(p) ==
  \/ LockAccept(p) \/ CheckDriver(p) \/ CommitAccept(p)
  \/ LockUpdate(p) \/ CommitMove(p) \/ CommitComplete(p)
  \/ CommitCancel(p) \/ CommitDriverCancel(p) \/ CommitOperatorEnd(p)

Next ==
  \/ \E t \in Trips : Book(t)
  \/ \E p \in Procs : Request(p) \/ Continue(p) \/ Rollback(p)
  \/ \E d \in Drivers : Suspend(d) \/ Reinstate(d)

Spec == Init /\ [][Next]_vars

\* Row locks are granted in arrival order, so no waiter is passed for ever.
FairSpec == Spec /\ \A p \in Procs : SF_vars(Continue(p))
-----------------------------------------------------------------------------
(* Properties.                                                             *)

TxType ==
  [pc : {"idle", "authorised", "trip_locked", "driver_locked"},
   op : Ops \cup {None}, trip : Trips \cup {None}, driver : Drivers \cup {None}]

\* A request in hand names a trip, and a driver where a driver is speaking.
TxShape ==
  \A p \in Procs : tx[p].pc # "idle" =>
    /\ tx[p].op \in Ops /\ tx[p].trip \in Trips
    /\ tx[p].op \in {"accept", "driver_cancel"} => tx[p].driver \in Drivers
    /\ tx[p].pc = "authorised" =>
         tx[p].op \in {"accept", "socket_rider_cancel"} \cup DriverCommands

\* The rows, the locks and the transactions keep the shapes the schema and the
\* handlers give them.
TypeOK ==
  /\ status \in [Trips -> TripStatus]
  /\ assigned \in [Trips -> Drivers \cup {None}]
  /\ closedBy \in [Trips -> Closers]
  /\ totalTrips \in [Drivers -> Nat]
  /\ fit \in [Drivers -> BOOLEAN]
  /\ lockT \in [Trips -> Procs \cup {None}]
  /\ lockD \in [Drivers -> Procs \cup {None}]
  /\ tx \in [Procs -> TxType]
  /\ TxShape

\* One driver, one ride: whatever offers are on their screen and however the
\* acceptances interleave, _accept_trip never commits a driver to two live trips.
OneActiveTrip ==
  \A t, u \in Trips :
    /\ status[t] \in DRIVER_ACTIVE_TRIP_STATUSES
    /\ status[u] \in DRIVER_ACTIVE_TRIP_STATUSES
    /\ assigned[t] = assigned[u]
    => t = u

\* A trip in a driver's hands has a driver; a trip still being offered has none,
\* so the timeout, the sweep and the dispatch gate may judge by either column.
DriverMatchesStatus ==
  \A t \in Trips :
    /\ status[t] \in DRIVER_ACTIVE_TRIP_STATUSES \cup {"completed"} => assigned[t] # None
    /\ status[t] \in {"absent", "requested"} => assigned[t] = None

\* The statuses each handler's check, made under the Trip row lock, lets through.
CheckedStatus ==
  [accept |-> {"requested"}, auto_cancel |-> {"requested"},
   reached |-> allowed_transitions.reached,
   in_progress |-> allowed_transitions.in_progress,
   completed |-> allowed_transitions.completed,
   cancelled |-> allowed_transitions.cancelled,
   socket_rider_cancel |-> allowed_transitions.cancelled,
   rider_cancel |-> allowed_transitions.cancelled,
   driver_cancel |-> {"accepted", "reached"},
   operator_cancel |-> CANCELLABLE_STATUSES,
   operator_end |-> {"in_progress"}]

ChecksHold(p) ==
  LET t == tx[p].trip
      d == tx[p].driver
  IN /\ tx[p].pc \in {"trip_locked", "driver_locked"} =>
          /\ lockT[t] = p
          /\ status[t] \in CheckedStatus[tx[p].op]
          /\ tx[p].op = "driver_cancel" => assigned[t] = d
     /\ tx[p].pc = "driver_locked" =>
          /\ tx[p].op = "accept" /\ lockD[d] = p /\ fit[d]
          /\ driver_active_trip_ids(d) = {}

\* What a handler checked under its row locks still holds when it commits, whatever
\* the other processes did in between: the trip's status and driver under the Trip
\* lock; under the Driver lock, that the driver is fit and has no other ride.
LocksProtectChecks == \A p \in Procs : ChecksHold(p)

\* Driver.total_trips counts each completed ride exactly once, whether the driver
\* or an operator ended it and however often the command was retried.
CountedOnce ==
  \A d \in Drivers :
    totalTrips[d] = Cardinality({t \in Trips : assigned[t] = d /\ status[t] = "completed"})

\* A trip is given to a driver only once, from unassigned, and only to a driver
\* who at that very moment may operate, is not blocked and is not locked out.
AssignedOnceToFitDriver ==
  [][\A t \in Trips : assigned'[t] # assigned[t] =>
       /\ assigned[t] = None
       /\ status'[t] = "accepted"
       /\ fit[assigned'[t]]]_vars

\* A finished ride stays as it was finished: no late accept, timeout, cancel or
\* operator action changes its status, its driver or who closed it.
FinishedIsFinal ==
  [][\A t \in Trips : status[t] \in {"completed", "cancelled"} =>
       /\ status'[t] = status[t]
       /\ assigned'[t] = assigned[t]
       /\ closedBy'[t] = closedBy[t]]_vars

\* The interleaved transactions together do what the atomic ride state machine
\* does: acceptance is exclusive although its checks and its write are apart.
ImplementsAuthority == AUTH!Spec

\* No set of transactions waits on itself: every request that reached the
\* database gets its answer.
EveryRequestEnds ==
  \A p \in Procs : tx[p].pc # "idle" ~> tx[p].pc = "idle"

\* The inductive invariant of the proofs.
IInv == TypeOK /\ DriverMatchesStatus /\ OneActiveTrip /\ LocksProtectChecks
=============================================================================
