----------------------- MODULE TripLifecycle_proofs -----------------------
(***************************************************************************)
(* The ride state machine is safe for any number of trips, drivers and     *)
(* server processes.  The inductive invariant adds to the two properties   *)
(* of the rows what each open transaction knows under its locks.           *)
(***************************************************************************)
EXTENDS TripLifecycle, FiniteSetTheorems, TLAPS

USE DEF DRIVER_ACTIVE_TRIP_STATUSES, TripStatus, CANCELLABLE_STATUSES, DriverCommands,
        Ops, Closers, TxType, Idle

\* The empty tables and idle processes satisfy the type invariant.
LEMMA InitTypeOK == Init => TypeOK
  <1> SUFFICES ASSUME Init PROVE TypeOK
    OBVIOUS
  <1>1. tx \in [Procs -> TxType] /\ TxShape
    BY DEF Init, TxShape
  <1>2. fit \in [Drivers -> BOOLEAN]
    BY DEF Init
  <1> QED
    BY <1>1, <1>2 DEF Init, TypeOK

\* Ending a transaction keeps the shapes of the locks and of the transactions.
LEMMA ReleaseTyped ==
  ASSUME TypeOK, NEW p \in Procs, Release(p)
  PROVE  /\ lockT' \in [Trips -> Procs \cup {None}]
         /\ lockD' \in [Drivers -> Procs \cup {None}]
         /\ tx' \in [Procs -> TxType]
         /\ TxShape'
  BY DEF TypeOK, TxShape, Release

\* Opening one keeps them too, when the request names a trip and, for the two
\* commands that need one, a driver.
LEMMA TakeTripTyped ==
  ASSUME TypeOK, NEW p \in Procs, NEW op \in Ops, NEW t \in Trips,
         NEW d \in Drivers \cup {None},
         op \in {"accept", "driver_cancel"} => d \in Drivers,
         TakeTrip(p, op, t, d)
  PROVE  TypeOK'
  BY DEF TypeOK, TxShape, TakeTrip, rows

\* The unlocked read of a socket command opens a request of the right shape.
LEMMA AuthoriseTyped ==
  ASSUME TypeOK, NEW p \in Procs,
         NEW op \in {"accept", "socket_rider_cancel"} \cup DriverCommands, NEW t \in Trips,
         NEW d \in Drivers \cup {None},
         op = "accept" => d \in Drivers,
         Authorise(p, op, t, d)
  PROVE  TypeOK'
  BY DEF TypeOK, TxShape, Authorise, rows

\* A command refused under the lock writes nothing.
LEMMA RefusedTyped ==
  ASSUME TypeOK, NEW p \in Procs, Refused(p)
  PROVE  TypeOK'
  BY ReleaseTyped DEF TypeOK, Refused, rows

\* Counting one more ride keeps the counters natural numbers.
LEMMA CountTyped ==
  ASSUME NEW f \in [Drivers -> Nat], NEW e
  PROVE  [f EXCEPT ![e] = @ + 1] \in [Drivers -> Nat]
  <1>1. CASE e \in Drivers
    <2>1. f[e] + 1 \in Nat
      BY <1>1
    <2> QED
      BY <2>1, Zenon
  <1>2. CASE e \notin Drivers
    <2>1. [f EXCEPT ![e] = @ + 1] = f
      BY <1>2, Zenon
    <2> QED
      BY <2>1
  <1> QED
    BY <1>1, <1>2

\* Every cancelling handler has a name to write.
LEMMA ClosersNamed ==
  ASSUME NEW op \in {"cancelled", "socket_rider_cancel", "rider_cancel",
                     "operator_cancel", "auto_cancel", "driver_cancel"}
  PROVE  cancelled_by[op] \in Closers
  <1>1. /\ cancelled_by["cancelled"] \in Closers
        /\ cancelled_by["socket_rider_cancel"] \in Closers
        /\ cancelled_by["rider_cancel"] \in Closers
        /\ cancelled_by["operator_cancel"] \in Closers
        /\ cancelled_by["auto_cancel"] \in Closers
        /\ cancelled_by["driver_cancel"] \in Closers
    BY DEF cancelled_by
  <1> QED
    BY <1>1

\* Every step of the server keeps the types.
LEMMA NextTypeOK == TypeOK /\ [Next]_vars => TypeOK'
  <1> SUFFICES ASSUME TypeOK, [Next]_vars PROVE TypeOK'
    OBVIOUS
  <1>1. CASE \E t \in Trips : Book(t)
    BY <1>1 DEF TypeOK, TxShape, Book
  <1>2. ASSUME NEW p \in Procs, Request(p) PROVE TypeOK'
    <2>1. PICK t \in Trips :
            \/ RiderSocketCancel(p, t) \/ LockRiderCancel(p, t) \/ LockOperatorCancel(p, t)
            \/ LockAutoCancel(p, t) \/ LockStaleRelease(p, t)
            \/ \E d \in Drivers :
                 \/ OfferAccept(p, t, d) \/ LockDriverCancel(p, t, d)
                 \/ \E op \in DriverCommands : DriverCommand(p, op, t, d)
      BY <1>2 DEF Request
    <2>2. CASE RiderSocketCancel(p, t)
      BY <2>2, AuthoriseTyped DEF RiderSocketCancel
    <2>3. CASE LockRiderCancel(p, t) \/ LockOperatorCancel(p, t) \/ LockAutoCancel(p, t)
      BY <2>3, TakeTripTyped DEF LockRiderCancel, LockOperatorCancel, LockAutoCancel
    <2>4. CASE LockStaleRelease(p, t)
      BY <2>4, TakeTripTyped DEF LockStaleRelease
    <2>5. ASSUME NEW d \in Drivers, OfferAccept(p, t, d) PROVE TypeOK'
      BY <2>5, AuthoriseTyped DEF OfferAccept
    <2>6. ASSUME NEW d \in Drivers, LockDriverCancel(p, t, d) PROVE TypeOK'
      BY <2>6, TakeTripTyped DEF LockDriverCancel
    <2>7. ASSUME NEW d \in Drivers, NEW op \in DriverCommands, DriverCommand(p, op, t, d)
          PROVE TypeOK'
      BY <2>7, AuthoriseTyped DEF DriverCommand
    <2> QED
      BY <2>1, <2>2, <2>3, <2>4, <2>5, <2>6, <2>7
  <1>3. ASSUME NEW p \in Procs, Continue(p) PROVE TypeOK'
    <2> DEFINE t == tx[p].trip
               d == tx[p].driver
    <2>1. CASE LockAccept(p)
      <3>1. /\ t \in Trips /\ d \in Drivers
        BY <2>1 DEF LockAccept, TypeOK, TxShape
      <3> QED
        BY <2>1, <3>1, TakeTripTyped, RefusedTyped DEF LockAccept
    <2>2. CASE CheckDriver(p)
      <3>1. /\ t \in Trips /\ d \in Drivers
        BY <2>2 DEF CheckDriver, TypeOK, TxShape
      <3>2. CASE Release(p) /\ UNCHANGED rows
        BY <3>2, ReleaseTyped DEF TypeOK, rows
      <3>3. CASE /\ lockD' = [lockD EXCEPT ![d] = p]
                 /\ tx' = [tx EXCEPT ![p].pc = "driver_locked"]
                 /\ UNCHANGED <<rows, lockT>>
        <4>1. /\ tx' \in [Procs -> TxType]
              /\ tx'[p].op = tx[p].op /\ tx'[p].trip = t /\ tx'[p].driver = d
              /\ tx'[p].pc = "driver_locked"
              /\ \A q \in Procs \ {p} : tx'[q] = tx[q]
          BY <3>3 DEF TypeOK
        <4>3. TxShape'
          BY <2>2, <3>1, <4>1 DEF TypeOK, TxShape, CheckDriver
        <4>2. lockD' \in [Drivers -> Procs \cup {None}]
          BY <3>3 DEF TypeOK
        <4> QED
          BY <3>3, <4>1, <4>2, <4>3 DEF TypeOK, rows
      <3> QED
        BY <2>2, <3>2, <3>3 DEF CheckDriver
    <2>3. CASE CommitAccept(p)
      BY <2>3, ReleaseTyped DEF CommitAccept, TypeOK, TxShape
    <2>4. CASE LockUpdate(p)
      <3>1. /\ t \in Trips /\ tx[p].op \in Ops /\ tx[p].op \notin {"accept", "driver_cancel"}
            /\ d \in Drivers \cup {None}
        BY <2>4 DEF LockUpdate, TypeOK, TxShape
      <3> QED
        BY <2>4, <3>1, TakeTripTyped, RefusedTyped DEF LockUpdate
    <2>5. CASE CommitMove(p)
      BY <2>5, ReleaseTyped DEF CommitMove, TypeOK, TxShape
    <2>6. CASE CommitComplete(p)
      <3>1. status' \in [Trips -> TripStatus]
        BY <2>6 DEF CommitComplete, TypeOK
      <3>2. totalTrips' \in [Drivers -> Nat]
        BY <2>6, CountTyped DEF CommitComplete, TypeOK
      <3> QED
        BY <2>6, <3>1, <3>2, ReleaseTyped DEF CommitComplete, TypeOK
    <2>7. CASE CommitCancel(p)
      <3>1. /\ status' \in [Trips -> TripStatus]
            /\ closedBy' \in [Trips -> Closers]
        BY <2>7, ClosersNamed DEF CommitCancel, TypeOK
      <3> QED
        BY <2>7, <3>1, ReleaseTyped DEF CommitCancel, TypeOK
    <2>8. CASE CommitDriverCancel(p)
      <3>1. /\ status' \in [Trips -> TripStatus]
            /\ closedBy' \in [Trips -> Closers]
        BY <2>8, ClosersNamed DEF CommitDriverCancel, TypeOK
      <3>2. fit' \in [Drivers -> BOOLEAN]
        BY <2>8 DEF CommitDriverCancel, TypeOK
      <3> QED
        BY <2>8, <3>1, <3>2, ReleaseTyped DEF CommitDriverCancel, TypeOK
    <2>9. CASE CommitOperatorEnd(p)
      <3>1. /\ status' \in [Trips -> TripStatus]
            /\ closedBy' \in [Trips -> Closers]
        BY <2>9 DEF CommitOperatorEnd, TypeOK
      <3>2. totalTrips' \in [Drivers -> Nat]
        BY <2>9, CountTyped DEF CommitOperatorEnd, TypeOK
      <3> QED
        BY <2>9, <3>1, <3>2, ReleaseTyped DEF CommitOperatorEnd, TypeOK
    <2> QED
      BY <1>3, <2>1, <2>2, <2>3, <2>4, <2>5, <2>6, <2>7, <2>8, <2>9 DEF Continue
  <1>4. ASSUME NEW p \in Procs, Rollback(p) PROVE TypeOK'
    BY <1>4, ReleaseTyped DEF Rollback, TypeOK, rows
  <1>5. CASE \E d \in Drivers : Suspend(d) \/ Reinstate(d)
    BY <1>5 DEF TypeOK, TxShape, Suspend, Reinstate
  <1>6. CASE UNCHANGED vars
    BY <1>6 DEF TypeOK, TxShape, vars
  <1> QED
    BY <1>1, <1>2, <1>3, <1>4, <1>5, <1>6 DEF Next

\* Rows, locks and transactions keep their shapes in every behaviour.
THEOREM TypeCorrect == Spec => []TypeOK
  BY InitTypeOK, NextTypeOK, PTL DEF Spec
-----------------------------------------------------------------------------
(* What the checks leave possible.                                         *)

\* The statuses that each handler lets through under the Trip lock, written out.
LEMMA CheckedValues ==
  /\ CheckedStatus["accept"] = {"requested"}
  /\ CheckedStatus["auto_cancel"] = {"requested"}
  /\ CheckedStatus["reached"] = {"accepted"}
  /\ CheckedStatus["in_progress"] = {"accepted", "reached"}
  /\ CheckedStatus["completed"] = {"in_progress"}
  /\ CheckedStatus["cancelled"] = {"requested", "accepted", "reached", "in_progress"}
  /\ CheckedStatus["socket_rider_cancel"] = {"requested", "accepted", "reached", "in_progress"}
  /\ CheckedStatus["rider_cancel"] = {"requested", "accepted", "reached", "in_progress"}
  /\ CheckedStatus["driver_cancel"] = {"accepted", "reached"}
  /\ CheckedStatus["operator_cancel"] = {"requested", "accepted", "reached"}
  /\ CheckedStatus["operator_end"] = {"in_progress"}
  BY DEF CheckedStatus, allowed_transitions

\* No handler gets past its check on a trip that is absent or finished.
LEMMA CheckedLive ==
  ASSUME NEW op \in Ops
  PROVE  CheckedStatus[op] \subseteq {"requested", "accepted", "reached", "in_progress"}
  BY CheckedValues

\* The table of a socket command is the table its status is checked against.
LEMMA CheckedSocket ==
  ASSUME NEW op \in DriverCommands \cup {"socket_rider_cancel"}
  PROVE  CheckedStatus[op] = allowed_transitions[target(op)]
  BY DEF CheckedStatus, allowed_transitions, target

-----------------------------------------------------------------------------
(* Locks.                                                                  *)

\* One process's step cannot undo another's checks, if it touches neither the
\* trips nor the drivers that the other has locked.
LEMMA OthersChecksHold ==
  ASSUME TypeOK, LocksProtectChecks, NEW p, ChecksHold(p)' \/ p \notin Procs,
         \A q \in Procs \ {p} : tx'[q] = tx[q],
         \A q \in Procs \ {p}, t \in Trips : lockT[t] = q =>
            lockT'[t] = q /\ status'[t] = status[t] /\ assigned'[t] = assigned[t],
         \A q \in Procs \ {p}, d \in Drivers : lockD[d] = q =>
            /\ lockD'[d] = q
            /\ fit[d] => fit'[d]
            /\ driver_active_trip_ids(d) = {} => driver_active_trip_ids(d)' = {}
  PROVE  LocksProtectChecks'
  <1> SUFFICES ASSUME NEW q \in Procs \ {p} PROVE ChecksHold(q)'
    BY DEF LocksProtectChecks
  <1>1. ChecksHold(q) /\ tx'[q] = tx[q]
    BY DEF LocksProtectChecks
  <1>2. CASE tx[q].pc \in {"idle", "authorised"}
    BY <1>1, <1>2 DEF ChecksHold
  <1>3. CASE tx[q].pc = "trip_locked"
    <2>1. tx[q].trip \in Trips
      BY <1>3 DEF TypeOK, TxShape
    <2> QED
      BY <1>1, <1>3, <2>1 DEF ChecksHold
  <1>4. CASE tx[q].pc = "driver_locked"
    <2>1. tx[q].trip \in Trips /\ tx[q].driver \in Drivers
      BY <1>1, <1>4 DEF TypeOK, TxShape, ChecksHold
    <2> QED
      BY <1>1, <1>4, <2>1 DEF ChecksHold
  <1>5. tx[q].pc \in {"idle", "authorised", "trip_locked", "driver_locked"}
    BY DEF TypeOK
  <1> QED
    BY <1>2, <1>3, <1>4, <1>5

\* Granting a free row takes it from nobody.
LEMMA Granted ==
  ASSUME NEW S, NEW f \in [S -> Procs \cup {None}], NEW x \in S, f[x] = None,
         NEW p \in Procs
  PROVE  /\ [f EXCEPT ![x] = p][x] = p
         /\ \A q \in Procs, y \in S : f[y] = q => [f EXCEPT ![x] = p][y] = q
  <1>1. [f EXCEPT ![x] = p][x] = p
    OBVIOUS
  <1>2. ASSUME NEW q \in Procs, NEW y \in S, f[y] = q PROVE [f EXCEPT ![x] = p][y] = q
    <2>1. y # x
      BY <1>2, NoneIsNobody
    <2> QED
      BY <1>2, <2>1
  <1> QED
    BY <1>1, <1>2

\* Ending a transaction takes away only its own locks.
LEMMA ReleaseOwn ==
  ASSUME TypeOK, NEW p \in Procs, Release(p)
  PROVE  /\ ChecksHold(p)'
         /\ \A q \in Procs \ {p} : tx'[q] = tx[q]
         /\ \A q \in Procs \ {p}, t \in Trips : lockT[t] = q => lockT'[t] = q
         /\ \A q \in Procs \ {p}, d \in Drivers : lockD[d] = q => lockD'[d] = q
  BY NoneIsNobody DEF TypeOK, Release, ChecksHold

-----------------------------------------------------------------------------
(* The invariant is inductive: one lemma per kind of step.                 *)

\* With empty tables and nobody at work the inductive invariant holds.
LEMMA InitIInv == Init => IInv
  <1> SUFFICES ASSUME Init PROVE IInv
    OBVIOUS
  <1>1. DriverMatchesStatus /\ OneActiveTrip
    BY DEF Init, DriverMatchesStatus, OneActiveTrip
  <1>2. LocksProtectChecks
    BY DEF Init, LocksProtectChecks, ChecksHold
  <1> QED
    BY <1>1, <1>2, InitTypeOK DEF IInv

\* A step that writes no trip row keeps the two properties of the rows.
LEMMA RowsUntouched ==
  ASSUME IInv, UNCHANGED <<status, assigned>>
  PROVE  /\ DriverMatchesStatus' /\ OneActiveTrip'
         /\ \A d : driver_active_trip_ids(d)' = driver_active_trip_ids(d)
  BY DEF IInv, DriverMatchesStatus, OneActiveTrip, driver_active_trip_ids

\* Taking the Trip row after a check that passed.
LEMMA TakeTripIInv ==
  ASSUME IInv, TypeOK', NEW p \in Procs, NEW op \in Ops, NEW t \in Trips, NEW d,
         TakeTrip(p, op, t, d),
         status[t] \in CheckedStatus[op],
         op = "driver_cancel" => assigned[t] = d
  PROVE  IInv'
  <1>1. UNCHANGED <<status, assigned, fit, lockD>>
    BY DEF TakeTrip, rows
  <1>2. ChecksHold(p)'
    BY <1>1 DEF ChecksHold, TakeTrip, IInv, TypeOK
  <1>3. \A q \in Procs \ {p} : tx'[q] = tx[q]
    BY DEF TakeTrip, IInv, TypeOK
  <1>6. \A q \in Procs \ {p}, u \in Trips : lockT[u] = q => lockT'[u] = q
    <2>1. /\ lockT \in [Trips -> Procs \cup {None}] /\ lockT[t] = None
          /\ lockT' = [lockT EXCEPT ![t] = p]
      BY DEF TakeTrip, IInv, TypeOK
    <2>2. \A q \in Procs, u \in Trips : lockT[u] = q => [lockT EXCEPT ![t] = p][u] = q
      BY <2>1, Granted
    <2> QED
      BY <2>1, <2>2
  <1>4. \A e \in Drivers : driver_active_trip_ids(e)' = driver_active_trip_ids(e)
    BY <1>1, RowsUntouched
  <1>5. LocksProtectChecks'
    BY <1>1, <1>2, <1>3, <1>4, <1>6, OthersChecksHold DEF IInv
  <1> QED
    BY <1>1, <1>5, RowsUntouched DEF IInv

\* The unlocked read that opens a socket command.
LEMMA AuthoriseIInv ==
  ASSUME IInv, TypeOK', NEW p \in Procs, NEW op, NEW t, NEW d, Authorise(p, op, t, d)
  PROVE  IInv'
  <1>1. UNCHANGED <<status, assigned, fit, lockD, lockT>>
    BY DEF Authorise, rows
  <1>2. ChecksHold(p)'
    BY DEF ChecksHold, Authorise, IInv, TypeOK
  <1>3. \A q \in Procs \ {p} : tx'[q] = tx[q]
    BY DEF Authorise, IInv, TypeOK
  <1>4. \A e \in Drivers : driver_active_trip_ids(e)' = driver_active_trip_ids(e)
    BY <1>1, RowsUntouched
  <1>5. LocksProtectChecks'
    BY <1>1, <1>2, <1>3, <1>4, OthersChecksHold DEF IInv
  <1> QED
    BY <1>1, <1>5, RowsUntouched DEF IInv

\* A transaction that ends without writing: refused, or rolled back.
LEMMA EndIInv ==
  ASSUME IInv, TypeOK', NEW p \in Procs, Release(p), UNCHANGED rows
  PROVE  IInv'
  <1>1. UNCHANGED <<status, assigned, fit>>
    BY DEF rows
  <1>2. LocksProtectChecks'
    BY <1>1, ReleaseOwn, OthersChecksHold, RowsUntouched DEF IInv
  <1> QED
    BY <1>1, <1>2, RowsUntouched DEF IInv

\* A commit that moves its own trip along or closes it.
LEMMA MoveIInv ==
  ASSUME IInv, TypeOK', NEW p \in Procs, NEW t \in Trips, lockT[t] = p, Release(p),
         NEW s \in {"reached", "in_progress", "completed", "cancelled"},
         status' = [status EXCEPT ![t] = s], UNCHANGED assigned,
         s = "cancelled" \/ status[t] \in DRIVER_ACTIVE_TRIP_STATUSES,
         \A d \in Drivers : lockD[d] # None /\ lockD[d] # p => fit'[d] = fit[d]
  PROVE  IInv'
  <1>1. \A u \in Trips : u # t => status'[u] = status[u]
    BY DEF IInv, TypeOK
  <1>2. status'[t] = s
    BY DEF IInv, TypeOK
  <1>3. DriverMatchesStatus'
    BY <1>1, <1>2 DEF IInv, DriverMatchesStatus
  <1>4. \A u \in Trips : status'[u] \in DRIVER_ACTIVE_TRIP_STATUSES =>
          status[u] \in DRIVER_ACTIVE_TRIP_STATUSES
    BY <1>1, <1>2
  <1>5. OneActiveTrip'
    BY <1>4 DEF IInv, OneActiveTrip
  <1>6. \A d : driver_active_trip_ids(d) = {} => driver_active_trip_ids(d)' = {}
    BY <1>4 DEF driver_active_trip_ids
  <1>7. LocksProtectChecks'
    BY <1>1, <1>6, ReleaseOwn, OthersChecksHold, NoneIsNobody DEF IInv
  <1> QED
    BY <1>3, <1>5, <1>7 DEF IInv

\* The acceptance's second check: the Driver row is taken by nobody else, so what
\* the plain read finds stays true until the commit.
LEMMA CheckDriverIInv ==
  ASSUME IInv, TypeOK', NEW p \in Procs, CheckDriver(p)
  PROVE  IInv'
  <1> DEFINE t == tx[p].trip
             d == tx[p].driver
  <1>1. /\ t \in Trips /\ d \in Drivers
        /\ tx[p].pc = "trip_locked" /\ tx[p].op = "accept"
        /\ lockD[d] = None
    BY DEF CheckDriver, IInv, TypeOK, TxShape
  <1>2. CASE Release(p) /\ UNCHANGED rows
    BY <1>2, EndIInv
  <1>3. CASE /\ fit[d] /\ driver_active_trip_ids(d) \ {t} = {}
             /\ lockD' = [lockD EXCEPT ![d] = p]
             /\ tx' = [tx EXCEPT ![p].pc = "driver_locked"]
             /\ UNCHANGED <<rows, lockT>>
    <2>1. UNCHANGED <<status, assigned, fit, lockT>>
      BY <1>3 DEF rows
    <2>2. /\ tx'[p].op = tx[p].op /\ tx'[p].trip = t /\ tx'[p].driver = d
          /\ tx'[p].pc = "driver_locked"
          /\ \A q \in Procs \ {p} : tx'[q] = tx[q]
      BY <1>3 DEF IInv, TypeOK
    <2>3. /\ lockD'[d] = p
          /\ \A q \in Procs \ {p}, e \in Drivers : lockD[e] = q => lockD'[e] = q
      <3>1. lockD \in [Drivers -> Procs \cup {None}]
        BY DEF IInv, TypeOK
      <3>2. /\ [lockD EXCEPT ![d] = p][d] = p
            /\ \A q \in Procs, e \in Drivers : lockD[e] = q => [lockD EXCEPT ![d] = p][e] = q
        BY <1>1, <3>1, Granted
      <3> QED
        BY <1>3, <3>2
    <2>4. ChecksHold(p)
      BY DEF IInv, LocksProtectChecks
    <2>5. status[t] \in {"requested"} /\ lockT[t] = p
      BY <1>1, <2>4, CheckedValues DEF ChecksHold
    <2>6. driver_active_trip_ids(d) = {}
      BY <1>3, <2>5 DEF driver_active_trip_ids
    <2>7. \A e : driver_active_trip_ids(e)' = driver_active_trip_ids(e)
      BY <2>1, RowsUntouched
    <2>8. ChecksHold(p)'
      BY <1>1, <1>3, <2>1, <2>2, <2>3, <2>5, <2>6, <2>7, CheckedValues DEF ChecksHold
    <2>9. LocksProtectChecks'
      BY <2>1, <2>2, <2>3, <2>7, <2>8, OthersChecksHold DEF IInv
    <2> QED
      BY <2>1, <2>9, RowsUntouched DEF IInv
  <1> QED
    BY <1>2, <1>3 DEF CheckDriver

\* The assignment itself: the trip is unassigned and the driver has no live trip.
LEMMA CommitAcceptIInv ==
  ASSUME IInv, TypeOK', NEW p \in Procs, CommitAccept(p)
  PROVE  IInv'
  <1> DEFINE t == tx[p].trip
             d == tx[p].driver
  <1>1. ChecksHold(p) /\ tx[p].pc = "driver_locked" /\ tx[p].op = "accept"
    BY DEF CommitAccept, IInv, LocksProtectChecks, ChecksHold
  <1>2. t \in Trips /\ d \in Drivers
    BY <1>1 DEF IInv, TypeOK, TxShape
  <1>3. /\ lockT[t] = p /\ lockD[d] = p /\ status[t] \in {"requested"}
        /\ driver_active_trip_ids(d) = {}
    BY <1>1, CheckedValues DEF ChecksHold
  <1>4. /\ status'[t] = "accepted" /\ assigned'[t] = d
        /\ \A u \in Trips : u # t => status'[u] = status[u] /\ assigned'[u] = assigned[u]
        /\ UNCHANGED fit /\ Release(p)
    BY <1>2 DEF CommitAccept, IInv, TypeOK
  <1>5. DriverMatchesStatus'
    BY <1>2, <1>4, NoneIsNobody DEF IInv, DriverMatchesStatus
  <1>6. \A u \in Trips : status[u] \in DRIVER_ACTIVE_TRIP_STATUSES => assigned[u] # d
    BY <1>3 DEF driver_active_trip_ids
  <1>7. OneActiveTrip'
    BY <1>4, <1>6 DEF IInv, OneActiveTrip
  <1>8. \A e \in Drivers : e # d /\ driver_active_trip_ids(e) = {} =>
           driver_active_trip_ids(e)' = {}
    BY <1>4 DEF driver_active_trip_ids
  <1>9. LocksProtectChecks'
    BY <1>3, <1>4, <1>8, ReleaseOwn, OthersChecksHold DEF IInv
  <1> QED
    BY <1>5, <1>7, <1>9 DEF IInv

\* What a transaction that has locked its trip knows about it.
LEMMA LockedTrip ==
  ASSUME IInv, NEW p \in Procs, tx[p].pc = "trip_locked"
  PROVE  /\ tx[p].trip \in Trips /\ tx[p].op \in Ops
         /\ lockT[tx[p].trip] = p
         /\ status[tx[p].trip] \in CheckedStatus[tx[p].op]
         /\ tx[p].op = "driver_cancel" =>
              tx[p].driver \in Drivers /\ assigned[tx[p].trip] = tx[p].driver
  BY DEF IInv, TypeOK, TxShape, LocksProtectChecks, ChecksHold

\* Suspension and reinstatement wait for the Driver row.
LEMMA FitnessIInv ==
  ASSUME IInv, TypeOK', NEW d \in Drivers, Suspend(d) \/ Reinstate(d)
  PROVE  IInv'
  <1>1. UNCHANGED <<status, assigned, lockT, lockD, tx>> /\ lockD[d] = None
    BY DEF Suspend, Reinstate
  <1>2. \A e \in Drivers : e # d => fit'[e] = fit[e]
    BY DEF Suspend, Reinstate, IInv, TypeOK
  <1>3. \A e \in Drivers : driver_active_trip_ids(e)' = driver_active_trip_ids(e)
    BY <1>1, RowsUntouched
  <1>4. LocksProtectChecks'
    BY <1>1, <1>2, <1>3, OthersChecksHold, NoneIsNobody DEF IInv
  <1> QED
    BY <1>1, <1>4, RowsUntouched DEF IInv

\* The requests: an unlocked read, or a lock and a check at once.
LEMMA RequestIInv ==
  ASSUME IInv, TypeOK', NEW p \in Procs, Request(p)
  PROVE  IInv'
  <1>1. PICK t \in Trips :
          \/ RiderSocketCancel(p, t) \/ LockRiderCancel(p, t) \/ LockOperatorCancel(p, t)
          \/ LockAutoCancel(p, t) \/ LockStaleRelease(p, t)
          \/ \E d \in Drivers :
               \/ OfferAccept(p, t, d) \/ LockDriverCancel(p, t, d)
               \/ \E op \in DriverCommands : DriverCommand(p, op, t, d)
    BY DEF Request
  <1>2. CASE RiderSocketCancel(p, t)
    BY <1>2, AuthoriseIInv DEF RiderSocketCancel
  <1>3. CASE LockRiderCancel(p, t)
    BY <1>3, TakeTripIInv, CheckedValues DEF LockRiderCancel
  <1>4. CASE LockOperatorCancel(p, t)
    BY <1>4, TakeTripIInv, CheckedValues DEF LockOperatorCancel
  <1>5. CASE LockAutoCancel(p, t)
    BY <1>5, TakeTripIInv, CheckedValues DEF LockAutoCancel
  <1>6. CASE LockStaleRelease(p, t)
    BY <1>6, TakeTripIInv, CheckedValues DEF LockStaleRelease
  <1>7. ASSUME NEW d \in Drivers, OfferAccept(p, t, d) PROVE IInv'
    BY <1>7, AuthoriseIInv DEF OfferAccept
  <1>8. ASSUME NEW d \in Drivers, LockDriverCancel(p, t, d) PROVE IInv'
    BY <1>8, TakeTripIInv, CheckedValues DEF LockDriverCancel
  <1>9. ASSUME NEW d \in Drivers, NEW op \in DriverCommands, DriverCommand(p, op, t, d)
        PROVE IInv'
    BY <1>9, AuthoriseIInv DEF DriverCommand
  <1> QED
    BY <1>1, <1>2, <1>3, <1>4, <1>5, <1>6, <1>7, <1>8, <1>9

\* The later steps of a request: the locks of the socket commands, and the commits.
LEMMA ContinueIInv ==
  ASSUME IInv, TypeOK', NEW p \in Procs, Continue(p)
  PROVE  IInv'
  <1> DEFINE t == tx[p].trip
  <1>1. CASE LockAccept(p)
    <2>1. t \in Trips /\ tx[p].op = "accept"
      BY <1>1 DEF LockAccept, IInv, TypeOK, TxShape
    <2>2. CASE Refused(p)
      BY <2>2, EndIInv DEF Refused
    <2>3. CASE Acceptable(t) /\ TakeTrip(p, "accept", t, tx[p].driver)
      BY <2>1, <2>3, TakeTripIInv, CheckedValues DEF Acceptable
    <2> QED
      BY <1>1, <2>2, <2>3 DEF LockAccept
  <1>2. CASE CheckDriver(p)
    BY <1>2, CheckDriverIInv
  <1>3. CASE CommitAccept(p)
    BY <1>3, CommitAcceptIInv
  <1>4. CASE LockUpdate(p)
    <2>1. t \in Trips /\ tx[p].op \in DriverCommands \cup {"socket_rider_cancel"}
      BY <1>4 DEF LockUpdate, IInv, TypeOK, TxShape
    <2>2. CASE Refused(p)
      BY <2>2, EndIInv DEF Refused
    <2>3. CASE /\ status[t] \in allowed_transitions[target(tx[p].op)]
               /\ TakeTrip(p, tx[p].op, t, tx[p].driver)
      <3>1. status[t] \in CheckedStatus[tx[p].op]
        BY <2>1, <2>3, CheckedSocket
      <3> QED
        BY <2>1, <2>3, <3>1, TakeTripIInv
    <2> QED
      BY <1>4, <2>2, <2>3 DEF LockUpdate
  <1>5. CASE CommitMove(p)
    <2>1. /\ t \in Trips /\ lockT[t] = p
          /\ status[t] \in DRIVER_ACTIVE_TRIP_STATUSES
      BY <1>5, LockedTrip, CheckedValues DEF CommitMove
    <2> QED
      BY <1>5, <2>1, MoveIInv DEF CommitMove
  <1>6. CASE CommitComplete(p)
    <2>1. /\ t \in Trips /\ lockT[t] = p
          /\ status[t] \in DRIVER_ACTIVE_TRIP_STATUSES
      BY <1>6, LockedTrip, CheckedValues DEF CommitComplete
    <2> QED
      BY <1>6, <2>1, MoveIInv DEF CommitComplete
  <1>7. CASE CommitCancel(p)
    <2>1. t \in Trips /\ lockT[t] = p
      BY <1>7, LockedTrip DEF CommitCancel
    <2> QED
      BY <1>7, <2>1, MoveIInv DEF CommitCancel
  <1>8. CASE CommitDriverCancel(p)
    <2>1. t \in Trips /\ lockT[t] = p /\ tx[p].driver \in Drivers
      BY <1>8, LockedTrip DEF CommitDriverCancel
    <2>2. /\ lockD[tx[p].driver] = None
          /\ \E locked \in BOOLEAN : fit' = [fit EXCEPT ![tx[p].driver] = @ /\ ~locked]
      BY <1>8 DEF CommitDriverCancel
    <2>3. \A d \in Drivers : d # tx[p].driver => fit'[d] = fit[d]
      BY <2>1, <2>2 DEF IInv, TypeOK
    <2>4. \A d \in Drivers : lockD[d] # None /\ lockD[d] # p => fit'[d] = fit[d]
      BY <2>2, <2>3
    <2> QED
      BY <1>8, <2>1, <2>4, MoveIInv DEF CommitDriverCancel
  <1>9. CASE CommitOperatorEnd(p)
    <2>1. /\ t \in Trips /\ lockT[t] = p
          /\ status[t] \in DRIVER_ACTIVE_TRIP_STATUSES
      BY <1>9, LockedTrip, CheckedValues DEF CommitOperatorEnd
    <2> QED
      BY <1>9, <2>1, MoveIInv DEF CommitOperatorEnd
  <1> QED
    BY <1>1, <1>2, <1>3, <1>4, <1>5, <1>6, <1>7, <1>8, <1>9 DEF Continue

\* A new row is requested and unassigned; nobody can have locked an absent trip.
LEMMA BookIInv ==
  ASSUME IInv, TypeOK', NEW t \in Trips, Book(t)
  PROVE  IInv'
  <1>1. /\ status[t] = "absent" /\ status'[t] = "requested"
        /\ \A u \in Trips : u # t => status'[u] = status[u]
        /\ UNCHANGED <<assigned, fit, lockT, lockD, tx>>
    BY DEF Book, IInv, TypeOK
  <1>2. DriverMatchesStatus' /\ OneActiveTrip'
    BY <1>1 DEF IInv, DriverMatchesStatus, OneActiveTrip
  <1>3. \A d : driver_active_trip_ids(d) = {} => driver_active_trip_ids(d)' = {}
    BY <1>1 DEF driver_active_trip_ids
  <1>4. ASSUME NEW q \in Procs PROVE ChecksHold(q)'
    <2>1. ChecksHold(q) /\ tx'[q] = tx[q]
      BY <1>1 DEF IInv, LocksProtectChecks
    <2>2. CASE tx[q].pc \in {"trip_locked", "driver_locked"}
      <3>1. tx[q].trip \in Trips /\ tx[q].op \in Ops
        BY <2>2 DEF IInv, TypeOK, TxShape
      <3>2. tx[q].trip # t
        BY <1>1, <2>1, <2>2, <3>1, CheckedLive DEF ChecksHold
      <3> QED
        BY <1>1, <1>3, <2>1, <2>2, <3>1, <3>2 DEF ChecksHold
    <2>3. CASE tx[q].pc \notin {"trip_locked", "driver_locked"}
      BY <2>1, <2>3 DEF ChecksHold
    <2> QED
      BY <2>2, <2>3
  <1> QED
    BY <1>2, <1>4 DEF IInv, LocksProtectChecks

\* Every step of the server keeps the inductive invariant.
LEMMA NextIInv == IInv /\ [Next]_vars => IInv'
  <1> SUFFICES ASSUME IInv, [Next]_vars PROVE IInv'
    OBVIOUS
  <1>1. TypeOK'
    BY NextTypeOK DEF IInv
  <1>2. CASE \E t \in Trips : Book(t)
    BY <1>1, <1>2, BookIInv
  <1>3. CASE \E p \in Procs : Request(p) \/ Continue(p)
    BY <1>1, <1>3, RequestIInv, ContinueIInv
  <1>4. CASE \E p \in Procs : Rollback(p)
    BY <1>1, <1>4, EndIInv DEF Rollback
  <1>5. CASE \E d \in Drivers : Suspend(d) \/ Reinstate(d)
    BY <1>1, <1>5, FitnessIInv
  <1>6. CASE UNCHANGED vars
    BY <1>1, <1>6 DEF vars, IInv, DriverMatchesStatus, OneActiveTrip, LocksProtectChecks,
       ChecksHold, driver_active_trip_ids
  <1> QED
    BY <1>2, <1>3, <1>4, <1>5, <1>6 DEF Next

\* The inductive invariant holds in every behaviour.
THEOREM Invariance == Spec => []IInv
  BY InitIInv, NextIInv, PTL DEF Spec

\* No driver is ever committed to two live trips, for any number of trips, drivers
\* and processes: the Trip lock, the Driver lock and the read between them suffice.
THEOREM OneActiveTripHolds == Spec => []OneActiveTrip
  <1>1. IInv => OneActiveTrip
    BY DEF IInv
  <1> QED
    BY <1>1, Invariance, PTL

\* The driver column and the status column never contradict each other.
THEOREM DriverMatchesStatusHolds == Spec => []DriverMatchesStatus
  <1>1. IInv => DriverMatchesStatus
    BY DEF IInv
  <1> QED
    BY <1>1, Invariance, PTL

\* What a handler checked under its locks is true when it commits.
THEOREM LocksProtectChecksHolds == Spec => []LocksProtectChecks
  <1>1. IInv => LocksProtectChecks
    BY DEF IInv
  <1> QED
    BY <1>1, Invariance, PTL

-----------------------------------------------------------------------------
(* What a step does to the Trip table.                                     *)

\* From where the atomic state machine lets each status be entered, written out.
LEMMA EnteredValues ==
  /\ AUTH!EnteredFrom["reached"] = {"accepted"}
  /\ AUTH!EnteredFrom["in_progress"] = {"accepted", "reached"}
  /\ AUTH!EnteredFrom["completed"] = {"in_progress"}
  /\ AUTH!EnteredFrom["cancelled"] = {"requested", "accepted", "reached", "in_progress"}
  BY DEF AUTH!EnteredFrom, AUTH!DRIVER_ACTIVE_TRIP_STATUSES

\* Trip t, alone, goes to status s from one the handlers may leave for s.
MovesTo(t, s) ==
  /\ status[t] \in AUTH!EnteredFrom[s]
  /\ status' = [status EXCEPT ![t] = s]
  /\ UNCHANGED assigned
  /\ \A u \in Trips : u # t => closedBy'[u] = closedBy[u]

\* Trip t goes from unassigned to driver d, who is fit and free.
GoesTo(t, d) ==
  /\ status[t] = "requested" /\ assigned[t] = None
  /\ fit[d] /\ driver_active_trip_ids(d) = {}
  /\ status' = [status EXCEPT ![t] = "accepted"]
  /\ assigned' = [assigned EXCEPT ![t] = d]
  /\ UNCHANGED closedBy

\* Every commit of the server is one of the atomic steps on the Trip table.
LEMMA StepOnRows ==
  ASSUME IInv, [Next]_vars
  PROVE  \/ UNCHANGED <<status, assigned, closedBy>>
         \/ \E t \in Trips : Book(t)
         \/ \E t \in Trips, d \in Drivers : GoesTo(t, d)
         \/ \E t \in Trips, s \in {"reached", "in_progress", "completed", "cancelled"} :
              MovesTo(t, s)
  <1>1. CASE \E t \in Trips : Book(t)
    BY <1>1
  <1>2. ASSUME NEW p \in Procs, Request(p) PROVE UNCHANGED <<status, assigned, closedBy>>
    BY <1>2 DEF Request, RiderSocketCancel, LockRiderCancel, LockOperatorCancel, LockAutoCancel,
       LockStaleRelease, OfferAccept, LockDriverCancel, DriverCommand, Authorise, TakeTrip, rows
  <1>3. ASSUME NEW p \in Procs, LockAccept(p) \/ CheckDriver(p) \/ LockUpdate(p) \/ Rollback(p)
        PROVE  UNCHANGED <<status, assigned, closedBy>>
    BY <1>3 DEF LockAccept, CheckDriver, LockUpdate, Rollback, Refused, TakeTrip, rows
  <1>4. ASSUME NEW p \in Procs, CommitAccept(p)
        PROVE  \E t \in Trips, d \in Drivers : GoesTo(t, d)
    <2>1. ChecksHold(p) /\ tx[p].pc = "driver_locked" /\ tx[p].op = "accept"
      BY <1>4 DEF CommitAccept, IInv, LocksProtectChecks, ChecksHold
    <2>2. tx[p].trip \in Trips /\ tx[p].driver \in Drivers
      BY <2>1 DEF IInv, TypeOK, TxShape
    <2>3. /\ status[tx[p].trip] \in {"requested"} /\ fit[tx[p].driver]
          /\ driver_active_trip_ids(tx[p].driver) = {}
      BY <2>1, CheckedValues DEF ChecksHold
    <2>4. assigned[tx[p].trip] = None
      BY <2>2, <2>3 DEF IInv, DriverMatchesStatus
    <2>5. GoesTo(tx[p].trip, tx[p].driver)
      BY <1>4, <2>2, <2>3, <2>4 DEF CommitAccept, GoesTo
    <2> QED
      BY <2>2, <2>5
  <1>5. ASSUME NEW p \in Procs, CommitMove(p)
        PROVE  MovesTo(tx[p].trip, tx[p].op) /\ tx[p].trip \in Trips
    <2>1. status[tx[p].trip] \in AUTH!EnteredFrom[tx[p].op] /\ tx[p].trip \in Trips
      BY <1>5, LockedTrip, CheckedValues, EnteredValues DEF CommitMove
    <2> QED
      BY <1>5, <2>1 DEF CommitMove, MovesTo
  <1>6. ASSUME NEW p \in Procs, CommitComplete(p) \/ CommitOperatorEnd(p)
        PROVE  MovesTo(tx[p].trip, "completed") /\ tx[p].trip \in Trips
    <2>1. status[tx[p].trip] \in AUTH!EnteredFrom["completed"] /\ tx[p].trip \in Trips
      BY <1>6, LockedTrip, CheckedValues, EnteredValues DEF CommitComplete, CommitOperatorEnd
    <2>2. \A u \in Trips : u # tx[p].trip => closedBy'[u] = closedBy[u]
      BY <1>6 DEF CommitComplete, CommitOperatorEnd, IInv, TypeOK
    <2> QED
      BY <1>6, <2>1, <2>2 DEF CommitComplete, CommitOperatorEnd, MovesTo
  <1>7. ASSUME NEW p \in Procs, CommitCancel(p) \/ CommitDriverCancel(p)
        PROVE  MovesTo(tx[p].trip, "cancelled") /\ tx[p].trip \in Trips
    <2>1. status[tx[p].trip] \in AUTH!EnteredFrom["cancelled"] /\ tx[p].trip \in Trips
      BY <1>7, LockedTrip, CheckedLive, EnteredValues DEF CommitCancel, CommitDriverCancel
    <2>2. \A u \in Trips : u # tx[p].trip => closedBy'[u] = closedBy[u]
      BY <1>7 DEF CommitCancel, CommitDriverCancel, IInv, TypeOK
    <2> QED
      BY <1>7, <2>1, <2>2 DEF CommitCancel, CommitDriverCancel, MovesTo
  <1>8. CASE \E d \in Drivers : Suspend(d) \/ Reinstate(d)
    BY <1>8 DEF Suspend, Reinstate
  <1>9. CASE UNCHANGED vars
    BY <1>9 DEF vars
  <1>10. ASSUME NEW p \in Procs, CommitMove(p) PROVE tx[p].op \in {"reached", "in_progress"}
    BY <1>10 DEF CommitMove
  <1> QED
    BY <1>1, <1>2, <1>3, <1>4, <1>5, <1>6, <1>7, <1>8, <1>9, <1>10 DEF Next, Continue

\* A finished ride stays exactly as it was finished.
THEOREM FinishedIsFinalHolds == Spec => FinishedIsFinal
  <1> DEFINE Final == \A t \in Trips : status[t] \in {"completed", "cancelled"} =>
                        /\ status'[t] = status[t]
                        /\ assigned'[t] = assigned[t]
                        /\ closedBy'[t] = closedBy[t]
  <1>1. ASSUME IInv, [Next]_vars PROVE Final
    <2>1. CASE UNCHANGED <<status, assigned, closedBy>>
      BY <2>1
    <2>2. ASSUME NEW t \in Trips, Book(t) PROVE Final
      BY <1>1, <2>2 DEF Book, IInv, TypeOK
    <2>3. ASSUME NEW t \in Trips, NEW d \in Drivers, GoesTo(t, d) PROVE Final
      BY <1>1, <2>3 DEF GoesTo, IInv, TypeOK
    <2>4. ASSUME NEW t \in Trips, NEW s \in {"reached", "in_progress", "completed", "cancelled"},
                 MovesTo(t, s)
          PROVE  Final
      <3>1. status[t] \notin {"completed", "cancelled"}
        BY <2>4, EnteredValues DEF MovesTo
      <3> QED
        BY <1>1, <2>4, <3>1 DEF MovesTo, IInv, TypeOK
    <2> QED
      BY <1>1, <2>1, <2>2, <2>3, <2>4, StepOnRows
  <1>2. IInv /\ [Next]_vars => [Final]_vars
    BY <1>1
  <1> QED
    BY <1>2, Invariance, PTL DEF Spec, FinishedIsFinal

\* A trip gets its driver once, from unassigned, and the driver is fit at the
\* moment of the assignment.
THEOREM AssignedOnceHolds == Spec => AssignedOnceToFitDriver
  <1> DEFINE Once == \A t \in Trips : assigned'[t] # assigned[t] =>
                       /\ assigned[t] = None
                       /\ status'[t] = "accepted"
                       /\ fit[assigned'[t]]
  <1>1. ASSUME IInv, [Next]_vars PROVE Once
    <2>1. CASE UNCHANGED assigned
      BY <2>1
    <2>2. ASSUME NEW t \in Trips, NEW d \in Drivers, GoesTo(t, d) PROVE Once
      BY <1>1, <2>2 DEF GoesTo, IInv, TypeOK
    <2> QED
      BY <1>1, <2>1, <2>2, StepOnRows DEF Book, MovesTo
  <1>2. IInv /\ [Next]_vars => [Once]_vars
    BY <1>1
  <1> QED
    BY <1>2, Invariance, PTL DEF Spec, AssignedOnceToFitDriver

-----------------------------------------------------------------------------
(* Refinement.                                                             *)

\* The locking implementation implements the atomic ride state machine: every
\* commit is one atomic step, everything else leaves the Trip table alone.
THEOREM Refinement == Spec => ImplementsAuthority
  <1>1. Init => AUTH!Init
    BY DEF Init, AUTH!Init
  <1>2. ASSUME IInv, [Next]_vars PROVE [AUTH!Next]_(AUTH!vars)
    <2>1. CASE UNCHANGED <<status, assigned, closedBy>>
      BY <2>1 DEF AUTH!vars
    <2>2. ASSUME NEW t \in Trips, Book(t) PROVE AUTH!Next
      BY <2>2 DEF Book, AUTH!Book, AUTH!Next
    <2>3. ASSUME NEW t \in Trips, NEW d \in Drivers, GoesTo(t, d) PROVE AUTH!Next
      <3>1. AUTH!Assign(t, d)
        BY <2>3 DEF GoesTo, AUTH!Assign, AUTH!driver_active_trip_ids, driver_active_trip_ids,
           AUTH!DRIVER_ACTIVE_TRIP_STATUSES
      <3> QED
        BY <3>1 DEF AUTH!Next
    <2>4. ASSUME NEW t \in Trips, NEW s \in {"reached", "in_progress", "completed", "cancelled"},
                 MovesTo(t, s)
          PROVE  AUTH!Next
      <3>1. AUTH!Move(t, s)
        BY <2>4 DEF MovesTo, AUTH!Move
      <3> QED
        BY <3>1 DEF AUTH!Next
    <2> QED
      BY <1>2, <2>1, <2>2, <2>3, <2>4, StepOnRows
  <1> QED
    BY <1>1, <1>2, Invariance, PTL DEF Spec, ImplementsAuthority, AUTH!Spec

-----------------------------------------------------------------------------
(* Counting rides.                                                         *)

Completed(d) == {t \in Trips : assigned[t] = d /\ status[t] = "completed"}

\* A ride is counted in the transaction that completes it.
Counts(t) ==
  /\ status[t] = "in_progress"
  /\ status' = [status EXCEPT ![t] = "completed"]
  /\ UNCHANGED assigned
  /\ totalTrips' = [totalTrips EXCEPT ![assigned[t]] = @ + 1]

\* Every step completes one ride and counts it, or does neither.
LEMMA StepOnCounts ==
  ASSUME IInv, [Next]_vars
  PROVE  \/ \E t \in Trips : Counts(t)
         \/ UNCHANGED totalTrips /\ \A d \in Drivers : Completed(d)' = Completed(d)
  <1> DEFINE SameDone == \A t \in Trips :
               /\ status[t] = "completed" => status'[t] = "completed" /\ assigned'[t] = assigned[t]
               /\ status'[t] = "completed" => status[t] = "completed"
  <1>1. CASE \E p \in Procs : CommitComplete(p) \/ CommitOperatorEnd(p)
    <2>1. PICK p \in Procs : CommitComplete(p) \/ CommitOperatorEnd(p)
      BY <1>1
    <2>2. tx[p].trip \in Trips /\ status[tx[p].trip] \in {"in_progress"}
      BY <2>1, LockedTrip, CheckedValues DEF CommitComplete, CommitOperatorEnd
    <2>3. Counts(tx[p].trip)
      BY <2>1, <2>2 DEF Counts, CommitComplete, CommitOperatorEnd
    <2> QED
      BY <2>2, <2>3
  <1>2. CASE ~\E p \in Procs : CommitComplete(p) \/ CommitOperatorEnd(p)
    <2>1. UNCHANGED totalTrips
      BY <1>2 DEF Next, Continue, Request, vars, rows, Book, RiderSocketCancel, LockRiderCancel,
         LockOperatorCancel, LockAutoCancel, LockStaleRelease, OfferAccept, LockDriverCancel,
         DriverCommand, Authorise, TakeTrip, LockAccept, CheckDriver, CommitAccept, LockUpdate,
         CommitMove, CommitCancel, CommitDriverCancel, Rollback, Refused, Suspend, Reinstate
    <2>2. SameDone
      <3>1. CASE UNCHANGED <<status, assigned>>
        BY <3>1
      <3>2. CASE \E t \in Trips : Book(t)
        BY <3>2 DEF Book, IInv, TypeOK
      <3>3. ASSUME NEW p \in Procs, CommitAccept(p) PROVE SameDone
        <4>1. tx[p].pc = "driver_locked" /\ ChecksHold(p)
          BY <3>3 DEF CommitAccept, IInv, LocksProtectChecks
        <4>2. tx[p].trip \in Trips /\ status[tx[p].trip] \in {"requested"}
          BY <4>1, CheckedValues DEF IInv, TypeOK, TxShape, ChecksHold
        <4> QED
          BY <3>3, <4>2 DEF CommitAccept, IInv, TypeOK
      <3>4. ASSUME NEW p \in Procs, CommitMove(p) \/ CommitCancel(p) \/ CommitDriverCancel(p)
            PROVE SameDone
        <4>1. tx[p].trip \in Trips /\ status[tx[p].trip] # "completed"
          BY <3>4, LockedTrip, CheckedLive DEF CommitMove, CommitCancel, CommitDriverCancel
        <4> QED
          BY <3>4, <4>1 DEF CommitMove, CommitCancel, CommitDriverCancel, IInv, TypeOK
      <3>5. \/ UNCHANGED <<status, assigned>>
            \/ \E t \in Trips : Book(t)
            \/ \E p \in Procs : \/ CommitAccept(p) \/ CommitMove(p) \/ CommitCancel(p)
                                \/ CommitDriverCancel(p)
        BY <1>2 DEF Next, Continue, Request, vars, rows, RiderSocketCancel, LockRiderCancel,
           LockOperatorCancel, LockAutoCancel, LockStaleRelease, OfferAccept, LockDriverCancel,
           DriverCommand, Authorise, TakeTrip, LockAccept, CheckDriver, LockUpdate,
           Rollback, Refused, Suspend, Reinstate
      <3> QED
        BY <3>1, <3>2, <3>3, <3>4, <3>5
    <2> QED
      BY <2>1, <2>2 DEF Completed
  <1> QED
    BY <1>1, <1>2

\* Driver.total_trips is exactly the number of rides the driver has completed,
\* whoever ended them and however often the commands were sent.
THEOREM CountedOnceHolds == Spec => []CountedOnce
  <1>1. Init => CountedOnce
    <2> SUFFICES ASSUME Init, NEW d \in Drivers PROVE totalTrips[d] = Cardinality(Completed(d))
      BY DEF CountedOnce, Completed
    <2>1. Completed(d) = {} /\ totalTrips[d] = 0
      BY DEF Init, Completed
    <2> QED
      BY <2>1, FS_EmptySet
  <1>2. IInv /\ CountedOnce /\ [Next]_vars => CountedOnce'
    <2> SUFFICES ASSUME IInv, CountedOnce, [Next]_vars, NEW d \in Drivers
                 PROVE  totalTrips'[d] = Cardinality(Completed(d)')
      BY DEF CountedOnce, Completed
    <2>1. totalTrips[d] = Cardinality(Completed(d))
      BY DEF CountedOnce, Completed
    <2>2. ASSUME NEW t \in Trips, Counts(t)
          PROVE  totalTrips'[d] = Cardinality(Completed(d)')
      <3>1. CASE assigned[t] = d
        <4>1. Completed(d)' = Completed(d) \cup {t} /\ t \notin Completed(d)
          BY <2>2, <3>1 DEF Counts, Completed, IInv, TypeOK
        <4>2. IsFiniteSet(Completed(d))
          BY TripsFinite, FS_Subset DEF Completed
        <4>3. Cardinality(Completed(d) \cup {t}) = Cardinality(Completed(d)) + 1
          BY <4>1, <4>2, FS_AddElement
        <4>4. totalTrips'[d] = totalTrips[d] + 1
          BY <2>2, <3>1 DEF Counts, IInv, TypeOK
        <4> QED
          BY <2>1, <4>1, <4>3, <4>4
      <3>2. CASE assigned[t] # d
        <4>1. Completed(d)' = Completed(d)
          BY <2>2, <3>2 DEF Counts, Completed, IInv, TypeOK
        <4>2. totalTrips'[d] = totalTrips[d]
          BY <2>2, <3>2 DEF Counts, IInv, TypeOK
        <4> QED
          BY <2>1, <4>1, <4>2
      <3> QED
        BY <3>1, <3>2
    <2>3. CASE UNCHANGED totalTrips /\ Completed(d)' = Completed(d)
      BY <2>1, <2>3
    <2> QED
      BY <2>2, <2>3, StepOnCounts
  <1> QED
    BY <1>1, <1>2, Invariance, PTL DEF Spec
=============================================================================
