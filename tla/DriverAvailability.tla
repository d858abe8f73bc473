------------------------ MODULE DriverAvailability ------------------------
(***************************************************************************)
(* The Redis shadow of the ride state machine.  PostgreSQL decides who is  *)
(* on a ride (`TripAuthority`, whose commits are atomic here); Redis holds *)
(* a `driver:active_trip:<id>` key, a geo index and a heartbeat, written   *)
(* after the commit by the process that committed, and read by the         *)
(* driver's location socket.  A handler may be overtaken between its       *)
(* commit and its Redis commands, die there, or have a command fail, and   *)
(* Redis may lose its keys; reconciliation at (re)connect is the repair.   *)
(***************************************************************************)
EXTENDS TripAuthority, Naturals

CONSTANTS Procs,      \* server processes that run trip handlers
          MaxFaults   \* bound on crashes, failed commands and flushes together

ASSUME MaxFaultsNat == MaxFaults \in Nat

VARIABLES
  key,     \* driver:active_trip:<driver>, None when absent
  geo,     \* drivers in the geo index
  beat,    \* drivers whose heartbeat key is alive
  sock,    \* what each driver's location socket is doing
  seen,    \* the trip the socket's handler read, and the key it read
  work,    \* what each process still has to do after its commit
  faults   \* crashes, failed commands and flushes so far

redis == <<key, geo, beat>>
allVars == <<status, assigned, key, geo, beat, sock, seen, work, faults>>

NoWork == [pc |-> "idle", trip |-> None, driver |-> None, db |-> None, rd |-> None]

\* The database's answer, which is at most one trip (TripLifecycle!OneActiveTrip).
ActiveTrip(d) ==
  IF driver_active_trip_ids(d) = {} THEN None ELSE CHOOSE t \in driver_active_trip_ids(d) : TRUE

AvailInit ==
  /\ Init
  /\ key = [d \in Drivers |-> None]
  /\ geo = {} /\ beat = {}
  /\ sock = [d \in Drivers |-> "off"]
  /\ seen = [d \in Drivers |-> [db |-> None, rd |-> None]]
  /\ work = [p \in Procs |-> NoWork]
  /\ faults = 0

-----------------------------------------------------------------------------
(* Trip handlers: the commit, then the Redis commands one by one.          *)

Then(p, pc) == work' = [work EXCEPT ![p].pc = pc]
Finish(p) == work' = [work EXCEPT ![p] = NoWork]

BookTrip(t) == Book(t) /\ UNCHANGED <<redis, sock, seen, work, faults>>

CommitAccept(p, t, d) ==
  /\ work[p] = NoWork
  /\ Assign(t, d)
  /\ work' = [work EXCEPT ![p] = [NoWork EXCEPT !.pc = "set_key", !.trip = t, !.driver = d]]
  /\ UNCHANGED <<redis, sock, seen, faults>>

set_driver_active_trip(p) ==
  /\ work[p].pc = "set_key"
  /\ key' = [key EXCEPT ![work[p].driver] = work[p].trip]
  /\ Then(p, "remove_driver")
  /\ UNCHANGED <<vars, geo, beat, sock, seen, faults>>

\* Drops the geo member and the heartbeat together.
remove_driver(p) ==
  /\ work[p].pc = "remove_driver"
  /\ geo' = geo \ {work[p].driver}
  /\ beat' = beat \ {work[p].driver}
  /\ Finish(p)
  /\ UNCHANGED <<vars, key, sock, seen, faults>>

\* Arrival and start write only the trip's cached status.
Progress(t) ==
  /\ \E s \in {"reached", "in_progress"} : Move(t, s)
  /\ UNCHANGED <<redis, sock, seen, work, faults>>

\* Completion, cancellation by anyone, timeout.  An unassigned trip has no key.
CommitEnd(p, t) ==
  /\ work[p] = NoWork
  /\ \E s \in Finished : Move(t, s)
  /\ work' = [work EXCEPT ![p] = IF assigned[t] = None THEN NoWork
                ELSE [NoWork EXCEPT !.pc = "clear_key", !.driver = assigned[t]]]
  /\ UNCHANGED <<redis, sock, seen, faults>>

\* The stale panel ends the trip the same way and reconciles afterwards.
CommitStaleRelease(p, t) ==
  /\ work[p] = NoWork
  /\ assigned[t] # None
  /\ \/ status[t] \in {"accepted", "reached"} /\ Move(t, "cancelled")
     \/ Move(t, "completed")
  /\ work' = [work EXCEPT ![p] =
                [NoWork EXCEPT !.pc = "clear_then_reconcile", !.driver = assigned[t]]]
  /\ UNCHANGED <<redis, sock, seen, faults>>

\* On a finished trip the panel only reconciles.  It refuses one an operator had
\* ended; that column is not kept here, so a few more reconciliations may run.
ReleaseFinished(p, t) ==
  /\ work[p] = NoWork
  /\ assigned[t] # None /\ status[t] \in Finished
  /\ work' = [work EXCEPT ![p] = [NoWork EXCEPT !.pc = "read_db", !.driver = assigned[t]]]
  /\ UNCHANGED <<vars, redis, sock, seen, faults>>

\* DELETE, whatever trip the key names by now.
clear_driver_active_trip(p) ==
  /\ key' = [key EXCEPT ![work[p].driver] = None]
  /\ \/ work[p].pc = "clear_key" /\ Finish(p)
     \/ work[p].pc = "clear_then_reconcile" /\ Then(p, "read_db")
  /\ UNCHANGED <<vars, geo, beat, sock, seen, faults>>

-----------------------------------------------------------------------------
(* reconcile_driver_active_trip: read the database, read the key, repair.  *)
(* The reads and the write are three separate round trips.                 *)

\* Mutant: a stale key is deleted but a missing one is not written.
Repaired_delete_only(d, db, rd) ==
  [key EXCEPT ![d] = IF db = rd \/ db # None THEN @ ELSE None]

\* The key after the repair: PostgreSQL wins when the two reads disagree.
Repaired(d, db, rd) ==
  [key EXCEPT ![d] = IF db = rd THEN @ ELSE db]

ReconcileDb(p) ==
  /\ work[p].pc = "read_db"
  /\ work' = [work EXCEPT ![p].db = ActiveTrip(work[p].driver), ![p].pc = "read_key"]
  /\ UNCHANGED <<vars, redis, sock, seen, faults>>

ReconcileKey(p) ==
  /\ work[p].pc = "read_key"
  /\ work' = [work EXCEPT ![p].rd = key[work[p].driver], ![p].pc = "repair"]
  /\ UNCHANGED <<vars, redis, sock, seen, faults>>

ReconcileRepair(p) ==
  /\ work[p].pc = "repair"
  /\ key' = Repaired(work[p].driver, work[p].db, work[p].rd)
  /\ Finish(p)
  /\ UNCHANGED <<vars, geo, beat, sock, seen, faults>>

-----------------------------------------------------------------------------
(* The driver's location socket: one handler at a time.                    *)

Goes(d, pc) == sock' = [sock EXCEPT ![d] = pc]

Connect(d) ==
  /\ sock[d] = "off"
  /\ Goes(d, "read_db")
  /\ UNCHANGED <<vars, redis, seen, work, faults>>

ConnectReadDb(d) ==
  /\ sock[d] = "read_db"
  /\ seen' = [seen EXCEPT ![d].db = ActiveTrip(d)]
  /\ Goes(d, "read_key")
  /\ UNCHANGED <<vars, redis, work, faults>>

ConnectReadKey(d) ==
  /\ sock[d] = "read_key"
  /\ seen' = [seen EXCEPT ![d].rd = key[d]]
  /\ Goes(d, "repair")
  /\ UNCHANGED <<vars, redis, work, faults>>

ConnectRepair(d) ==
  /\ sock[d] = "repair"
  /\ key' = Repaired(d, seen[d].db, seen[d].rd)
  /\ seen' = [seen EXCEPT ![d] = [db |-> None, rd |-> None]]
  /\ Goes(d, "ping")
  /\ UNCHANGED <<vars, geo, beat, work, faults>>

\* A location frame arrives on an established socket.
Ping(d) ==
  /\ sock[d] = "open"
  /\ Goes(d, "ping")
  /\ UNCHANGED <<vars, redis, seen, work, faults>>

\* add_driver_location: refresh the heartbeat, then read the key ...
PingReadKey(d) ==
  /\ sock[d] = "ping"
  /\ beat' = beat \cup {d}
  /\ seen' = [seen EXCEPT ![d].rd = key[d]]
  /\ Goes(d, "index")
  /\ UNCHANGED <<vars, key, geo, work, faults>>

\* ... then drop a busy driver from the geo index or put a free one in.
PingIndex(d) ==
  /\ sock[d] = "index"
  /\ geo' = IF seen[d].rd = None THEN geo \cup {d} ELSE geo \ {d}
  /\ seen' = [seen EXCEPT ![d].rd = None]
  /\ Goes(d, "open")
  /\ UNCHANGED <<vars, key, beat, work, faults>>

Disconnect(d) ==
  /\ sock[d] = "open"
  /\ geo' = geo \ {d} /\ beat' = beat \ {d}
  /\ Goes(d, "off")
  /\ UNCHANGED <<vars, key, seen, work, faults>>

\* Nobody pings for the driver any more: the key expires, the sweep evicts.
HeartbeatExpires(d) ==
  /\ sock[d] = "off" /\ d \in beat
  /\ beat' = beat \ {d}
  /\ UNCHANGED <<vars, key, geo, sock, seen, work, faults>>

\* Mutant: the sweep evicts the drivers whose heartbeat is alive.
sweep_stale_drivers_inverted ==
  /\ ~ geo \subseteq beat
  /\ geo' = geo \ beat
  /\ UNCHANGED <<vars, key, beat, sock, seen, work, faults>>

sweep_stale_drivers ==
  /\ ~ geo \subseteq beat
  /\ geo' = geo \cap beat
  /\ UNCHANGED <<vars, key, beat, sock, seen, work, faults>>

-----------------------------------------------------------------------------
(* Failures.                                                               *)

Fault == faults < MaxFaults /\ faults' = faults + 1

\* A process dies between its commit and the rest of its handler.
CrashProc(p) ==
  /\ work[p] # NoWork /\ Fault
  /\ Finish(p)
  /\ UNCHANGED <<vars, redis, sock, seen>>

\* The key's SET or DELETE fails; its False is discarded and the handler goes on.
KeyWriteFails(p) ==
  /\ Fault
  /\ \/ work[p].pc = "set_key" /\ Then(p, "remove_driver")
     \/ work[p].pc = "clear_key" /\ Finish(p)
     \/ work[p].pc = "clear_then_reconcile" /\ Then(p, "read_db")
  /\ UNCHANGED <<vars, redis, sock, seen>>

\* The key cannot be read: reconciliation gives up, a ping treats the driver as busy.
KeyReadFails(d) ==
  /\ Fault
  /\ \/ sock[d] = "read_key" /\ Goes(d, "ping") /\ UNCHANGED <<geo, beat>>
     \/ sock[d] = "ping" /\ beat' = beat \cup {d} /\ geo' = geo \ {d} /\ Goes(d, "open")
  /\ seen' = [seen EXCEPT ![d] = [db |-> None, rd |-> None]]
  /\ UNCHANGED <<vars, key, work>>

\* The app or the socket server is killed: disconnect never runs.
SocketKilled(d) ==
  /\ sock[d] # "off" /\ Fault
  /\ Goes(d, "off")
  /\ seen' = [seen EXCEPT ![d] = [db |-> None, rd |-> None]]
  /\ UNCHANGED <<vars, redis, work>>

RedisFlush ==
  /\ Fault
  /\ key' = [d \in Drivers |-> None]
  /\ geo' = {} /\ beat' = {}
  /\ UNCHANGED <<vars, sock, seen, work>>

-----------------------------------------------------------------------------
WorkStep(p) ==
  \/ set_driver_active_trip(p) \/ remove_driver(p) \/ clear_driver_active_trip(p)
  \/ ReconcileDb(p) \/ ReconcileKey(p) \/ ReconcileRepair(p)

SocketStep(d) ==
  \/ ConnectReadDb(d) \/ ConnectReadKey(d) \/ ConnectRepair(d)
  \/ PingReadKey(d) \/ PingIndex(d)

AvailNext ==
  \/ \E t \in Trips : BookTrip(t) \/ Progress(t)
  \/ \E p \in Procs :
       \/ WorkStep(p) \/ CrashProc(p) \/ KeyWriteFails(p)
       \/ \E t \in Trips :
            \/ CommitEnd(p, t) \/ CommitStaleRelease(p, t) \/ ReleaseFinished(p, t)
            \/ \E d \in Drivers : CommitAccept(p, t, d)
  \/ \E d \in Drivers :
       \/ Connect(d) \/ SocketStep(d) \/ Ping(d) \/ Disconnect(d) \/ HeartbeatExpires(d)
       \/ KeyReadFails(d) \/ SocketKilled(d)
  \/ sweep_stale_drivers
  \/ RedisFlush

AvailSpec == AvailInit /\ [][AvailNext]_allVars

\* Handlers that were not killed run on; the sweep is on Celery beat.
FairAvailSpec ==
  /\ AvailSpec
  /\ \A p \in Procs : WF_allVars(WorkStep(p))
  /\ \A d \in Drivers : WF_allVars(SocketStep(d)) /\ WF_allVars(HeartbeatExpires(d))
  /\ WF_allVars(sweep_stale_drivers)

-----------------------------------------------------------------------------
(* Properties.                                                             *)

\* The Redis keys, the sockets and the unfinished handlers keep their shapes.
AvailTypeOK ==
  LET TripOrNone == Trips \cup {None}
  IN /\ status \in [Trips -> TripStatus] /\ assigned \in [Trips -> Drivers \cup {None}]
     /\ key \in [Drivers -> TripOrNone]
     /\ geo \subseteq Drivers /\ beat \subseteq Drivers
     /\ sock \in [Drivers -> {"off", "read_db", "read_key", "repair", "ping", "index", "open"}]
     /\ seen \in [Drivers -> [db : TripOrNone, rd : TripOrNone]]
     /\ work \in [Procs -> [pc : {"idle", "set_key", "remove_driver", "clear_key",
                                 "clear_then_reconcile", "read_db", "read_key", "repair"},
                            trip : TripOrNone, driver : Drivers \cup {None},
                            db : TripOrNone, rd : TripOrNone]]
     /\ faults \in 0..MaxFaults

\* After any crash, failed command or flush, a driver who keeps reconnecting is
\* repaired for good: the key names the ride they are on, and while the socket is
\* open the geo index holds exactly the free drivers, so a busy driver is no
\* longer offered rides and a freed one is offered them again.
ReconnectRepairs ==
  \A d \in Drivers :
    []<>(sock[d] = "read_db") =>
      <>[](/\ key[d] = ActiveTrip(d)
           /\ sock[d] = "open" => (d \in geo <=> ActiveTrip(d) = None))

\* A driver who is gone does not stay in the index to be matched: the heartbeat
\* and the sweep evict them although disconnect never ran.
GhostsEvicted ==
  \A d \in Drivers : sock[d] = "off" ~> (d \notin geo \/ sock[d] # "off")
=============================================================================
