------------------------------ MODULE Booking ------------------------------
(***************************************************************************)
(* Booking a ride over the rider's socket, and the deadline of the search. *)
(* A rider's app resends a booking it got no answer for, with the same     *)
(* client_request_id; several copies may be in the server at once.  The    *)
(* unique index on (user_id, client_request_id) arbitrates.  After the     *)
(* commit the handler schedules auto_cancel_trip and starts the search;    *)
(* the broker may be down, the process may die, and a periodic sweep backs *)
(* the deadline up from the database.                                      *)
(***************************************************************************)
EXTENDS TripAuthority, Naturals

CONSTANTS Requests,   \* client_request_ids of one rider
          Procs,      \* socket handlers
          MaxFrames,  \* bound: booking frames the rider's app sends
          MaxLosses   \* bound: killed processes and redelivered messages

ASSUME BookingBounds == MaxFrames \in Nat /\ MaxLosses \in Nat

VARIABLES
  reqOf,       \* Trip.client_request_id
  cancelledBy, \* Trip.cancelled_by
  handler,     \* what each socket handler is doing
  replies,     \* trip_created frames sent, as <<request, trip>>
  searches,    \* searches started by the booking of each trip
  timer,       \* trips with an auto_cancel_trip message at the broker
  overdue,     \* trips older than the accept timeout plus the grace period
  sweepList,   \* ids the running sweep has read and still has to handle
  frames,      \* booking frames sent so far
  losses       \* faults so far

allVars == <<status, assigned, reqOf, cancelledBy, handler, replies, searches, timer,
             overdue, sweepList, frames, losses>>

NoHandler == [pc |-> "idle", req |-> None, trip |-> None]

BookingInit ==
  /\ Init
  /\ reqOf = [t \in Trips |-> None]
  /\ cancelledBy = [t \in Trips |-> ""]
  /\ handler = [p \in Procs |-> NoHandler]
  /\ replies = {}
  /\ searches = [t \in Trips |-> 0]
  /\ timer = {} /\ overdue = {} /\ sweepList = {}
  /\ frames = 0 /\ losses = 0

\* Trip.objects.filter(user_id, client_request_id).first()
ExistingTrips(r) == {t \in Trips : status[t] # "absent" /\ reqOf[t] = r}

-----------------------------------------------------------------------------
(* One booking frame.                                                      *)

At(p, pc) == handler[p].pc = pc

Receive(p, r) ==
  /\ At(p, "idle") /\ frames < MaxFrames
  /\ frames' = frames + 1
  /\ handler' = [handler EXCEPT ![p] = [pc |-> "lookup", req |-> r, trip |-> None]]
  /\ UNCHANGED <<vars, reqOf, cancelledBy, replies, searches, timer, overdue, sweepList, losses>>

\* An answer that names an existing trip, with none of the side effects of booking.
Reuse(p) ==
  /\ \E t \in ExistingTrips(handler[p].req) : replies' = replies \cup {<<handler[p].req, t>>}
  /\ handler' = [handler EXCEPT ![p] = NoHandler]

Lookup(p) ==
  /\ At(p, "lookup")
  /\ \/ Reuse(p)
     \/ /\ ExistingTrips(handler[p].req) = {}
        /\ handler' = [handler EXCEPT ![p].pc = "insert"]
        /\ UNCHANGED replies
  /\ UNCHANGED <<vars, reqOf, cancelledBy, searches, timer, overdue, sweepList, frames, losses>>

\* Service area, distance, quote or promo refuse the booking before the commit.
BookingRefused(p) ==
  /\ At(p, "insert")
  /\ handler' = [handler EXCEPT ![p] = NoHandler]
  /\ UNCHANGED <<vars, reqOf, cancelledBy, replies, searches, timer, overdue, sweepList, frames, losses>>

\* Mutant: the unique index is missing.
UniqueRequest_missing(r) == TRUE

\* trip_unique_client_request_per_rider
UniqueRequest(r) == ExistingTrips(r) = {}

\* INSERT Trip and FarePricing, reserve the promo, commit.
Insert(p, t) ==
  /\ At(p, "insert")
  /\ UniqueRequest(handler[p].req)
  /\ Book(t)
  /\ reqOf' = [reqOf EXCEPT ![t] = handler[p].req]
  /\ handler' = [handler EXCEPT ![p].pc = "schedule", ![p].trip = t]
  /\ UNCHANGED <<cancelledBy, replies, searches, timer, overdue, sweepList, frames, losses>>

\* Mutant: the loser of the race goes on as if it had created the trip.
InsertRaced_falls_through(p) ==
  /\ At(p, "insert")
  /\ \E t \in ExistingTrips(handler[p].req) :
       handler' = [handler EXCEPT ![p].pc = "schedule", ![p].trip = t]
  /\ UNCHANGED <<vars, reqOf, cancelledBy, replies, searches, timer, overdue, sweepList, frames, losses>>

\* IntegrityError: the other copy won, so re-read and answer with its trip.
InsertRaced(p) ==
  /\ At(p, "insert")
  /\ ~UniqueRequest(handler[p].req)
  /\ Reuse(p)
  /\ UNCHANGED <<vars, reqOf, cancelledBy, searches, timer, overdue, sweepList, frames, losses>>

\* auto_cancel_trip.apply_async(countdown=...); a broker failure is only logged.
ScheduleTimeout(p) ==
  /\ At(p, "schedule")
  /\ \/ timer' = timer \cup {handler[p].trip}
     \/ UNCHANGED timer
  /\ handler' = [handler EXCEPT ![p].pc = "search"]
  /\ replies' = replies \cup {<<handler[p].req, handler[p].trip>>}
  /\ UNCHANGED <<vars, reqOf, cancelledBy, searches, overdue, sweepList, frames, losses>>

StartSearch(p) ==
  /\ At(p, "search")
  /\ \/ searches' = [searches EXCEPT ![handler[p].trip] = @ + 1]
     \/ UNCHANGED searches
  /\ handler' = [handler EXCEPT ![p] = NoHandler]
  /\ UNCHANGED <<vars, reqOf, cancelledBy, replies, timer, overdue, sweepList, frames, losses>>

\* The socket server is restarted with the frame half handled.
ProcessKilled(p) ==
  /\ ~At(p, "idle") /\ losses < MaxLosses
  /\ losses' = losses + 1
  /\ handler' = [handler EXCEPT ![p] = NoHandler]
  /\ UNCHANGED <<vars, reqOf, cancelledBy, replies, searches, timer, overdue, sweepList, frames>>

-----------------------------------------------------------------------------
(* The deadline.                                                           *)

Unaccepted(t) == assigned[t] = None /\ status[t] = "requested"

\* Mutant: the task trusts the status it was scheduled for and does not look at the driver.
auto_cancel_trip_unchecked(t) ==
  \/ /\ status[t] \in {"requested", "accepted"}
     /\ Move(t, "cancelled")
     /\ cancelledBy' = [cancelledBy EXCEPT ![t] = "system"]
  \/ /\ status[t] \notin {"requested", "accepted"}
     /\ UNCHANGED <<vars, cancelledBy>>

\* Re-checked under the row lock: cancel an unaccepted trip, else stand down.
auto_cancel_trip(t) ==
  \/ /\ Unaccepted(t)
     /\ Move(t, "cancelled")
     /\ cancelledBy' = [cancelledBy EXCEPT ![t] = "system"]
  \/ /\ ~Unaccepted(t)
     /\ UNCHANGED <<vars, cancelledBy>>

TimerFires(t) ==
  /\ t \in timer
  /\ auto_cancel_trip(t)
  /\ timer' = timer \ {t}
  /\ UNCHANGED <<reqOf, handler, replies, searches, overdue, sweepList, frames, losses>>

\* The worker dies after its commit and before the ack: the message comes again.
TimerRedelivered(t) ==
  /\ t \in timer /\ losses < MaxLosses
  /\ losses' = losses + 1
  /\ auto_cancel_trip(t)
  /\ UNCHANGED <<reqOf, handler, replies, searches, timer, overdue, sweepList, frames>>

\* Time: the trip's age passes timeout + grace.
BecomesOverdue(t) ==
  /\ status[t] # "absent" /\ t \notin overdue
  /\ overdue' = overdue \cup {t}
  /\ UNCHANGED <<vars, reqOf, cancelledBy, handler, replies, searches, timer, sweepList, frames, losses>>

\* Mutant: the sweep only looks at trips whose countdown message is still queued.
SweepReads_timers_only ==
  /\ sweepList = {}
  /\ \E t \in overdue \cap timer : Unaccepted(t)
  /\ sweepList' = {t \in overdue \cap timer : Unaccepted(t)}
  /\ UNCHANGED <<vars, reqOf, cancelledBy, handler, replies, searches, timer, overdue, frames, losses>>

\* sweep_unaccepted_trips reads a list of ids ...
SweepReads ==
  /\ sweepList = {}
  /\ \E t \in overdue : Unaccepted(t)
  /\ sweepList' = {t \in overdue : Unaccepted(t)}
  /\ UNCHANGED <<vars, reqOf, cancelledBy, handler, replies, searches, timer, overdue, frames, losses>>

\* ... and runs the same task on each, whatever happened meanwhile.
SweepHandles(t) ==
  /\ t \in sweepList
  /\ auto_cancel_trip(t)
  /\ sweepList' = sweepList \ {t}
  /\ UNCHANGED <<reqOf, handler, replies, searches, timer, overdue, frames, losses>>

\* Everybody else: a driver accepts, the rider gives up, the ride goes on.
DriverAccepts(t, d) ==
  /\ Assign(t, d)
  /\ UNCHANGED <<reqOf, cancelledBy, handler, replies, searches, timer, overdue, sweepList, frames, losses>>

RiderCancels(t) ==
  /\ Move(t, "cancelled")
  /\ cancelledBy' = [cancelledBy EXCEPT ![t] = "rider"]
  /\ UNCHANGED <<reqOf, handler, replies, searches, timer, overdue, sweepList, frames, losses>>

-----------------------------------------------------------------------------
HandlerStep(p) ==
  \/ Lookup(p) \/ BookingRefused(p) \/ InsertRaced(p) \/ ScheduleTimeout(p) \/ StartSearch(p)
  \/ \E t \in Trips : Insert(p, t)

Sweep == SweepReads \/ \E t \in Trips : SweepHandles(t)

BookingNext ==
  \/ \E p \in Procs : HandlerStep(p) \/ ProcessKilled(p) \/ \E r \in Requests : Receive(p, r)
  \/ \E t \in Trips :
       \/ TimerFires(t) \/ TimerRedelivered(t) \/ BecomesOverdue(t) \/ RiderCancels(t)
       \/ \E d \in Drivers : DriverAccepts(t, d)
  \/ Sweep

BookingSpec == BookingInit /\ [][BookingNext]_allVars

\* Time passes and Celery beat runs the sweep; nothing is assumed of the broker's
\* countdown message, of the socket handlers or of any person.
FairBookingSpec ==
  /\ BookingSpec
  /\ WF_allVars(Sweep)
  /\ \A t \in Trips : WF_allVars(BecomesOverdue(t))

-----------------------------------------------------------------------------
(* Properties.                                                             *)

\* Rows, handlers and the sets of the deadline keep their shapes.
BookingTypeOK ==
  /\ status \in [Trips -> TripStatus] /\ assigned \in [Trips -> Drivers \cup {None}]
  /\ reqOf \in [Trips -> Requests \cup {None}]
  /\ cancelledBy \in [Trips -> {"", "rider", "system"}]
  /\ handler \in [Procs -> [pc : {"idle", "lookup", "insert", "schedule", "search"},
                            req : Requests \cup {None}, trip : Trips \cup {None}]]
  /\ replies \subseteq Requests \X Trips
  /\ searches \in [Trips -> Nat]
  /\ timer \subseteq Trips /\ overdue \subseteq Trips /\ sweepList \subseteq Trips

\* However often and however concurrently a booking is sent, every answer to it
\* names the same trip: the rider never has two rides from one request.
RepliesAgree ==
  \A a, b \in replies : a[1] = b[1] => a[2] = b[2]

\* One booking starts at most one search: a resent frame never sets a second
\* dispatch chain competing for drivers on the same trip.
OneSearchPerTrip == \A t \in Trips : searches[t] <= 1

\* The countdown, its redelivery and the sweep never cancel a trip that a driver
\* has accepted, though they all work from ids read earlier.
TimeoutSparesAccepted ==
  \A t \in Trips : cancelledBy[t] = "system" => assigned[t] = None /\ status[t] = "cancelled"

\* A trip nobody accepts does not stay "requested": even with the broker down, the
\* countdown message lost or the booking handler killed, the rider gets an end.
SearchEnds == \A t \in Trips : status[t] = "requested" ~> status[t] # "requested"
=============================================================================
