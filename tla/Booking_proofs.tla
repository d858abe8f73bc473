--------------------------- MODULE Booking_proofs ---------------------------
(***************************************************************************)
(* What the booking path promises for every number of trips, drivers,      *)
(* requests and socket handlers, and however many frames are resent and    *)
(* processes killed.                                                       *)
(*                                                                         *)
(* The invariant ties together the three places where a booking leaves a   *)
(* trace: the row under the unique index, the handler that inserted it and *)
(* the replies sent.  Two handlers past the insert never hold one trip,    *)
(* and the trip such a handler holds has not been searched for: without    *)
(* that, OneSearchPerTrip is not inductive.                                *)
(***************************************************************************)
EXTENDS Booking, TripAuthority_proofs, TLAPS

Past == {"schedule", "search"}   \* the handler has committed the insert

RowTypes ==
  /\ status \in [Trips -> TripStatus] /\ assigned \in [Trips -> Drivers \cup {None}]
  /\ reqOf \in [Trips -> Requests \cup {None}]
  /\ searches \in [Trips -> Nat]

CancelTypes == cancelledBy \in [Trips -> {"", "rider", "system"}]

SetTypes ==
  /\ replies \subseteq Requests \X Trips
  /\ timer \subseteq Trips /\ overdue \subseteq Trips /\ sweepList \subseteq Trips

HandlerType ==
  [pc : {"idle", "lookup", "insert", "schedule", "search"},
   req : Requests \cup {None}, trip : Trips \cup {None}]

HandlerTypes == handler \in [Procs -> HandlerType]

\* A handler at work has a request; past its insert it also has the row it inserted for it, not
\* searched for so far and held by no other handler.
HandlersHold ==
  \A p \in Procs :
    /\ handler[p].pc # "idle" => handler[p].req \in Requests
    /\ handler[p].pc \in Past =>
         /\ handler[p].trip \in Trips
         /\ status[handler[p].trip] # "absent"
         /\ reqOf[handler[p].trip] = handler[p].req
         /\ searches[handler[p].trip] = 0
         /\ \A q \in Procs \ {p} : handler[q].pc \in Past => handler[q].trip # handler[p].trip

\* The unique index, and what the replies and the searches say of the rows.
RowsUnique ==
  \A t, u \in Trips :
    status[t] # "absent" /\ status[u] # "absent" /\ reqOf[t] = reqOf[u] => t = u

RepliesTrue ==
  \A a \in replies : status[a[2]] # "absent" /\ reqOf[a[2]] = a[1]

SearchesTrue ==
  \A t \in Trips : searches[t] <= 1 /\ (status[t] = "absent" => searches[t] = 0)

BookingInv ==
  /\ RowTypes /\ CancelTypes /\ SetTypes /\ HandlerTypes
  /\ HandlersHold /\ RowsUnique /\ RepliesTrue /\ SearchesTrue
  /\ TimeoutSparesAccepted

\* No trip, reply or timer in the beginning.
LEMMA BookingInitOK == BookingInit => BookingInv
<1> SUFFICES ASSUME BookingInit PROVE BookingInv
  OBVIOUS
<1>1. CancelTypes /\ \A t \in Trips : cancelledBy[t] # "system"
  <2>1. cancelledBy = [t \in Trips |-> ""]
    BY DEF BookingInit
  <2> QED BY <2>1, Zenon DEF CancelTypes
<1>2. /\ status = [t \in Trips |-> "absent"] /\ assigned = [t \in Trips |-> None]
      /\ reqOf = [t \in Trips |-> None] /\ searches = [t \in Trips |-> 0]
      /\ replies = {} /\ timer = {} /\ overdue = {} /\ sweepList = {}
      /\ handler = [p \in Procs |-> NoHandler]
  BY DEF BookingInit, Init
<1>3. RowTypes /\ SetTypes
  BY <1>2 DEF RowTypes, SetTypes, TripStatus
<1>4. HandlerTypes /\ \A p \in Procs : handler[p].pc = "idle"
  BY <1>2 DEF HandlerTypes, HandlerType, NoHandler
<1>5. HandlersHold
  BY <1>4 DEF HandlersHold, Past
<1>6. RowsUnique /\ RepliesTrue /\ SearchesTrue
  BY <1>2 DEF RowsUnique, RepliesTrue, SearchesTrue
<1>7. TimeoutSparesAccepted
  BY <1>1 DEF TimeoutSparesAccepted
<1> QED BY <1>1, <1>3, <1>4, <1>5, <1>6, <1>7 DEF BookingInv

\* A trip that is cancelled, accepted or left alone stays in the table: the unique index, the
\* handlers, the replies and the searches are as true as before.
LEMMA TableKept ==
  ASSUME BookingInv, RowTypes', UNCHANGED <<reqOf, handler, replies, searches>>,
         \A t \in Trips : (status[t] = "absent") <=> (status'[t] = "absent")
  PROVE  HandlerTypes' /\ HandlersHold' /\ RowsUnique' /\ RepliesTrue' /\ SearchesTrue'
<1> USE DEF BookingInv
<1>1. HandlerTypes'
  BY DEF HandlerTypes
<1>2. HandlersHold'
  BY DEF HandlersHold
<1>3. RowsUnique'
  BY DEF RowsUnique
<1>4. RepliesTrue'
  <2> SUFFICES ASSUME NEW a \in replies PROVE status'[a[2]] # "absent" /\ reqOf[a[2]] = a[1]
    BY DEF RepliesTrue
  <2>1. a[2] \in Trips
    BY DEF SetTypes
  <2> QED BY <2>1 DEF RepliesTrue
<1>5. SearchesTrue'
  BY DEF SearchesTrue
<1> QED BY <1>1, <1>2, <1>3, <1>4, <1>5

\* The countdown task, run by its message, by a redelivery or by the sweep, on an id read
\* earlier.
LEMMA AutoCancelOK ==
  ASSUME BookingInv, NEW t \in Trips, auto_cancel_trip(t),
         UNCHANGED <<reqOf, handler, replies, searches>>, SetTypes'
  PROVE  BookingInv'
<1> USE DEF BookingInv
<1>1. CASE Unaccepted(t) /\ Move(t, "cancelled") /\ cancelledBy' = [cancelledBy EXCEPT ![t] = "system"]
  <2>1. /\ status' = [status EXCEPT ![t] = "cancelled"] /\ UNCHANGED assigned
        /\ status[t] = "requested" /\ assigned[t] = None
    BY <1>1 DEF Move, Unaccepted
  <2>2. RowTypes'
    BY <1>1, <2>1 DEF RowTypes, TripStatus
  <2>3. \A u \in Trips : (status[u] = "absent") <=> (status'[u] = "absent")
    BY <2>1 DEF RowTypes
  <2>4. TimeoutSparesAccepted' /\ CancelTypes'
    BY <1>1, <2>1 DEF TimeoutSparesAccepted, CancelTypes, RowTypes
  <2> QED BY <2>2, <2>3, <2>4, TableKept
<1>2. CASE UNCHANGED <<vars, cancelledBy>>
  <2>1. RowTypes' /\ TimeoutSparesAccepted' /\ CancelTypes'
    BY <1>2 DEF RowTypes, TimeoutSparesAccepted, CancelTypes, vars
  <2>2. \A u \in Trips : (status[u] = "absent") <=> (status'[u] = "absent")
    BY <1>2 DEF vars
  <2> QED BY <2>1, <2>2, TableKept
<1> QED BY <1>1, <1>2 DEF auto_cancel_trip

\* The deadline's steps, and those of the driver and the rider.
LEMMA TripSteps ==
  ASSUME BookingInv, NEW t \in Trips,
         \/ TimerFires(t) \/ TimerRedelivered(t) \/ SweepHandles(t) \/ BecomesOverdue(t)
         \/ RiderCancels(t) \/ \E d \in Drivers : DriverAccepts(t, d)
  PROVE  BookingInv'
<1> USE DEF BookingInv
<1>1. CASE TimerFires(t) \/ TimerRedelivered(t) \/ SweepHandles(t)
  <2>1. SetTypes'
    BY <1>1 DEF TimerFires, TimerRedelivered, SweepHandles, SetTypes
  <2> QED BY <1>1, <2>1, AutoCancelOK DEF TimerFires, TimerRedelivered, SweepHandles
<1>2. CASE BecomesOverdue(t)
  <2>1. SetTypes'
    BY <1>2 DEF BecomesOverdue, SetTypes
  <2>2. RowTypes' /\ TimeoutSparesAccepted' /\ CancelTypes'
    BY <1>2 DEF BecomesOverdue, vars, RowTypes, TimeoutSparesAccepted, CancelTypes
  <2>3. HandlerTypes' /\ HandlersHold' /\ RowsUnique' /\ RepliesTrue' /\ SearchesTrue'
    BY <1>2, <2>2, TableKept DEF BecomesOverdue, vars
  <2> QED BY <2>1, <2>2, <2>3
<1>3. CASE RiderCancels(t)
  <2>1. /\ status' = [status EXCEPT ![t] = "cancelled"] /\ UNCHANGED assigned
        /\ status[t] \in {"requested"} \cup DRIVER_ACTIVE_TRIP_STATUSES
        /\ cancelledBy' = [cancelledBy EXCEPT ![t] = "rider"]
    BY <1>3 DEF RiderCancels, Move, EnteredFrom
  <2>2. SetTypes'
    BY <1>3 DEF RiderCancels, SetTypes
  <2>3. RowTypes' /\ UNCHANGED <<reqOf, handler, replies, searches>>
    BY <1>3, <2>1 DEF RiderCancels, RowTypes, TripStatus
  <2>4. \A u \in Trips : (status[u] = "absent") <=> (status'[u] = "absent")
    BY <2>1 DEF RowTypes, DRIVER_ACTIVE_TRIP_STATUSES
  <2>5. TimeoutSparesAccepted' /\ CancelTypes'
    BY <2>1 DEF TimeoutSparesAccepted, CancelTypes, RowTypes
  <2> QED BY <2>2, <2>3, <2>4, <2>5, TableKept
<1>4. ASSUME NEW d \in Drivers, DriverAccepts(t, d)
      PROVE  BookingInv'
  <2>1. /\ status' = [status EXCEPT ![t] = "accepted"] /\ status[t] = "requested"
        /\ assigned' = [assigned EXCEPT ![t] = d]
    BY <1>4 DEF DriverAccepts, Assign
  <2>2. SetTypes'
    BY <1>4 DEF DriverAccepts, SetTypes
  <2>3. RowTypes' /\ UNCHANGED <<reqOf, handler, replies, searches>>
    BY <1>4, <2>1 DEF DriverAccepts, RowTypes, TripStatus, DRIVER_ACTIVE_TRIP_STATUSES
  <2>4. \A u \in Trips : (status[u] = "absent") <=> (status'[u] = "absent")
    BY <2>1 DEF RowTypes
  <2>5. TimeoutSparesAccepted' /\ CancelTypes'
    <3>1. cancelledBy[t] # "system" /\ UNCHANGED cancelledBy
      BY <1>4, <2>1 DEF TimeoutSparesAccepted, CancelTypes, DriverAccepts
    <3> QED BY <2>1, <3>1 DEF TimeoutSparesAccepted, CancelTypes, RowTypes
  <2> QED BY <2>2, <2>3, <2>4, <2>5, TableKept
<1> QED BY <1>1, <1>2, <1>3, <1>4

\* A handler that has answered, was refused or is killed holds nothing any more.
LEMMA HandlerFreed ==
  ASSUME BookingInv, NEW p \in Procs, handler' = [handler EXCEPT ![p] = NoHandler],
         UNCHANGED <<status, reqOf>>,
         \A q \in Procs \ {p} : handler[q].pc \in Past => searches'[handler[q].trip] = 0
  PROVE  HandlerTypes' /\ HandlersHold'
<1> USE DEF BookingInv
<1>1. handler'[p] = NoHandler /\ \A q \in Procs \ {p} : handler'[q] = handler[q]
  BY DEF HandlerTypes
<1>2. HandlerTypes'
  BY DEF HandlerTypes, HandlerType, NoHandler
<1>3. HandlersHold'
  BY <1>1 DEF HandlersHold, Past, NoHandler
<1> QED BY <1>2, <1>3

\* A reply that names a row of the table for the request is one the invariant allows.
LEMMA ReplyOK ==
  ASSUME BookingInv, NEW r \in Requests, NEW t \in ExistingTrips(r),
         replies' = replies \cup {<<r, t>>}, UNCHANGED <<status, reqOf>>
  PROVE  replies' \subseteq Requests \X Trips /\ RepliesTrue'
<1> USE DEF BookingInv
<1>1. t \in Trips /\ status[t] # "absent" /\ reqOf[t] = r
  BY DEF ExistingTrips
<1>2. replies' \subseteq Requests \X Trips
  BY <1>1 DEF SetTypes
<1>3. RepliesTrue'
  BY <1>1 DEF RepliesTrue
<1> QED BY <1>2, <1>3

\* A handler that moves on within one frame, without touching the rows.
LEMMA HandlerMoves ==
  ASSUME BookingInv, NEW p \in Procs, NEW pc \in {"insert", "search"},
         handler' = [handler EXCEPT ![p].pc = pc],
         handler[p].pc \in {"lookup", "schedule"},
         pc = "search" <=> handler[p].pc = "schedule",
         UNCHANGED <<status, reqOf, searches>>
  PROVE  HandlerTypes' /\ HandlersHold'
<1> USE DEF BookingInv
<1>1. /\ handler'[p].pc = pc /\ handler'[p].req = handler[p].req /\ handler'[p].trip = handler[p].trip
      /\ \A q \in Procs \ {p} : handler'[q] = handler[q]
  BY DEF HandlerTypes, HandlerType
<1>2. HandlerTypes'
  BY DEF HandlerTypes, HandlerType
<1>3. handler[p].pc # "idle" /\ (pc \in Past <=> handler[p].pc \in Past)
  BY DEF Past
<1>4. HandlersHold'
  BY <1>1, <1>3 DEF HandlersHold
<1> QED BY <1>2, <1>4

\* Receiving a frame, looking the request up, being refused and losing the race.
LEMMA ReadingSteps ==
  ASSUME BookingInv, NEW p \in Procs,
         \/ \E r \in Requests : Receive(p, r)
         \/ Lookup(p) \/ BookingRefused(p) \/ InsertRaced(p) \/ ProcessKilled(p)
  PROVE  BookingInv'
<1> USE DEF BookingInv
<1>1. UNCHANGED <<status, assigned, reqOf, cancelledBy, searches, timer, overdue, sweepList>>
  BY DEF Receive, Lookup, BookingRefused, InsertRaced, ProcessKilled, vars
<1>2. RowTypes' /\ RowsUnique' /\ SearchesTrue' /\ TimeoutSparesAccepted' /\ CancelTypes'
  <2>1. RowTypes'
    BY <1>1 DEF RowTypes
  <2>2. RowsUnique'
    BY <1>1 DEF RowsUnique
  <2>3. SearchesTrue'
    BY <1>1 DEF SearchesTrue
  <2>4. TimeoutSparesAccepted' /\ CancelTypes'
    BY <1>1 DEF TimeoutSparesAccepted, CancelTypes
  <2> QED BY <2>1, <2>2, <2>3, <2>4
<1>3. ASSUME UNCHANGED replies PROVE SetTypes' /\ RepliesTrue'
  BY <1>1, <1>3 DEF SetTypes, RepliesTrue
<1>4. ASSUME handler' = [handler EXCEPT ![p] = NoHandler] PROVE HandlerTypes' /\ HandlersHold'
  <2>1. \A q \in Procs \ {p} : handler[q].pc \in Past => searches'[handler[q].trip] = 0
    BY <1>1 DEF HandlersHold
  <2> QED BY <1>1, <1>4, <2>1, HandlerFreed
<1>5. ASSUME Reuse(p), ~At(p, "idle") PROVE BookingInv'
  <2>1. handler[p].req \in Requests
    BY <1>5 DEF At, HandlersHold
  <2>2. PICK t \in ExistingTrips(handler[p].req) : replies' = replies \cup {<<handler[p].req, t>>}
    BY <1>5 DEF Reuse
  <2>3. replies' \subseteq Requests \X Trips /\ RepliesTrue'
    BY <1>1, <2>1, <2>2, ReplyOK
  <2>4. SetTypes'
    BY <1>1, <2>3 DEF SetTypes
  <2>5. HandlerTypes' /\ HandlersHold'
    BY <1>4, <1>5 DEF Reuse
  <2> QED BY <1>2, <2>3, <2>4, <2>5
<1>6. ASSUME NEW r \in Requests, Receive(p, r) PROVE BookingInv'
  <2>1. handler' = [handler EXCEPT ![p] = [pc |-> "lookup", req |-> r, trip |-> None]]
    BY <1>6 DEF Receive
  <2>2. /\ handler'[p] = [pc |-> "lookup", req |-> r, trip |-> None]
        /\ \A q \in Procs \ {p} : handler'[q] = handler[q]
    BY <2>1 DEF HandlerTypes
  <2>3. HandlerTypes'
    BY <2>1 DEF HandlerTypes, HandlerType
  <2>4. HandlersHold'
    BY <1>1, <2>2 DEF HandlersHold, Past
  <2> QED BY <1>2, <1>3, <1>6, <2>3, <2>4 DEF Receive
<1>7. CASE Lookup(p)
  <2>1. CASE Reuse(p)
    BY <1>5, <1>7, <2>1 DEF Lookup, At
  <2>2. CASE handler' = [handler EXCEPT ![p].pc = "insert"] /\ UNCHANGED replies
    <3>1. handler[p].pc = "lookup"
      BY <1>7 DEF Lookup, At
    <3>2. HandlerTypes' /\ HandlersHold'
      BY <1>1, <2>2, <3>1, HandlerMoves
    <3> QED BY <1>2, <1>3, <2>2, <3>2
  <2> QED BY <1>7, <2>1, <2>2 DEF Lookup
<1>8. CASE BookingRefused(p) \/ ProcessKilled(p)
  <2>1. UNCHANGED replies /\ handler' = [handler EXCEPT ![p] = NoHandler]
    BY <1>8 DEF BookingRefused, ProcessKilled
  <2> QED BY <1>2, <1>3, <1>4, <2>1
<1>9. CASE InsertRaced(p)
  BY <1>5, <1>9 DEF InsertRaced, At
<1> QED BY <1>6, <1>7, <1>8, <1>9

\* The insert, under the unique index.
LEMMA InsertStep ==
  ASSUME BookingInv, NEW p \in Procs, NEW t \in Trips, Insert(p, t)
  PROVE  BookingInv'
<1> USE DEF BookingInv
<1> DEFINE r == handler[p].req
<1>1. /\ handler[p].pc = "insert" /\ status[t] = "absent"
      /\ status' = [status EXCEPT ![t] = "requested"]
      /\ reqOf' = [reqOf EXCEPT ![t] = r]
      /\ handler' = [handler EXCEPT ![p].pc = "schedule", ![p].trip = t]
      /\ UNCHANGED <<assigned, cancelledBy, replies, searches, timer, overdue, sweepList>>
  BY DEF Insert, Book, At
<1>2. r \in Requests /\ \A u \in Trips : status[u] = "absent" \/ reqOf[u] # r
  BY <1>1 DEF Insert, UniqueRequest, ExistingTrips, HandlersHold
<1> HIDE DEF r
<1>3. /\ \A u \in Trips \ {t} : status'[u] = status[u] /\ reqOf'[u] = reqOf[u]
      /\ status'[t] = "requested" /\ reqOf'[t] = r
  BY <1>1 DEF RowTypes
<1>4. RowTypes' /\ SetTypes'
  BY <1>1, <1>2 DEF RowTypes, SetTypes, TripStatus
<1>5. RowsUnique'
  BY <1>2, <1>3 DEF RowsUnique
<1>6. RepliesTrue'
  <2> SUFFICES ASSUME NEW a \in replies PROVE status'[a[2]] # "absent" /\ reqOf'[a[2]] = a[1]
    BY <1>1 DEF RepliesTrue
  <2>1. a[2] \in Trips /\ status[a[2]] # "absent" /\ reqOf[a[2]] = a[1]
    BY DEF SetTypes, RepliesTrue
  <2> QED BY <1>1, <1>3, <2>1
<1>7. SearchesTrue'
  BY <1>1, <1>3 DEF SearchesTrue
<1>8. TimeoutSparesAccepted' /\ CancelTypes'
  BY <1>1, <1>3 DEF TimeoutSparesAccepted, CancelTypes
<1>9. /\ handler'[p].pc = "schedule" /\ handler'[p].req = r /\ handler'[p].trip = t
      /\ \A q \in Procs \ {p} : handler'[q] = handler[q]
  BY <1>1 DEF HandlerTypes, HandlerType, r
<1>10. HandlerTypes'
  BY <1>1 DEF HandlerTypes, HandlerType
<1>11. HandlersHold'
  <2>1. searches[t] = 0
    BY <1>1 DEF SearchesTrue
  <2>2. \A q \in Procs : handler[q].pc \in Past => handler[q].trip \in Trips \ {t}
    BY <1>1 DEF HandlersHold
  <2>3. ASSUME NEW q \in Procs \ {p}
        PROVE  /\ handler'[q].pc # "idle" => handler'[q].req \in Requests
               /\ handler'[q].pc \in Past =>
                    /\ handler'[q].trip \in Trips
                    /\ status'[handler'[q].trip] # "absent"
                    /\ reqOf'[handler'[q].trip] = handler'[q].req
                    /\ searches'[handler'[q].trip] = 0
                    /\ \A k \in Procs \ {q} :
                         handler'[k].pc \in Past => handler'[k].trip # handler'[q].trip
    <3>1. handler'[q] = handler[q] /\ (handler[q].pc # "idle" => handler[q].req \in Requests)
      BY <1>9 DEF HandlersHold
    <3>2. ASSUME handler[q].pc \in Past
          PROVE  /\ handler[q].trip \in Trips \ {t}
                 /\ status[handler[q].trip] # "absent"
                 /\ reqOf[handler[q].trip] = handler[q].req
                 /\ searches[handler[q].trip] = 0
                 /\ \A k \in Procs \ {q} : handler[k].pc \in Past => handler[k].trip # handler[q].trip
      BY <2>2, <3>2 DEF HandlersHold
    <3>3. ASSUME handler[q].pc \in Past, NEW k \in Procs \ {q}, handler'[k].pc \in Past
          PROVE  handler'[k].trip # handler[q].trip
      <4>1. CASE k = p
        BY <1>9, <3>2, <3>3, <4>1
      <4>2. CASE k # p
        BY <1>9, <3>2, <3>3, <4>2
      <4> QED BY <4>1, <4>2
    <3> QED BY <1>1, <1>3, <3>1, <3>2, <3>3
  <2>4. /\ handler'[p].req \in Requests /\ handler'[p].trip \in Trips
        /\ status'[handler'[p].trip] # "absent"
        /\ reqOf'[handler'[p].trip] = handler'[p].req
        /\ searches'[handler'[p].trip] = 0
        /\ \A k \in Procs \ {p} : handler'[k].pc \in Past => handler'[k].trip # handler'[p].trip
    BY <1>1, <1>2, <1>3, <1>9, <2>1, <2>2
  <2> QED BY <2>3, <2>4 DEF HandlersHold
<1> QED BY <1>4, <1>5, <1>6, <1>7, <1>8, <1>10, <1>11

\* After the commit: the countdown is scheduled, the rider answered and the search started.
LEMMA CommittedSteps ==
  ASSUME BookingInv, NEW p \in Procs, ScheduleTimeout(p) \/ StartSearch(p)
  PROVE  BookingInv'
<1> USE DEF BookingInv
<1>1. UNCHANGED <<status, assigned, reqOf, cancelledBy, overdue, sweepList>>
  BY DEF ScheduleTimeout, StartSearch, vars
<1>2. RowsUnique' /\ TimeoutSparesAccepted' /\ CancelTypes'
  BY <1>1 DEF RowsUnique, TimeoutSparesAccepted, CancelTypes
<1>3. CASE ScheduleTimeout(p)
  <2>1. /\ handler[p].pc = "schedule" /\ handler' = [handler EXCEPT ![p].pc = "search"]
        /\ replies' = replies \cup {<<handler[p].req, handler[p].trip>>} /\ UNCHANGED searches
    BY <1>3 DEF ScheduleTimeout, At
  <2>2. handler[p].req \in Requests /\ handler[p].trip \in ExistingTrips(handler[p].req)
    BY <2>1 DEF HandlersHold, Past, ExistingTrips
  <2>3. replies' \subseteq Requests \X Trips /\ RepliesTrue'
    BY <1>1, <2>1, <2>2, ReplyOK
  <2>4. timer' \subseteq Trips
    BY <1>3, <2>2 DEF ScheduleTimeout, SetTypes, ExistingTrips
  <2>5. HandlerTypes' /\ HandlersHold'
    BY <1>1, <2>1, HandlerMoves
  <2>6. SetTypes' /\ RowTypes' /\ SearchesTrue'
    BY <1>1, <2>1, <2>3, <2>4 DEF SetTypes, RowTypes, SearchesTrue
  <2> QED BY <1>2, <2>3, <2>5, <2>6
<1>4. CASE StartSearch(p)
  <2> DEFINE t == handler[p].trip
  <2>1. /\ handler[p].pc = "search" /\ handler' = [handler EXCEPT ![p] = NoHandler]
        /\ UNCHANGED <<replies, timer>>
        /\ searches' = [searches EXCEPT ![t] = @ + 1] \/ UNCHANGED searches
    BY <1>4 DEF StartSearch, At
  <2>2. /\ t \in Trips /\ status[t] # "absent" /\ searches[t] = 0
        /\ \A q \in Procs \ {p} : handler[q].pc \in Past => handler[q].trip # t
    BY <2>1 DEF HandlersHold, Past
  <2>3. \A q \in Procs \ {p} : handler[q].pc \in Past => handler[q].trip \in Trips /\ searches[handler[q].trip] = 0
    BY DEF HandlersHold
  <2> HIDE DEF t
  <2>4. \A u \in Trips \ {t} : searches'[u] = searches[u]
    BY <2>1, <2>2 DEF RowTypes
  <2>5. searches' \in [Trips -> Nat] /\ searches'[t] <= 1
    <3>1. CASE UNCHANGED searches
      BY <2>2, <3>1 DEF RowTypes
    <3>2. CASE searches' = [searches EXCEPT ![t] = @ + 1]
      <4>1. searches' = [searches EXCEPT ![t] = 1]
        BY <2>2, <3>2
      <4> QED BY <2>2, <4>1 DEF RowTypes
    <3> QED BY <2>1, <3>1, <3>2
  <2>6. HandlerTypes' /\ HandlersHold'
    BY <1>1, <2>1, <2>2, <2>3, <2>4, HandlerFreed
  <2>7. SearchesTrue'
    BY <1>1, <2>2, <2>4, <2>5 DEF SearchesTrue
  <2>8. SetTypes' /\ RepliesTrue' /\ RowTypes'
    BY <1>1, <2>1, <2>5 DEF SetTypes, RepliesTrue, RowTypes
  <2> QED BY <1>2, <2>6, <2>7, <2>8
<1> QED BY <1>3, <1>4

\* Every step of a booking preserves the invariant.
LEMMA BookingStep == BookingInv /\ [BookingNext]_allVars => BookingInv'
<1> SUFFICES ASSUME BookingInv, [BookingNext]_allVars PROVE BookingInv'
  OBVIOUS
<1>1. ASSUME NEW p \in Procs, HandlerStep(p) \/ ProcessKilled(p) \/ \E r \in Requests : Receive(p, r)
      PROVE  BookingInv'
  BY <1>1, ReadingSteps, InsertStep, CommittedSteps DEF HandlerStep
<1>2. ASSUME NEW t \in Trips,
             \/ TimerFires(t) \/ TimerRedelivered(t) \/ BecomesOverdue(t) \/ RiderCancels(t)
             \/ \E d \in Drivers : DriverAccepts(t, d)
             \/ SweepHandles(t)
      PROVE  BookingInv'
  BY <1>2, TripSteps
<1>3. CASE SweepReads
  <2>1. /\ UNCHANGED <<status, assigned, reqOf, cancelledBy, handler, replies, searches, timer, overdue>>
        /\ sweepList' \subseteq overdue
    BY <1>3 DEF SweepReads, vars
  <2>2. SetTypes' /\ RowTypes' /\ TimeoutSparesAccepted' /\ CancelTypes'
    BY <2>1 DEF BookingInv, SetTypes, RowTypes, TimeoutSparesAccepted, CancelTypes
  <2>3. HandlerTypes' /\ HandlersHold' /\ RowsUnique' /\ RepliesTrue' /\ SearchesTrue'
    BY <2>1, <2>2, TableKept
  <2> QED BY <2>2, <2>3 DEF BookingInv
<1>4. CASE UNCHANGED allVars
  <2>1. UNCHANGED <<status, assigned, reqOf, cancelledBy, handler, replies, searches, timer, overdue, sweepList>>
    BY <1>4 DEF allVars
  <2>2. SetTypes' /\ RowTypes' /\ TimeoutSparesAccepted' /\ CancelTypes'
    BY <2>1 DEF BookingInv, SetTypes, RowTypes, TimeoutSparesAccepted, CancelTypes
  <2>3. HandlerTypes' /\ HandlersHold' /\ RowsUnique' /\ RepliesTrue' /\ SearchesTrue'
    BY <2>1, <2>2, TableKept
  <2> QED BY <2>2, <2>3 DEF BookingInv
<1> QED BY <1>1, <1>2, <1>3, <1>4 DEF BookingNext, Sweep

\* The inductive invariant holds in every reachable state.
LEMMA BookingInvAlways == BookingSpec => []BookingInv
BY BookingInitOK, BookingStep, PTL DEF BookingSpec

\* Rows, handlers and the deadline's sets keep their shapes.
THEOREM BookingTypes == BookingSpec => []BookingTypeOK
<1>1. BookingInv => BookingTypeOK
  BY DEF BookingInv, BookingTypeOK, RowTypes, CancelTypes, SetTypes, HandlerTypes, HandlerType
<1> QED BY <1>1, BookingInvAlways, PTL

\* Every answer to one request names one trip, however many copies of the frame are handled at
\* once (the lookup, the unique index and the re-read after IntegrityError).
THEOREM OneTripPerRequest == BookingSpec => []RepliesAgree
<1>1. BookingInv => RepliesAgree
  <2> SUFFICES ASSUME BookingInv, NEW a \in replies, NEW b \in replies, a[1] = b[1] PROVE a[2] = b[2]
    BY DEF RepliesAgree
  <2>1. a[2] \in Trips /\ b[2] \in Trips
    BY DEF BookingInv, SetTypes
  <2> QED BY <2>1 DEF BookingInv, RepliesTrue, RowsUnique
<1> QED BY <1>1, BookingInvAlways, PTL

\* A booking starts at most one search, resent frames and killed handlers included.
THEOREM SearchedOnce == BookingSpec => []OneSearchPerTrip
<1>1. BookingInv => OneSearchPerTrip
  BY DEF BookingInv, SearchesTrue, OneSearchPerTrip
<1> QED BY <1>1, BookingInvAlways, PTL

\* auto_cancel_trip, run from the countdown, a redelivery or the sweep, cancels no accepted trip.
THEOREM AcceptedSpared == BookingSpec => []TimeoutSparesAccepted
<1>1. BookingInv => TimeoutSparesAccepted
  BY DEF BookingInv
<1> QED BY <1>1, BookingInvAlways, PTL

\* Booking implements the abstract specification of rides: every step of the booking path books,
\* assigns or moves one trip as TripAuthority allows, or leaves the rides alone.
THEOREM BookingImplementsAuthority == BookingSpec => Spec
<1>1. BookingInit => Init
  BY DEF BookingInit
<1>2. [BookingNext]_allVars => [Next]_vars
  <2> SUFFICES ASSUME BookingNext PROVE Next \/ UNCHANGED vars
    BY DEF allVars, vars
  <2>1. ASSUME NEW p \in Procs, HandlerStep(p) \/ ProcessKilled(p) \/ \E r \in Requests : Receive(p, r)
        PROVE  Next \/ UNCHANGED vars
    <3>1. ASSUME NEW t \in Trips, Insert(p, t) PROVE Next
      BY <3>1 DEF Insert, Next
    <3> QED BY <2>1, <3>1 DEF HandlerStep, ProcessKilled, Receive, Lookup, BookingRefused,
              InsertRaced, ScheduleTimeout, StartSearch
  <2>2. ASSUME NEW t \in Trips, auto_cancel_trip(t) PROVE Next \/ UNCHANGED vars
    BY <2>2 DEF auto_cancel_trip, Next
  <2>3. ASSUME NEW t \in Trips,
               TimerFires(t) \/ TimerRedelivered(t) \/ SweepHandles(t) \/ BecomesOverdue(t)
        PROVE  Next \/ UNCHANGED vars
    BY <2>2, <2>3 DEF TimerFires, TimerRedelivered, SweepHandles, BecomesOverdue
  <2>4. ASSUME NEW t \in Trips, RiderCancels(t) PROVE Next
    BY <2>4 DEF RiderCancels, Next
  <2>5. ASSUME NEW t \in Trips, NEW d \in Drivers, DriverAccepts(t, d) PROVE Next
    BY <2>5 DEF DriverAccepts, Next
  <2>6. CASE SweepReads
    BY <2>6 DEF SweepReads
  <2> QED BY <2>1, <2>3, <2>4, <2>5, <2>6 DEF BookingNext, Sweep
<1> QED BY <1>1, <1>2, PTL DEF BookingSpec, Spec

\* So booking inherits the rides' own invariant: requests sent twice, killed processes, redelivered
\* timers and the sweep never leave a driver on two rides, or a status without its driver
\* (_create_trip, auto_cancel_trip).
THEOREM BookingRidesAgree == BookingSpec => [](ColumnsAgree /\ OneRideEach)
BY BookingImplementsAuthority, RidesAgree, PTL
=============================================================================
