------------------------------ MODULE Dispatch ------------------------------
(***************************************************************************)
(* The driver search.  A generation (epoch) is a chain of Celery tasks,    *)
(* one per radius; each wave re-reads the trip, picks candidates from the  *)
(* geo index, writes who was offered into Redis, sends the request cards   *)
(* and queues its successor.  A lost worker's task is delivered again.     *)
(* Acceptances and cancellations commit at any moment (`TripAuthority`)    *)
(* and then dismiss the outstanding cards.                                 *)
(***************************************************************************)
EXTENDS TripAuthority, Naturals, FiniteSets

CONSTANTS Workers,    \* Celery workers
          Procs,      \* processes that close trips and then dismiss the cards
          NumWaves,   \* radii of the initial plan (DISPATCH_RADIUS_WAVES_M)
          MaxGens,    \* bound: searches per trip, retries included
          MaxLosses   \* bound: lost workers

ASSUME WavesNat ==
  /\ NumWaves \in Nat \ {0} /\ MaxGens \in Nat \ {0} /\ MaxLosses \in Nat
  /\ IsFiniteSet(Workers)

VARIABLES
  queue,     \* how many copies of each wave task the broker holds
  gens,      \* generations started for each trip
  genOffers, \* per generation: who was already offered
  offered,   \* per trip: whom to tell when the trip is gone
  cards,     \* request cards on drivers' screens, as <<driver, trip>>
  sends,     \* offers sent per <<trip, generation, driver>>
  worker,    \* the wave each worker is running
  job,       \* the dismissal each process is in the middle of
  raced,     \* trips closed while some wave was past its gate (history)
  losses     \* workers lost so far

redis == <<genOffers, offered>>
allVars == <<status, assigned, queue, gens, genOffers, offered, cards, sends,
             worker, job, raced, losses>>

Gens == 1..MaxGens
Tasks == Trips \X Gens \X (0..NumWaves)

\* A retry searches one radius only; the first generation runs the whole plan.
wave_plan(g) == IF g = 1 THEN NumWaves ELSE 1

NoWave == [pc |-> "idle", task |-> None, ids |-> {}]
NoJob == [pc |-> "idle", trip |-> None, driver |-> None, losers |-> {}]

\* The gate every wave passes through.
dispatchable(t) == assigned[t] = None /\ status[t] = "requested"

DispatchInit ==
  /\ Init
  /\ queue = [k \in Tasks |-> 0]
  /\ gens = [t \in Trips |-> 0]
  /\ genOffers = [t \in Trips |-> [g \in Gens |-> {}]]
  /\ offered = [t \in Trips |-> {}]
  /\ cards = {}
  /\ sends = [k \in Trips \X Gens \X Drivers |-> 0]
  /\ worker = [w \in Workers |-> NoWave]
  /\ job = [p \in Procs |-> NoJob]
  /\ raced = {}
  /\ losses = 0

-----------------------------------------------------------------------------
(* Starting a search.                                                      *)

\* apply_async puts the task on the broker, or raises and is only reported.
Enqueue(k) == \/ queue' = [queue EXCEPT ![k] = @ + 1]
              \/ UNCHANGED queue

BookTrip(t) ==
  /\ Book(t)
  /\ UNCHANGED <<queue, gens, redis, cards, sends, worker, job, raced, losses>>

start_dispatch(t) ==
  /\ gens[t] < MaxGens
  /\ gens' = [gens EXCEPT ![t] = @ + 1]
  /\ Enqueue(<<t, gens[t] + 1, 0>>)
  /\ UNCHANGED <<vars, redis, cards, sends, worker, job, raced, losses>>

\* The booking handler's own search ...
InitialSearch(t) == status[t] # "absent" /\ gens[t] = 0 /\ start_dispatch(t)

\* ... and the rider's "retry", which looks at the driver column only.
_handle_retry(t) ==
  status[t] # "absent" /\ gens[t] > 0 /\ assigned[t] = None /\ start_dispatch(t)

-----------------------------------------------------------------------------
(* One wave, step by step.                                                 *)

At(w, pc) == worker[w].pc = pc
WaveOf(w) == worker[w].task
TripOf(w) == WaveOf(w)[1]
GenOf(w) == WaveOf(w)[2]

\* The deliveries of a task that are not acknowledged yet.
Holders(k) == {v \in Workers : ~At(v, "idle") /\ WaveOf(v) = k}

\* A worker takes a delivery; the copy stays with the broker until the ack.
TakeTask(w, k) ==
  /\ At(w, "idle")
  /\ Cardinality(Holders(k)) < queue[k]
  /\ worker' = [worker EXCEPT ![w] = [pc |-> "gate", task |-> k, ids |-> {}]]
  /\ UNCHANGED <<vars, queue, gens, redis, cards, sends, job, raced, losses>>

Ack(w) ==
  /\ worker' = [worker EXCEPT ![w] = NoWave]
  /\ queue' = [queue EXCEPT ![WaveOf(w)] = @ - 1]

\* execute_wave: a trip no longer open ends the chain here.  For an open one the
\* candidates are whoever is near, minus those this generation has asked.
LiveWave(k) == dispatchable(k[1]) /\ k[3] < wave_plan(k[2])

\* Mutant: the generation's own offers are not excluded.
_candidate_driver_ids_all(near, t, g) == near

_candidate_driver_ids(near, t, g) == near \ genOffers[t][g]

Gate(w) ==
  /\ At(w, "gate")
  /\ \/ /\ LiveWave(WaveOf(w))
        /\ \E near \in SUBSET Drivers :
             worker' = [worker EXCEPT ![w].pc = "record",
                          ![w].ids = _candidate_driver_ids(near, TripOf(w), GenOf(w))]
        /\ UNCHANGED queue
     \/ ~LiveWave(WaveOf(w)) /\ Ack(w)
  /\ UNCHANGED <<vars, gens, redis, cards, sends, job, raced, losses>>

\* The offers are written down before they are sent.
Record(w) ==
  LET t == TripOf(w) IN
  /\ At(w, "record")
  /\ genOffers' = [genOffers EXCEPT ![t][GenOf(w)] = @ \cup worker[w].ids]
  /\ offered' = [offered EXCEPT ![t] = @ \cup worker[w].ids]
  /\ worker' = [worker EXCEPT ![w].pc = "send"]
  /\ UNCHANGED <<vars, queue, gens, cards, sends, job, raced, losses>>

\* group_send to each candidate; an offline driver's frame goes nowhere.
Send(w) ==
  /\ At(w, "send")
  /\ \E reachable \in SUBSET worker[w].ids :
       cards' = cards \cup {<<d, TripOf(w)>> : d \in reachable}
  /\ sends' = [k \in DOMAIN sends |->
                 IF k \in {<<TripOf(w), GenOf(w), d>> : d \in worker[w].ids}
                 THEN sends[k] + 1 ELSE sends[k]]
  /\ worker' = [worker EXCEPT ![w].pc = "successor"]
  /\ UNCHANGED <<vars, queue, gens, redis, job, raced, losses>>

\* Mutant: the wave index is not advanced.
Successor_same_wave(w) ==
  /\ At(w, "successor")
  /\ \/ LiveWave(WaveOf(w)) /\ Enqueue(WaveOf(w))
     \/ ~LiveWave(WaveOf(w)) /\ UNCHANGED queue
  /\ worker' = [worker EXCEPT ![w].pc = "ack"]
  /\ UNCHANGED <<vars, gens, redis, cards, sends, job, raced, losses>>

\* _schedule_successor; the task is acknowledged only after it returns.
Successor(w) ==
  LET next == <<TripOf(w), GenOf(w), WaveOf(w)[3] + 1>>
  IN /\ At(w, "successor")
     /\ \/ LiveWave(next) /\ Enqueue(next)
        \/ ~LiveWave(next) /\ UNCHANGED queue
     /\ worker' = [worker EXCEPT ![w].pc = "ack"]
     /\ UNCHANGED <<vars, gens, redis, cards, sends, job, raced, losses>>

Done(w) ==
  /\ At(w, "ack")
  /\ Ack(w)
  /\ UNCHANGED <<vars, gens, redis, cards, sends, job, raced, losses>>

\* The worker is killed; acks_late returns its task to the queue.
WorkerLost(w) ==
  /\ worker[w] # NoWave /\ losses < MaxLosses
  /\ losses' = losses + 1
  /\ worker' = [worker EXCEPT ![w] = NoWave]
  /\ UNCHANGED <<vars, queue, gens, redis, cards, sends, job, raced>>

-----------------------------------------------------------------------------
(* Closing the offer: acceptance, cancellation, timeout.                   *)

\* Waves that have read the trip as open and have not yet sent their cards.
PastGate(t) == \E w \in Workers : worker[w].pc \in {"record", "send"} /\ TripOf(w) = t

CloseThen(p, t, winner) ==
  /\ job[p] = NoJob
  /\ job' = [job EXCEPT ![p] = [NoJob EXCEPT !.pc = "read", !.trip = t, !.driver = winner]]
  /\ raced' = IF PastGate(t) THEN raced \cup {t} ELSE raced
  /\ UNCHANGED <<queue, gens, redis, sends, worker, losses>>

\* The winner's own card turns into the ride screen.
Accept(p, t, d) ==
  /\ Assign(t, d)
  /\ cards' = cards \ {<<d, t>>}
  /\ CloseThen(p, t, d)

\* Rider, driver, operator or timeout.  What a ride does between acceptance and
\* its end does not touch the search; its end dismisses once more.
Close(p, t) ==
  /\ Move(t, "cancelled")
  /\ CloseThen(p, t, None)
  /\ UNCHANGED cards

\* Mutant: the exclusion is inverted, only the winner is told.
PopRead_inverted(p) ==
  /\ job[p].pc = "read"
  /\ job' = [job EXCEPT ![p].pc = "delete",
                        ![p].losers = offered[job[p].trip] \cap {job[p].driver}]
  /\ UNCHANGED <<vars, queue, gens, redis, cards, sends, worker, raced, losses>>

\* pop_offered_drivers reads the set ...
PopRead(p) ==
  /\ job[p].pc = "read"
  /\ job' = [job EXCEPT ![p].pc = "delete",
                        ![p].losers = offered[job[p].trip] \ {job[p].driver}]
  /\ UNCHANGED <<vars, queue, gens, redis, cards, sends, worker, raced, losses>>

\* ... and deletes it ...
PopDelete(p) ==
  /\ job[p].pc = "delete"
  /\ offered' = [offered EXCEPT ![job[p].trip] = {}]
  /\ job' = [job EXCEPT ![p].pc = "tell"]
  /\ UNCHANGED <<vars, queue, gens, genOffers, cards, sends, worker, raced, losses>>

\* ... and the losers are sent trip_taken.
TellLosers(p) ==
  /\ job[p].pc = "tell"
  /\ cards' = cards \ {<<d, job[p].trip>> : d \in job[p].losers}
  /\ job' = [job EXCEPT ![p] = NoJob]
  /\ UNCHANGED <<vars, queue, gens, redis, sends, worker, raced, losses>>

-----------------------------------------------------------------------------
WaveStep(w) == Gate(w) \/ Record(w) \/ Send(w) \/ Successor(w) \/ Done(w)
JobStep(p) == PopRead(p) \/ PopDelete(p) \/ TellLosers(p)

DispatchNext ==
  \/ \E t \in Trips : BookTrip(t) \/ InitialSearch(t) \/ _handle_retry(t)
  \/ \E w \in Workers : WaveStep(w) \/ WorkerLost(w) \/ \E k \in Tasks : TakeTask(w, k)
  \/ \E p \in Procs :
       JobStep(p) \/ \E t \in Trips : Close(p, t) \/ \E d \in Drivers : Accept(p, t, d)

DispatchSpec == DispatchInit /\ [][DispatchNext]_allVars

\* Workers take what is queued and run it; handlers finish.
FairDispatchSpec ==
  /\ DispatchSpec
  /\ \A w \in Workers : WF_allVars(WaveStep(w)) /\ WF_allVars(\E k \in Tasks : TakeTask(w, k))
  /\ \A p \in Procs : WF_allVars(JobStep(p))

-----------------------------------------------------------------------------
(* Properties.                                                             *)

\* Queue, offer sets, cards and running waves keep their shapes.
DispatchTypeOK ==
  /\ queue \in [Tasks -> Nat]
  /\ gens \in [Trips -> 0..MaxGens]
  /\ genOffers \in [Trips -> [Gens -> SUBSET Drivers]]
  /\ offered \in [Trips -> SUBSET Drivers]
  /\ cards \subseteq Drivers \X Trips
  /\ \A w \in Workers :
       /\ worker[w].pc \in {"idle", "gate", "record", "send", "successor", "ack"}
       /\ worker[w] # NoWave => worker[w].task \in Tasks /\ queue[worker[w].task] > 0
       /\ worker[w].ids \subseteq Drivers

\* While no worker is lost, one search asks each driver at most once, however
\* its waves overlap with retries, acceptances and cancellations.
OfferedOncePerSearch == losses = 0 => \A k \in DOMAIN sends : sends[k] <= 1

\* A closed trip leaves no card behind unless a wave was already past its gate
\* when it closed: every path that ends an offer dismisses everyone who has it.
CardsDismissed ==
  \A t \in Trips :
    /\ status[t] \in Finished \cup DRIVER_ACTIVE_TRIP_STATUSES
    /\ t \notin raced
    /\ \A p \in Procs : job[p].trip # t
    => \A d \in Drivers : <<d, t>> \notin cards

\* Every search ends: with lost workers redelivered and successors chained, the
\* broker still runs out of waves for good.
SearchQuiesces == <>[](\A k \in Tasks : queue[k] = 0)
=============================================================================
