-------------------------- MODULE Dispatch_proofs --------------------------
(***************************************************************************)
(* The search asks a driver once, leaves no card behind, and keeps to the  *)
(* ride's authority, for every number of trips, drivers, workers, waves,   *)
(* searches and lost workers.                                              *)
(*                                                                         *)
(* OfferedOncePerSearch needs what the broker and the workers hold between *)
(* them: of one search at most one wave is still to be run or running, and *)
(* the waves before it only wait for their acknowledgement.                *)
(* CardsDismissed needs who will dismiss each card of a trip that is gone. *)
(***************************************************************************)
EXTENDS Dispatch, TripAuthority_proofs, FiniteSetTheorems, TLAPS

WaveType ==
  [pc : {"idle", "gate", "record", "send", "successor", "ack"},
   task : Tasks \cup {None}, ids : SUBSET Drivers]

JobType ==
  [pc : {"idle", "read", "delete", "tell"}, trip : Trips \cup {None},
   driver : Drivers \cup {None}, losers : SUBSET Drivers]

TripsTyped == status \in [Trips -> TripStatus] /\ assigned \in [Trips -> Drivers \cup {None}]

OffersTyped ==
  /\ gens \in [Trips -> 0 .. MaxGens]
  /\ genOffers \in [Trips -> [Gens -> SUBSET Drivers]]
  /\ offered \in [Trips -> SUBSET Drivers]
  /\ cards \subseteq Drivers \X Trips
  /\ sends \in [Trips \X Gens \X Drivers -> Nat]
  /\ losses \in Nat

JobsTyped == job \in [Procs -> JobType] /\ \A p \in Procs : job[p].pc # "idle" => job[p].trip \in Trips

\* The broker keeps a copy for every delivery that is not acknowledged.
WavesTyped ==
  /\ queue \in [Tasks -> Nat]
  /\ worker \in [Workers -> WaveType]
  /\ \A w \in Workers : IF At(w, "idle") THEN worker[w] = NoWave ELSE WaveOf(w) \in Tasks
  /\ \A k \in Tasks : Cardinality(Holders(k)) <= queue[k]

TypesInv == TripsTyped /\ OffersTyped /\ JobsTyped /\ WavesTyped

-----------------------------------------------------------------------------
SameSearch(k, l) == k[1] = l[1] /\ k[2] = l[2]

\* One copy of each task, with one worker ...
OneCopy == \A k \in Tasks : queue[k] <= 1
OneHolder ==
  \A v, w \in Workers : ~At(v, "idle") /\ ~At(w, "idle") /\ WaveOf(v) = WaveOf(w) => v = w

\* ... of two waves of a search the earlier one only waits for its acknowledgement ...
EarlierSpent ==
  \A k, l \in Tasks :
    SameSearch(k, l) /\ k[3] < l[3] /\ queue[k] > 0 /\ queue[l] > 0
      => \E w \in Workers : At(w, "ack") /\ WaveOf(w) = k

\* ... and no wave is there before its search is begun.
Begun == \A k \in Tasks : queue[k] > 0 => k[2] <= gens[k[1]]

ChainInv == OneCopy /\ OneHolder /\ EarlierSpent /\ Begun

\* Whom a search has asked is written down, and whom a wave is about to ask was not
\* asked before.
AskedInv ==
  /\ \A t \in Trips, g \in Gens, d \in Drivers :
       /\ sends[<<t, g, d>>] <= 1
       /\ sends[<<t, g, d>>] > 0 => d \in genOffers[t][g]
  /\ \A w \in Workers :
       /\ At(w, "record") => worker[w].ids \cap genOffers[TripOf(w)][GenOf(w)] = {}
       /\ At(w, "send") => \A d \in worker[w].ids :
                              /\ d \in genOffers[TripOf(w)][GenOf(w)]
                              /\ sends[<<TripOf(w), GenOf(w), d>>] = 0

SearchInv == losses = 0 => ChainInv /\ AskedInv

-----------------------------------------------------------------------------
Open(t) == status[t] \in {"absent", "requested"}

\* A trip still open: its cards, and the ones about to be sent, are written down, and
\* nobody dismisses them.
OpenCards == \A t \in Trips, d \in Drivers : Open(t) /\ <<d, t>> \in cards => d \in offered[t]
OpenWaves ==
  \A w \in Workers : At(w, "send") /\ Open(TripOf(w)) => worker[w].ids \subseteq offered[TripOf(w)]
DismissedClosed == \A p \in Procs : job[p].pc # "idle" => ~Open(job[p].trip)

\* A card of trip t that process p is going to dismiss.
Dismisses(p, d, t) ==
  /\ job[p].trip = t
  /\ \/ job[p].pc = "read" /\ d \in offered[t]
     \/ job[p].pc \in {"delete", "tell"} /\ d \in job[p].losers

\* A trip that is gone and was not overtaken by a wave.
Gone(t) == ~Open(t) /\ t \notin raced

\* Its cards: no wave adds to them, each is about to be dismissed, and who dismisses
\* them does it for everyone written down but the winner, who has none.
NoneOvertakes == \A t \in Trips : Gone(t) => ~PastGate(t)
AllDismissed ==
  \A t \in Trips, d \in Drivers :
    Gone(t) /\ <<d, t>> \in cards => \E p \in Procs : Dismisses(p, d, t)
EveryoneTold ==
  \A p \in Procs : job[p].pc # "idle" /\ Gone(job[p].trip) =>
    /\ <<job[p].driver, job[p].trip>> \notin cards
    /\ job[p].pc = "delete" => offered[job[p].trip] \ {job[p].driver} \subseteq job[p].losers

CardsInv == OpenCards /\ OpenWaves /\ DismissedClosed /\ NoneOvertakes /\ AllDismissed /\ EveryoneTold

DispatchInv == TypesInv /\ SearchInv /\ CardsInv

-----------------------------------------------------------------------------
(* Facts about tasks, waves and deliveries.                                 *)

\* A task is a trip, one of its searches and a radius.
LEMMA TaskParts ==
  ASSUME NEW k \in Tasks
  PROVE  /\ k[1] \in Trips /\ k[2] \in Gens /\ k[3] \in 0 .. NumWaves /\ k[3] \in Nat
         /\ k = <<k[1], k[2], k[3]>>
BY WavesNat DEF Tasks

\* What a busy worker holds.
LEMMA WaveFacts ==
  ASSUME TypesInv, NEW w \in Workers, ~At(w, "idle")
  PROVE  /\ WaveOf(w) \in Tasks /\ worker[w] \in WaveType /\ worker[w].ids \subseteq Drivers
         /\ TripOf(w) \in Trips /\ GenOf(w) \in Gens
         /\ w \in Holders(WaveOf(w)) /\ queue[WaveOf(w)] \in Nat /\ queue[WaveOf(w)] > 0
<1>1. WaveOf(w) \in Tasks /\ worker[w] \in WaveType
  BY DEF TypesInv, WavesTyped
<1>2. w \in Holders(WaveOf(w))
  BY DEF Holders
<1>3. PICK S : S = Holders(WaveOf(w))
  OBVIOUS
<1>4. S \subseteq Workers /\ IsFiniteSet(S)
  <2>1. S \subseteq Workers
    BY <1>3 DEF Holders
  <2> QED BY <2>1, WavesNat, FS_Subset
<1>5. Cardinality(S) \in Nat /\ Cardinality(S) # 0
  BY <1>2, <1>3, <1>4, FS_CardinalityType, FS_EmptySet
<1>6. queue[WaveOf(w)] \in Nat /\ Cardinality(S) <= queue[WaveOf(w)]
  BY <1>1, <1>3 DEF TypesInv, WavesTyped
<1>7. worker[w].ids \subseteq Drivers
  BY <1>1 DEF WaveType
<1>8. TripOf(w) \in Trips /\ GenOf(w) \in Gens
  BY <1>1, TaskParts DEF TripOf, GenOf
<1> QED BY <1>1, <1>2, <1>5, <1>6, <1>7, <1>8

\* The deliveries of a task are finitely many.
LEMMA HoldersFinite ==
  ASSUME NEW k
  PROVE  IsFiniteSet(Holders(k)) /\ Cardinality(Holders(k)) \in Nat
<1>1. Holders(k) \subseteq Workers
  BY DEF Holders
<1> QED BY <1>1, WavesNat, FS_Subset, FS_CardinalityType

\* A wave goes on with its task while the broker loses nothing.
LEMMA WaveGoesOn ==
  ASSUME TypesInv, NEW w \in Workers, ~At(w, "idle"), NEW r \in WaveType,
         r.pc # "idle", r.task = worker[w].task, worker' = [worker EXCEPT ![w] = r],
         queue' \in [Tasks -> Nat], \A k \in Tasks : queue'[k] >= queue[k]
  PROVE  WavesTyped'
<1>1. worker' \in [Workers -> WaveType] /\ \A v \in Workers \ {w} : worker'[v] = worker[v]
  BY DEF TypesInv, WavesTyped
<1>2. worker'[w] = r
  BY DEF TypesInv, WavesTyped
<1>3. \A v \in Workers : /\ (worker'[v].pc = "idle") <=> (worker[v].pc = "idle")
                         /\ worker'[v].task = worker[v].task
  BY <1>1, <1>2 DEF At
<1>4. \A k : Holders(k)' = Holders(k)
  BY <1>3 DEF Holders, At, WaveOf
<1>5. ASSUME NEW k \in Tasks PROVE Cardinality(Holders(k)') <= queue'[k]
  <2>1. Cardinality(Holders(k)) <= queue[k] /\ queue[k] \in Nat /\ queue'[k] \in Nat
    BY DEF TypesInv, WavesTyped
  <2>2. queue'[k] >= queue[k]
    OBVIOUS
  <2> QED BY <1>4, <2>1, <2>2, HoldersFinite
<1>6. ASSUME NEW v \in Workers
      PROVE  IF worker'[v].pc = "idle" THEN worker'[v] = NoWave ELSE worker'[v].task \in Tasks
  <2>1. IF worker[v].pc = "idle" THEN worker[v] = NoWave ELSE worker[v].task \in Tasks
    BY DEF TypesInv, WavesTyped, At, WaveOf
  <2>2. CASE v = w
    BY <1>3, <2>1, <2>2 DEF At
  <2>3. CASE v # w
    BY <1>1, <2>1, <2>3
  <2> QED BY <2>2, <2>3
<1> QED BY <1>1, <1>5, <1>6 DEF WavesTyped, At, WaveOf

\* No worker is concerned.
LEMMA WavesLeft ==
  ASSUME TypesInv, worker' = worker, queue' \in [Tasks -> Nat],
         \A k \in Tasks : queue'[k] >= queue[k]
  PROVE  WavesTyped'
<1>1. \A k : Holders(k)' = Holders(k)
  BY DEF Holders, At, WaveOf
<1>2. ASSUME NEW k \in Tasks PROVE Cardinality(Holders(k)') <= queue'[k]
  <2>1. Cardinality(Holders(k)) <= queue[k] /\ queue[k] \in Nat /\ queue'[k] \in Nat
    BY DEF TypesInv, WavesTyped
  <2>2. queue'[k] >= queue[k]
    OBVIOUS
  <2> QED BY <1>1, <2>1, <2>2, HoldersFinite
<1> QED BY <1>2 DEF TypesInv, WavesTyped, At, WaveOf

\* The free worker.
LEMMA NoWaveOK == NoWave \in WaveType /\ NoWave.pc = "idle"
BY DEF NoWave, WaveType

\* A worker drops its wave, by finishing it or by being lost; the broker may forget
\* the copy it had for it.
LEMMA WaveDropped ==
  ASSUME TypesInv, NEW w \in Workers, ~At(w, "idle"),
         worker' = [worker EXCEPT ![w] = NoWave],
         \/ queue' = queue
         \/ queue' = [queue EXCEPT ![WaveOf(w)] = @ - 1]
  PROVE  WavesTyped'
<1>1. worker' \in [Workers -> WaveType] /\ worker'[w] = NoWave
      /\ \A v \in Workers \ {w} : worker'[v] = worker[v]
  BY NoWaveOK DEF TypesInv, WavesTyped
<1>2. WaveOf(w) \in Tasks /\ w \in Holders(WaveOf(w)) /\ queue[WaveOf(w)] \in Nat
      /\ queue[WaveOf(w)] > 0 /\ queue \in [Tasks -> Nat]
  BY WaveFacts DEF TypesInv, WavesTyped
<1>3. queue' \in [Tasks -> Nat]
  BY <1>2
<1>4. \A k : Holders(k)' = Holders(k) \ {w}
  BY <1>1, NoWaveOK DEF Holders, At, WaveOf
<1>5. ASSUME NEW k \in Tasks PROVE Cardinality(Holders(k)') <= queue'[k]
  <2>1. Cardinality(Holders(k)) <= queue[k] /\ queue[k] \in Nat
    BY DEF TypesInv, WavesTyped
  <2>2. PICK S : S = Holders(k)
    OBVIOUS
  <2>3. IsFiniteSet(S) /\ Cardinality(S) \in Nat
    BY <2>2, HoldersFinite
  <2>4. IsFiniteSet(S \ {w}) /\ Cardinality(S \ {w}) = IF w \in S THEN Cardinality(S) - 1 ELSE Cardinality(S)
    BY <2>3, FS_RemoveElement
  <2>5. Holders(k)' = S \ {w}
    BY <1>4, <2>2
  <2>6. PICK c : c = Cardinality(S \ {w})
    OBVIOUS
  <2>7. PICK n : n = Cardinality(S)
    OBVIOUS
  <2>8. n \in Nat /\ n <= queue[k] /\ (c = IF w \in S THEN n - 1 ELSE n)
    BY <2>1, <2>2, <2>3, <2>4, <2>6, <2>7
  <2>9. CASE k = WaveOf(w)
    <3>1. w \in S
      BY <1>2, <2>2, <2>9
    <3>2. queue'[k] = queue[k] \/ queue'[k] = queue[k] - 1
      BY <1>2, <2>9
    <3>3. c <= queue'[k]
      BY <2>1, <2>8, <3>1, <3>2
    <3> QED BY <2>5, <2>6, <3>3
  <2>10. CASE k # WaveOf(w)
    <3>1. queue'[k] = queue[k]
      BY <1>2, <2>10
    <3>2. c <= queue'[k]
      BY <2>1, <2>8, <3>1
    <3> QED BY <2>5, <2>6, <3>2
  <2> QED BY <2>9, <2>10
<1>6. ASSUME NEW v \in Workers
      PROVE  IF worker'[v].pc = "idle" THEN worker'[v] = NoWave ELSE worker'[v].task \in Tasks
  <2>1. IF worker[v].pc = "idle" THEN worker[v] = NoWave ELSE worker[v].task \in Tasks
    BY DEF TypesInv, WavesTyped, At, WaveOf
  <2> QED BY <1>1, <2>1, NoWaveOK
<1> QED BY <1>1, <1>3, <1>5, <1>6 DEF WavesTyped, At, WaveOf

\* A worker takes a delivery the broker still has for it.
LEMMA WaveTaken ==
  ASSUME TypesInv, NEW w \in Workers, NEW k \in Tasks, TakeTask(w, k)
  PROVE  WavesTyped'
<1>1. PICK r : r = [pc |-> "gate", task |-> k, ids |-> {}]
  OBVIOUS
<1>2. r \in WaveType /\ r.pc = "gate" /\ r.task = k
  BY <1>1 DEF WaveType
<1>3. worker' = [worker EXCEPT ![w] = r] /\ queue' = queue /\ worker[w].pc = "idle"
      /\ Cardinality(Holders(k)) < queue[k]
  BY <1>1 DEF TakeTask, At
<1>4. worker' \in [Workers -> WaveType] /\ worker'[w] = r
      /\ \A v \in Workers \ {w} : worker'[v] = worker[v]
  BY <1>2, <1>3 DEF TypesInv, WavesTyped
<1>5. ASSUME NEW l \in Tasks PROVE Cardinality(Holders(l)') <= queue'[l]
  <2>1. Cardinality(Holders(l)) <= queue[l] /\ queue[l] \in Nat
    BY DEF TypesInv, WavesTyped
  <2>2. PICK S : S = Holders(l)
    OBVIOUS
  <2>3. IsFiniteSet(S) /\ Cardinality(S) \in Nat
    BY <2>2, HoldersFinite
  <2>4. CASE l = k
    <3>1. Holders(l)' = S \cup {w}
      BY <1>2, <1>3, <1>4, <2>2, <2>4 DEF Holders, At, WaveOf
    <3>2. w \notin S
      BY <1>3, <2>2 DEF Holders, At
    <3>3. Cardinality(S \cup {w}) = Cardinality(S) + 1
      BY <2>3, <3>2, FS_AddElement
    <3> QED BY <1>3, <2>1, <2>2, <2>3, <2>4, <3>1, <3>3
  <2>5. CASE l # k
    <3>1. Holders(l)' = S
      BY <1>2, <1>3, <1>4, <2>2, <2>5 DEF Holders, At, WaveOf
    <3> QED BY <1>3, <2>1, <2>2, <3>1
  <2> QED BY <2>4, <2>5
<1>6. ASSUME NEW v \in Workers
      PROVE  IF worker'[v].pc = "idle" THEN worker'[v] = NoWave ELSE worker'[v].task \in Tasks
  <2>1. IF worker[v].pc = "idle" THEN worker[v] = NoWave ELSE worker[v].task \in Tasks
    BY DEF TypesInv, WavesTyped, At, WaveOf
  <2> QED BY <1>2, <1>4, <2>1
<1>7. queue' \in [Tasks -> Nat]
  BY <1>3 DEF TypesInv, WavesTyped
<1> QED BY <1>4, <1>5, <1>6, <1>7 DEF WavesTyped, At, WaveOf

\* A wave that goes on keeps its task; only its gate chooses candidates, among those
\* its search has not asked, and only for a trip that is open.
LEMMA WaveShape ==
  ASSUME TypesInv, NEW w \in Workers, ~At(w, "idle"),
         (Gate(w) /\ LiveWave(WaveOf(w))) \/ Record(w) \/ Send(w) \/ Successor(w)
  PROVE  \E r \in WaveType :
           /\ worker' = [worker EXCEPT ![w] = r] /\ r.task = worker[w].task /\ r.pc # "idle"
           /\ \/ /\ Gate(w) /\ r.pc = "record" /\ dispatchable(TripOf(w)) /\ queue' = queue
                 /\ r.ids \cap genOffers[TripOf(w)][GenOf(w)] = {}
              \/ Record(w) /\ r.pc = "send" /\ r.ids = worker[w].ids
              \/ Send(w) /\ r.pc = "successor" /\ r.ids = worker[w].ids
              \/ Successor(w) /\ r.pc = "ack" /\ r.ids = worker[w].ids
<1>1. worker \in [Workers -> WaveType] /\ worker[w] \in WaveType
  BY DEF TypesInv, WavesTyped
<1>2. CASE Gate(w) /\ LiveWave(WaveOf(w))
  <2>1. PICK near \in SUBSET Drivers :
          worker' = [worker EXCEPT ![w].pc = "record",
                       ![w].ids = _candidate_driver_ids(near, TripOf(w), GenOf(w))]
    BY <1>2 DEF Gate
  <2>2. PICK i : i = near \ genOffers[TripOf(w)][GenOf(w)]
    OBVIOUS
  <2>3. i = _candidate_driver_ids(near, TripOf(w), GenOf(w)) /\ i \in SUBSET Drivers
        /\ i \cap genOffers[TripOf(w)][GenOf(w)] = {}
    BY <2>1, <2>2 DEF _candidate_driver_ids
  <2>4. PICK r : r = [worker[w] EXCEPT !.pc = "record", !.ids = i]
    OBVIOUS
  <2>5. r \in WaveType /\ r.pc = "record" /\ r.task = worker[w].task /\ r.ids = i
    BY <1>1, <2>3, <2>4 DEF WaveType
  <2>6. worker' = [worker EXCEPT ![w] = r]
    BY <1>1, <2>1, <2>3, <2>4
  <2>7. dispatchable(TripOf(w)) /\ queue' = queue
    BY <1>2 DEF LiveWave, TripOf, Gate
  <2> QED BY <1>2, <2>3, <2>5, <2>6, <2>7
<1>3. CASE Record(w)
  <2>1. PICK r : r = [worker[w] EXCEPT !.pc = "send"]
    OBVIOUS
  <2>2. r \in WaveType /\ r.pc = "send" /\ r.task = worker[w].task /\ r.ids = worker[w].ids
    BY <1>1, <2>1 DEF WaveType
  <2>3. worker' = [worker EXCEPT ![w] = r]
    BY <1>1, <1>3, <2>1 DEF Record
  <2> QED BY <1>3, <2>2, <2>3
<1>4. CASE Send(w)
  <2>1. PICK r : r = [worker[w] EXCEPT !.pc = "successor"]
    OBVIOUS
  <2>2. r \in WaveType /\ r.pc = "successor" /\ r.task = worker[w].task /\ r.ids = worker[w].ids
    BY <1>1, <2>1 DEF WaveType
  <2>3. worker' = [worker EXCEPT ![w] = r]
    BY <1>1, <1>4, <2>1 DEF Send
  <2> QED BY <1>4, <2>2, <2>3
<1>5. CASE Successor(w)
  <2>1. PICK r : r = [worker[w] EXCEPT !.pc = "ack"]
    OBVIOUS
  <2>2. r \in WaveType /\ r.pc = "ack" /\ r.task = worker[w].task /\ r.ids = worker[w].ids
    BY <1>1, <2>1 DEF WaveType
  <2>3. worker' = [worker EXCEPT ![w] = r]
    BY <1>1, <1>5, <2>1 DEF Successor
  <2> QED BY <1>5, <2>2, <2>3
<1> QED BY <1>2, <1>3, <1>4, <1>5

\* The other end of a wave: its task is acknowledged.
LEMMA WaveEnds ==
  ASSUME TypesInv, NEW w \in Workers, (Gate(w) /\ ~LiveWave(WaveOf(w))) \/ Done(w)
  PROVE  Ack(w) /\ ~At(w, "idle")
         /\ UNCHANGED <<status, assigned, gens, genOffers, offered, cards, sends, job, raced, losses>>
BY DEF Gate, Done, At, vars, redis

\* The successor of a wave is a task of the same search, the next radius.
LEMMA SuccessorTask ==
  ASSUME TypesInv, NEW w \in Workers, ~At(w, "idle"),
         NEW n, n = <<TripOf(w), GenOf(w), WaveOf(w)[3] + 1>>, LiveWave(n)
  PROVE  n \in Tasks /\ SameSearch(WaveOf(w), n) /\ n[3] = WaveOf(w)[3] + 1 /\ WaveOf(w)[3] \in Nat
<1>1. WaveOf(w) \in Tasks
  BY WaveFacts
<1>2. TripOf(w) \in Trips /\ GenOf(w) \in Gens /\ WaveOf(w)[3] \in Nat
  BY <1>1, TaskParts DEF TripOf, GenOf
<1>3. n[1] = TripOf(w) /\ n[2] = GenOf(w) /\ n[3] = WaveOf(w)[3] + 1
  OBVIOUS
<1>4. n[3] < wave_plan(n[2])
  BY DEF LiveWave
<1>5. wave_plan(n[2]) <= NumWaves /\ wave_plan(n[2]) \in Nat
  BY WavesNat DEF wave_plan
<1>6. WaveOf(w)[3] + 1 \in 0 .. NumWaves
  BY <1>2, <1>3, <1>4, <1>5, WavesNat
<1> QED BY <1>2, <1>3, <1>6 DEF Tasks, SameSearch, TripOf, GenOf

\* A task is queued once more, or the broker was not reached.
LEMMA EnqueueTyped ==
  ASSUME TypesInv, NEW k \in Tasks, Enqueue(k)
  PROVE  queue' \in [Tasks -> Nat] /\ \A l \in Tasks : queue'[l] >= queue[l]
BY DEF TypesInv, WavesTyped, Enqueue

-----------------------------------------------------------------------------
(* Types.                                                                   *)

\* The broker and the workers, over every step.
LEMMA WavesStep ==
  ASSUME TypesInv, [DispatchNext]_allVars
  PROVE  WavesTyped'
<1>1. ASSUME queue' = queue, worker' = worker PROVE WavesTyped'
  BY <1>1, WavesLeft DEF TypesInv, WavesTyped
<1>2. ASSUME NEW t \in Trips, start_dispatch(t) PROVE WavesTyped'
  <2>1. gens[t] \in 0 .. MaxGens /\ gens[t] < MaxGens
    BY <1>2 DEF start_dispatch, TypesInv, OffersTyped
  <2>2. <<t, gens[t] + 1, 0>> \in Tasks
    BY <2>1, WavesNat DEF Tasks, Gens
  <2>3. Enqueue(<<t, gens[t] + 1, 0>>) /\ worker' = worker
    BY <1>2 DEF start_dispatch
  <2> QED BY <2>2, <2>3, EnqueueTyped, WavesLeft
<1>3. ASSUME NEW w \in Workers, WaveStep(w) PROVE WavesTyped'
  <2>1. ~At(w, "idle")
    BY <1>3 DEF WaveStep, Gate, Record, Send, Successor, Done, At
  <2>2. CASE (Gate(w) /\ ~LiveWave(WaveOf(w))) \/ Done(w)
    BY <2>1, <2>2, WaveEnds, WaveDropped DEF Ack
  <2>3. CASE (Gate(w) /\ LiveWave(WaveOf(w))) \/ Record(w) \/ Send(w) \/ Successor(w)
    <3>1. queue' \in [Tasks -> Nat] /\ \A l \in Tasks : queue'[l] >= queue[l]
      <4>1. CASE queue' = queue
        BY <4>1 DEF TypesInv, WavesTyped
      <4>2. CASE Successor(w) /\ queue' # queue
        <5>1. PICK n : n = <<TripOf(w), GenOf(w), WaveOf(w)[3] + 1>>
          OBVIOUS
        <5>2. LiveWave(n) /\ Enqueue(n)
          BY <4>2, <5>1 DEF Successor
        <5>3. n \in Tasks
          BY <2>1, <5>1, <5>2, SuccessorTask
        <5> QED BY <5>2, <5>3, EnqueueTyped
      <4> QED BY <2>3, <4>1, <4>2 DEF Gate, Record, Send
    <3>2. PICK r \in WaveType : worker' = [worker EXCEPT ![w] = r] /\ r.task = worker[w].task /\ r.pc # "idle"
      BY <2>1, <2>3, WaveShape
    <3> QED BY <2>1, <3>1, <3>2, WaveGoesOn
  <2> QED BY <1>3, <2>2, <2>3 DEF WaveStep
<1>4. ASSUME NEW w \in Workers, WorkerLost(w) PROVE WavesTyped'
  <2>1. ~At(w, "idle")
    BY <1>4 DEF WorkerLost, TypesInv, WavesTyped
  <2> QED BY <1>4, <2>1, WaveDropped DEF WorkerLost
<1>5. ASSUME NEW w \in Workers, NEW k \in Tasks, TakeTask(w, k) PROVE WavesTyped'
  BY <1>5, WaveTaken
<1>6. ASSUME NEW p \in Procs,
             JobStep(p) \/ \E t \in Trips : Close(p, t) \/ \E d \in Drivers : Accept(p, t, d)
      PROVE  WavesTyped'
  BY <1>1, <1>6 DEF JobStep, PopRead, PopDelete, TellLosers, Close, Accept, CloseThen
<1>7. ASSUME NEW t \in Trips, BookTrip(t) \/ InitialSearch(t) \/ _handle_retry(t) PROVE WavesTyped'
  BY <1>1, <1>2, <1>7 DEF BookTrip, InitialSearch, _handle_retry
<1>8. CASE UNCHANGED allVars
  BY <1>1, <1>8 DEF allVars
<1> QED BY <1>3, <1>4, <1>5, <1>6, <1>7, <1>8 DEF DispatchNext

\* The trips, offers and cards.
LEMMA OffersStep ==
  ASSUME TypesInv, [DispatchNext]_allVars
  PROVE  TripsTyped' /\ OffersTyped'
<1>0. TripsTyped /\ OffersTyped
  BY DEF TypesInv
<1>1. ASSUME UNCHANGED <<gens, genOffers, offered, cards, sends, losses>> PROVE OffersTyped'
  BY <1>0, <1>1 DEF OffersTyped
<1>2. ASSUME NEW t \in Trips, BookTrip(t) \/ InitialSearch(t) \/ _handle_retry(t)
      PROVE  TripsTyped' /\ OffersTyped'
  <2>1. CASE BookTrip(t)
    BY <1>0, <1>1, <2>1 DEF BookTrip, Book, redis, TripsTyped, TripStatus
  <2>2. CASE start_dispatch(t)
    <3>1. gens[t] + 1 \in 0 .. MaxGens
      BY <1>0, <2>2, WavesNat DEF start_dispatch, OffersTyped
    <3> QED BY <1>0, <2>2, <3>1 DEF start_dispatch, redis, vars, TripsTyped, OffersTyped
  <2> QED BY <1>2, <2>1, <2>2 DEF InitialSearch, _handle_retry
<1>3. ASSUME NEW w \in Workers,
             WaveStep(w) \/ WorkerLost(w) \/ \E k \in Tasks : TakeTask(w, k)
      PROVE  TripsTyped' /\ OffersTyped'
  <2>1. TripsTyped'
    BY <1>0, <1>3 DEF TripsTyped, vars, WaveStep, Gate, Record, Send, Successor, Done, WorkerLost, TakeTask
  <2>2. CASE Record(w)
    <3>1. TripOf(w) \in Trips /\ GenOf(w) \in Gens /\ worker[w].ids \subseteq Drivers
      BY <2>2, WaveFacts DEF Record, At
    <3>2. genOffers' \in [Trips -> [Gens -> SUBSET Drivers]]
      BY <1>0, <2>2, <3>1 DEF Record, OffersTyped
    <3>3. offered' \in [Trips -> SUBSET Drivers]
      BY <1>0, <2>2, <3>1 DEF Record, OffersTyped
    <3> QED BY <1>0, <2>1, <2>2, <3>2, <3>3 DEF Record, OffersTyped
  <2>3. CASE Send(w)
    <3>1. TripOf(w) \in Trips /\ worker[w].ids \subseteq Drivers
      BY <2>3, WaveFacts DEF Send, At
    <3>2. cards' \subseteq Drivers \X Trips
      BY <1>0, <2>3, <3>1 DEF Send, OffersTyped
    <3>3. sends' \in [Trips \X Gens \X Drivers -> Nat]
      BY <1>0, <2>3 DEF Send, OffersTyped
    <3> QED BY <1>0, <2>1, <2>3, <3>2, <3>3 DEF Send, OffersTyped, redis
  <2>4. CASE WorkerLost(w)
    BY <1>0, <2>1, <2>4 DEF WorkerLost, OffersTyped, redis
  <2>5. CASE Gate(w) \/ Successor(w) \/ Done(w) \/ \E k \in Tasks : TakeTask(w, k)
    BY <1>1, <2>1, <2>5 DEF Gate, Successor, Done, TakeTask, redis
  <2> QED BY <1>3, <2>1, <2>2, <2>3, <2>4, <2>5 DEF WaveStep
<1>4. ASSUME NEW p \in Procs, JobStep(p) PROVE TripsTyped' /\ OffersTyped'
  <2>1. TripsTyped'
    BY <1>0, <1>4 DEF TripsTyped, vars, JobStep, PopRead, PopDelete, TellLosers
  <2>2. OffersTyped'
    BY <1>0, <1>4 DEF OffersTyped, redis, JobStep, PopRead, PopDelete, TellLosers
  <2> QED BY <2>1, <2>2
<1>5. ASSUME NEW p \in Procs, NEW t \in Trips,
             Close(p, t) \/ \E d \in Drivers : Accept(p, t, d)
      PROVE  TripsTyped' /\ OffersTyped'
  <2>1. TripsTyped'
    BY <1>0, <1>5 DEF TripsTyped, Close, Accept, Move, Assign, TripStatus, DRIVER_ACTIVE_TRIP_STATUSES
  <2>2. OffersTyped'
    BY <1>0, <1>5 DEF OffersTyped, redis, Close, Accept, CloseThen
  <2> QED BY <2>1, <2>2
<1>6. CASE UNCHANGED allVars
  BY <1>0, <1>1, <1>6 DEF allVars, TripsTyped
<1> QED BY <1>2, <1>3, <1>4, <1>5, <1>6 DEF DispatchNext

\* The record of a process that dismisses cards, step by step.
LEMMA JobShape ==
  ASSUME TypesInv, NEW p \in Procs,
         JobStep(p) \/ \E t \in Trips : Close(p, t) \/ \E d \in Drivers : Accept(p, t, d)
  PROVE  \E r \in JobType :
           /\ job' = [job EXCEPT ![p] = r]
           /\ \/ /\ PopRead(p) /\ r.pc = "delete" /\ r.trip = job[p].trip /\ r.driver = job[p].driver
                 /\ r.losers = offered[job[p].trip] \ {job[p].driver}
              \/ /\ PopDelete(p) /\ r.pc = "tell" /\ r.trip = job[p].trip /\ r.driver = job[p].driver
                 /\ r.losers = job[p].losers
              \/ TellLosers(p) /\ r = NoJob /\ r.pc = "idle"
              \/ \E t \in Trips :
                   /\ r.pc = "read" /\ r.trip = t /\ job[p] = NoJob
                   /\ \/ Close(p, t) /\ r.driver = None
                      \/ \E d \in Drivers : Accept(p, t, d) /\ r.driver = d
<1>1. job \in [Procs -> JobType] /\ job[p] \in JobType /\ offered \in [Trips -> SUBSET Drivers]
      /\ (job[p].pc # "idle" => job[p].trip \in Trips)
  BY DEF TypesInv, JobsTyped, OffersTyped
<1>2. NoJob \in JobType /\ NoJob.pc = "idle"
  BY DEF NoJob, JobType
<1>3. CASE PopRead(p)
  <2>1. PICK s : s = offered[job[p].trip] \ {job[p].driver}
    OBVIOUS
  <2>2. s \in SUBSET Drivers
    BY <1>1, <1>3, <2>1 DEF PopRead
  <2>3. PICK r : r = [job[p] EXCEPT !.pc = "delete", !.losers = s]
    OBVIOUS
  <2>4. r \in JobType /\ r.pc = "delete" /\ r.trip = job[p].trip /\ r.driver = job[p].driver /\ r.losers = s
    BY <1>1, <2>2, <2>3 DEF JobType
  <2>5. job' = [job EXCEPT ![p] = r]
    BY <1>1, <1>3, <2>1, <2>3 DEF PopRead
  <2> QED BY <1>3, <2>1, <2>4, <2>5
<1>4. CASE PopDelete(p)
  <2>1. PICK r : r = [job[p] EXCEPT !.pc = "tell"]
    OBVIOUS
  <2>2. r \in JobType /\ r.pc = "tell" /\ r.trip = job[p].trip /\ r.driver = job[p].driver
        /\ r.losers = job[p].losers
    BY <1>1, <2>1 DEF JobType
  <2>3. job' = [job EXCEPT ![p] = r]
    BY <1>1, <1>4, <2>1 DEF PopDelete
  <2> QED BY <1>4, <2>2, <2>3
<1>5. CASE TellLosers(p)
  BY <1>2, <1>5 DEF TellLosers
<1>6. ASSUME NEW t \in Trips, NEW d \in Drivers \cup {None}, CloseThen(p, t, d)
      PROVE  \E r \in JobType : /\ job' = [job EXCEPT ![p] = r] /\ r.pc = "read" /\ r.trip = t
                                /\ r.driver = d /\ job[p] = NoJob
  <2>1. PICK r : r = [NoJob EXCEPT !.pc = "read", !.trip = t, !.driver = d]
    OBVIOUS
  <2>2. r \in JobType /\ r.pc = "read" /\ r.trip = t /\ r.driver = d
    BY <1>2, <2>1 DEF JobType
  <2>3. job' = [job EXCEPT ![p] = r] /\ job[p] = NoJob
    BY <1>6, <2>1 DEF CloseThen
  <2> QED BY <2>2, <2>3
<1>7. ASSUME NEW t \in Trips, Close(p, t) PROVE
        \E r \in JobType : /\ job' = [job EXCEPT ![p] = r] /\ r.pc = "read" /\ r.trip = t
                           /\ r.driver = None /\ job[p] = NoJob
  BY <1>6, <1>7 DEF Close
<1>8. ASSUME NEW t \in Trips, NEW d \in Drivers, Accept(p, t, d) PROVE
        \E r \in JobType : /\ job' = [job EXCEPT ![p] = r] /\ r.pc = "read" /\ r.trip = t
                           /\ r.driver = d /\ job[p] = NoJob
  BY <1>6, <1>8 DEF Accept
<1>9. CASE \E t \in Trips : Close(p, t)
  <2>1. PICK t \in Trips : Close(p, t)
    BY <1>9
  <2> QED BY <1>7, <2>1
<1>10. CASE \E t \in Trips : \E d \in Drivers : Accept(p, t, d)
  <2>1. PICK t \in Trips : \E d \in Drivers : Accept(p, t, d)
    BY <1>10
  <2>2. PICK d \in Drivers : Accept(p, t, d)
    BY <2>1
  <2> QED BY <1>8, <2>1, <2>2
<1> QED BY <1>3, <1>4, <1>5, <1>9, <1>10 DEF JobStep

\* Every step keeps the types.
LEMMA TypesStep ==
  ASSUME TypesInv, [DispatchNext]_allVars
  PROVE  TypesInv'
<1>1. JobsTyped'
  <2>0. JobsTyped
    BY DEF TypesInv
  <2>1. CASE job' = job
    BY <2>0, <2>1 DEF JobsTyped
  <2>2. ASSUME NEW p \in Procs,
               JobStep(p) \/ \E t \in Trips : Close(p, t) \/ \E d \in Drivers : Accept(p, t, d)
        PROVE  JobsTyped'
    <3>1. PopRead(p) \/ PopDelete(p) => job[p].pc # "idle"
      BY DEF PopRead, PopDelete
    <3>2. PICK r \in JobType :
           /\ job' = [job EXCEPT ![p] = r]
           /\ \/ PopRead(p) /\ r.trip = job[p].trip
              \/ PopDelete(p) /\ r.trip = job[p].trip
              \/ r.pc = "idle"
              \/ r.trip \in Trips
      BY <2>2, JobShape
    <3>3. r.pc = "idle" \/ r.trip \in Trips
      BY <2>0, <3>1, <3>2 DEF JobsTyped
    <3> QED BY <2>0, <3>2, <3>3 DEF JobsTyped
  <2> QED
    BY <2>1, <2>2
       DEF DispatchNext, BookTrip, InitialSearch, _handle_retry, start_dispatch, WaveStep, Gate,
           Record, Send, Successor, Done, WorkerLost, TakeTask, allVars
<1> QED BY <1>1, WavesStep, OffersStep DEF TypesInv

-----------------------------------------------------------------------------
(* The chain of waves, while no worker is lost.                             *)

\* Of one search at most one wave is running before its acknowledgement.
LEMMA OneRunning ==
  ASSUME TypesInv, ChainInv, NEW v \in Workers, NEW w \in Workers,
         ~At(v, "idle"), ~At(v, "ack"), ~At(w, "idle"), ~At(w, "ack"),
         TripOf(v) = TripOf(w), GenOf(v) = GenOf(w)
  PROVE  v = w
<1>1. WaveOf(v) \in Tasks /\ WaveOf(w) \in Tasks /\ queue[WaveOf(v)] > 0 /\ queue[WaveOf(w)] > 0
  BY WaveFacts
<1>2. SameSearch(WaveOf(v), WaveOf(w)) /\ SameSearch(WaveOf(w), WaveOf(v))
  BY DEF SameSearch, TripOf, GenOf
<1>3. WaveOf(v)[3] \in Nat /\ WaveOf(w)[3] \in Nat
  BY <1>1, TaskParts
<1>4. ASSUME NEW x \in Workers, ~At(x, "idle"), ~At(x, "ack"), NEW u \in Workers, At(u, "ack"),
             WaveOf(u) = WaveOf(x)
      PROVE  FALSE
  <2>1. ~At(u, "idle")
    BY <1>4 DEF At
  <2> QED BY <1>4, <2>1 DEF ChainInv, OneHolder
<1>5. ~(WaveOf(v)[3] < WaveOf(w)[3]) /\ ~(WaveOf(w)[3] < WaveOf(v)[3])
  BY <1>1, <1>2, <1>4 DEF ChainInv, EarlierSpent
<1>6. WaveOf(v)[3] = WaveOf(w)[3]
  BY <1>3, <1>5
<1>7. WaveOf(v) = WaveOf(w)
  BY <1>1, <1>2, <1>6, TaskParts DEF SameSearch
<1> QED BY <1>7 DEF ChainInv, OneHolder

\* A worker other than an acknowledging one changes its record, and nothing is queued.
LEMMA ChainKept ==
  ASSUME TypesInv, ChainInv, NEW w \in Workers, ~At(w, "ack"), NEW r \in WaveType,
         worker' = [worker EXCEPT ![w] = r], queue' = queue, gens' = gens,
         \A v \in Workers \ {w} : ~At(v, "idle") => WaveOf(v) # r.task
  PROVE  ChainInv'
<1>1. worker'[w] = r /\ \A v \in Workers \ {w} : worker'[v] = worker[v]
  BY DEF TypesInv, WavesTyped
<1>2. OneHolder'
  BY <1>1 DEF ChainInv, OneHolder, At, WaveOf
<1>3. \A u \in Workers : At(u, "ack") => worker'[u].pc = "ack" /\ worker'[u].task = WaveOf(u)
  BY <1>1 DEF At, WaveOf
<1>4. EarlierSpent'
  BY <1>3 DEF ChainInv, EarlierSpent, At, WaveOf
<1> QED BY <1>2, <1>4 DEF ChainInv, OneCopy, Begun

\* A worker acknowledges: its task is gone for good.
LEMMA ChainAck ==
  ASSUME TypesInv, ChainInv, NEW w \in Workers, ~At(w, "idle"), Ack(w), gens' = gens
  PROVE  ChainInv'
<1>1. worker'[w] = NoWave /\ \A v \in Workers \ {w} : worker'[v] = worker[v]
  BY DEF TypesInv, WavesTyped, Ack
<1>2. WaveOf(w) \in Tasks /\ queue \in [Tasks -> Nat]
  BY WaveFacts DEF TypesInv, WavesTyped
<1>3. queue[WaveOf(w)] <= 1 /\ queue[WaveOf(w)] \in Nat
  BY <1>2 DEF ChainInv, OneCopy
<1>4. /\ \A k \in Tasks \ {WaveOf(w)} : queue'[k] = queue[k]
      /\ ~(queue'[WaveOf(w)] > 0) /\ queue'[WaveOf(w)] <= 1
  BY <1>2, <1>3 DEF Ack
<1>5. OneCopy' /\ Begun'
  BY <1>4 DEF ChainInv, OneCopy, Begun
<1>6. OneHolder'
  BY <1>1, NoWaveOK DEF ChainInv, OneHolder, At, WaveOf
<1>7. EarlierSpent'
  <2>1. SUFFICES ASSUME NEW k \in Tasks, NEW l \in Tasks,
                        SameSearch(k, l), k[3] < l[3], queue'[k] > 0, queue'[l] > 0
                 PROVE  \E u \in Workers : worker'[u].pc = "ack" /\ worker'[u].task = k
    BY DEF EarlierSpent, At, WaveOf, SameSearch
  <2>2. k # WaveOf(w) /\ queue[k] > 0 /\ queue[l] > 0
    BY <1>4, <2>1
  <2>3. PICK u \in Workers : At(u, "ack") /\ WaveOf(u) = k
    BY <2>1, <2>2 DEF ChainInv, EarlierSpent
  <2>4. u # w
    BY <2>2, <2>3
  <2> QED BY <1>1, <2>3, <2>4 DEF At, WaveOf
<1> QED BY <1>5, <1>6, <1>7 DEF ChainInv

\* A search begins with its first wave, in a generation no task is of yet.
LEMMA ChainBegins ==
  ASSUME TypesInv, ChainInv, NEW t \in Trips, start_dispatch(t)
  PROVE  ChainInv'
<1>1. gens \in [Trips -> 0 .. MaxGens] /\ gens[t] \in Nat /\ gens[t] < MaxGens
      /\ gens' = [gens EXCEPT ![t] = @ + 1] /\ worker' = worker
  BY WavesNat DEF start_dispatch, TypesInv, OffersTyped
<1>2. PICK n : n = <<t, gens[t] + 1, 0>>
  OBVIOUS
<1>3. n \in Tasks /\ n[1] = t /\ n[2] = gens[t] + 1
  BY <1>1, <1>2, WavesNat DEF Tasks, Gens
<1>4. queue \in [Tasks -> Nat] /\ (queue' = queue \/ queue' = [queue EXCEPT ![n] = @ + 1])
  BY <1>2 DEF TypesInv, WavesTyped, start_dispatch, Enqueue
<1>5. \A k \in Tasks : SameSearch(k, n) => ~(queue[k] > 0)
  BY <1>1, <1>3 DEF ChainInv, Begun, SameSearch
<1>6. queue[n] = 0
  BY <1>3, <1>4, <1>5 DEF SameSearch
<1>7. \A k \in Tasks : queue'[k] > 0 => queue[k] > 0 \/ k = n
  BY <1>3, <1>4
<1>8. OneCopy'
  BY <1>3, <1>4, <1>6 DEF ChainInv, OneCopy
<1>9. OneHolder'
  BY <1>1 DEF ChainInv, OneHolder, At, WaveOf
<1>10. Begun'
  <2>1. ASSUME NEW k \in Tasks, queue'[k] > 0 PROVE k[2] <= gens'[k[1]]
    <3>1. k[1] \in Trips /\ k[2] \in Nat /\ gens[k[1]] \in Nat
      BY <1>1, TaskParts, WavesNat DEF Gens
    <3>2. gens'[k[1]] >= gens[k[1]] /\ gens'[t] = gens[t] + 1 /\ gens'[k[1]] \in Nat
      BY <1>1, <3>1
    <3>3. CASE k = n
      BY <1>1, <1>3, <3>2, <3>3
    <3>4. CASE queue[k] > 0
      <4>1. k[2] <= gens[k[1]]
        BY <3>4 DEF ChainInv, Begun
      <4> QED BY <3>1, <3>2, <4>1
    <3> QED BY <1>7, <2>1, <3>3, <3>4
  <2> QED BY <2>1 DEF Begun
<1>11. EarlierSpent'
  <2>1. SUFFICES ASSUME NEW k \in Tasks, NEW l \in Tasks,
                        SameSearch(k, l), k[3] < l[3], queue'[k] > 0, queue'[l] > 0
                 PROVE  \E u \in Workers : worker'[u].pc = "ack" /\ worker'[u].task = k
    BY DEF EarlierSpent, At, WaveOf, SameSearch
  <2>2. ~SameSearch(k, n)
    <3>1. ASSUME SameSearch(k, n) PROVE FALSE
      <4>1. SameSearch(l, n)
        BY <2>1, <3>1 DEF SameSearch
      <4>2. k = n /\ l = n
        BY <1>5, <1>7, <2>1, <3>1, <4>1
      <4> QED BY <2>1, <4>2, <1>3, TaskParts
    <3> QED BY <3>1
  <2>3. k # n /\ l # n
    BY <2>1, <2>2 DEF SameSearch
  <2>4. queue[k] > 0 /\ queue[l] > 0
    BY <1>7, <2>1, <2>3
  <2> QED BY <1>1, <2>1, <2>4 DEF ChainInv, EarlierSpent, At, WaveOf
<1> QED BY <1>8, <1>9, <1>10, <1>11 DEF ChainInv

\* A wave queues its successor and is then only to be acknowledged.
LEMMA ChainGoesOn ==
  ASSUME TypesInv, ChainInv, NEW w \in Workers, Successor(w)
  PROVE  ChainInv'
<1>1. ~At(w, "idle") /\ ~At(w, "ack") /\ gens' = gens
  BY DEF Successor, At
<1>2. PICK r \in WaveType : worker' = [worker EXCEPT ![w] = r] /\ r.task = worker[w].task /\ r.pc = "ack"
  <2>1. PICK r : r = [worker[w] EXCEPT !.pc = "ack"]
    OBVIOUS
  <2>2. worker[w] \in WaveType
    BY DEF TypesInv, WavesTyped
  <2>3. r \in WaveType /\ r.pc = "ack" /\ r.task = worker[w].task
    BY <2>1, <2>2 DEF WaveType
  <2>4. worker' = [worker EXCEPT ![w] = r]
    BY <2>1, <2>2 DEF Successor, TypesInv, WavesTyped
  <2> QED BY <2>3, <2>4
<1>3. worker'[w] = r /\ \A v \in Workers \ {w} : worker'[v] = worker[v]
  BY <1>2 DEF TypesInv, WavesTyped
<1>4. OneHolder'
  BY <1>1, <1>2, <1>3 DEF ChainInv, OneHolder, At, WaveOf
<1>5. \A u \in Workers : At(u, "ack") => u # w /\ worker'[u] = worker[u]
  BY <1>1, <1>3
<1>6. CASE queue' = queue
  <2>1. EarlierSpent'
    BY <1>5, <1>6 DEF ChainInv, EarlierSpent, At, WaveOf
  <2> QED BY <1>1, <1>4, <1>6, <2>1 DEF ChainInv, OneCopy, Begun
<1>7. CASE queue' # queue
  <2>1. PICK n : n = <<TripOf(w), GenOf(w), WaveOf(w)[3] + 1>>
    OBVIOUS
  <2>2. LiveWave(n) /\ queue' = [queue EXCEPT ![n] = @ + 1] /\ queue \in [Tasks -> Nat]
    BY <1>7, <2>1 DEF Successor, Enqueue, TypesInv, WavesTyped
  <2>3. n \in Tasks /\ SameSearch(WaveOf(w), n) /\ n[3] = WaveOf(w)[3] + 1 /\ WaveOf(w)[3] \in Nat
    BY <1>1, <2>1, <2>2, SuccessorTask
  <2>4. WaveOf(w) \in Tasks /\ queue[WaveOf(w)] > 0
    BY <1>1, WaveFacts
  <2>5. ASSUME NEW u \in Workers, At(u, "ack"), WaveOf(u) = WaveOf(w) PROVE FALSE
    <3>1. ~At(u, "idle") /\ u # w
      BY <1>1, <2>5 DEF At
    <3> QED BY <1>1, <2>5, <3>1 DEF ChainInv, OneHolder
  <2>6. ASSUME NEW l \in Tasks, SameSearch(WaveOf(w), l), WaveOf(w)[3] < l[3] PROVE ~(queue[l] > 0)
    BY <2>4, <2>5, <2>6 DEF ChainInv, EarlierSpent
  <2>7. queue[n] = 0
    BY <2>2, <2>3, <2>6
  <2>8. /\ \A k \in Tasks : queue'[k] > 0 => queue[k] > 0 \/ k = n
    BY <2>2, <2>3
  <2>9. OneCopy'
    BY <2>2, <2>3, <2>7 DEF ChainInv, OneCopy
  <2>10. Begun'
    <3>1. n[2] <= gens[n[1]]
      BY <2>3, <2>4 DEF ChainInv, Begun, SameSearch
    <3> QED BY <1>1, <2>8, <3>1 DEF ChainInv, Begun
  <2>11. EarlierSpent'
    <3>1. SUFFICES ASSUME NEW k \in Tasks, NEW l \in Tasks,
                          SameSearch(k, l), k[3] < l[3], queue'[k] > 0, queue'[l] > 0
                   PROVE  \E u \in Workers : worker'[u].pc = "ack" /\ worker'[u].task = k
      BY DEF EarlierSpent, At, WaveOf, SameSearch
    <3>2. k[3] \in Nat /\ l[3] \in Nat
      BY TaskParts
    <3>3. CASE k = WaveOf(w)
      BY <1>2, <1>3, <3>3 DEF WaveOf
    <3>4. CASE k # WaveOf(w) /\ queue[k] > 0 /\ queue[l] > 0
      <4>1. PICK u \in Workers : At(u, "ack") /\ WaveOf(u) = k
        BY <3>1, <3>4 DEF ChainInv, EarlierSpent
      <4> QED BY <1>5, <4>1 DEF At, WaveOf
    <3>5. CASE k # WaveOf(w) /\ l = n /\ k # n
      <4>1. SameSearch(k, WaveOf(w)) /\ queue[k] > 0
        BY <2>3, <2>8, <3>1, <3>5 DEF SameSearch
      <4>2. k[3] # WaveOf(w)[3]
        BY <2>4, <3>5, <4>1, TaskParts DEF SameSearch
      <4>3. k[3] < WaveOf(w)[3]
        BY <2>3, <3>1, <3>2, <3>5, <4>2
      <4>4. PICK u \in Workers : At(u, "ack") /\ WaveOf(u) = k
        BY <2>4, <4>1, <4>3 DEF ChainInv, EarlierSpent
      <4> QED BY <1>5, <4>4 DEF At, WaveOf
    <3>6. CASE k = n
      <4>1. l # n /\ queue[l] > 0
        BY <2>8, <3>1, <3>2, <3>6
      <4>2. SameSearch(WaveOf(w), l) /\ WaveOf(w)[3] < l[3]
        BY <2>3, <3>1, <3>2, <3>6 DEF SameSearch
      <4> QED BY <2>6, <4>1, <4>2
    <3> QED BY <2>8, <3>1, <3>3, <3>4, <3>5, <3>6
  <2> QED BY <1>4, <2>9, <2>10, <2>11 DEF ChainInv
<1> QED BY <1>6, <1>7

-----------------------------------------------------------------------------
(* Who was asked, while no worker is lost.                                  *)

\* A worker changes its record, and is neither about to record nor to send unless the
\* candidates are new to the search.
LEMMA AskedKept ==
  ASSUME TypesInv, AskedInv, NEW w \in Workers, NEW r \in WaveType,
         worker' = [worker EXCEPT ![w] = r], sends' = sends, genOffers' = genOffers,
         r.pc # "send",
         r.pc = "record" => r.ids \cap genOffers[r.task[1]][r.task[2]] = {}
  PROVE  AskedInv'
<1>1. worker'[w] = r /\ \A v \in Workers \ {w} : worker'[v] = worker[v]
  BY DEF TypesInv, WavesTyped
<1>2. ASSUME NEW v \in Workers
      PROVE  /\ worker'[v].pc = "record" =>
                  worker'[v].ids \cap genOffers[worker'[v].task[1]][worker'[v].task[2]] = {}
             /\ worker'[v].pc = "send" => \A d \in worker'[v].ids :
                  /\ d \in genOffers[worker'[v].task[1]][worker'[v].task[2]]
                  /\ sends[<<worker'[v].task[1], worker'[v].task[2], d>>] = 0
  <2>1. CASE v = w
    BY <1>1, <2>1
  <2>2. CASE v # w
    BY <1>1, <2>2 DEF AskedInv, At, TripOf, GenOf, WaveOf
  <2> QED BY <2>1, <2>2
<1> QED BY <1>2 DEF AskedInv, At, TripOf, GenOf, WaveOf

\* The candidates of a wave are written down: none of them was asked by its search.
LEMMA AskedRecord ==
  ASSUME TypesInv, ChainInv, AskedInv, NEW w \in Workers, Record(w)
  PROVE  AskedInv'
<1>1. ~At(w, "idle") /\ ~At(w, "ack") /\ At(w, "record") /\ sends' = sends
  BY DEF Record, At
<1>2. PICK t \in Trips : t = TripOf(w)
  BY <1>1, WaveFacts
<1>3. PICK g \in Gens : g = GenOf(w)
  BY <1>1, WaveFacts
<1>4. PICK i : i = worker[w].ids
  OBVIOUS
<1>5. i \subseteq Drivers /\ genOffers \in [Trips -> [Gens -> SUBSET Drivers]]
      /\ genOffers' = [genOffers EXCEPT ![t][g] = @ \cup i]
  BY <1>1, <1>2, <1>3, <1>4, WaveFacts DEF Record, TypesInv, OffersTyped
<1>6. PICK r \in WaveType : /\ worker' = [worker EXCEPT ![w] = r] /\ r.task = worker[w].task
                            /\ r.pc = "send" /\ r.ids = i
  <2>1. PICK r : r = [worker[w] EXCEPT !.pc = "send"]
    OBVIOUS
  <2>2. worker[w] \in WaveType
    BY DEF TypesInv, WavesTyped
  <2>3. r \in WaveType /\ r.pc = "send" /\ r.task = worker[w].task /\ r.ids = i
    BY <1>4, <2>1, <2>2 DEF WaveType
  <2>4. worker' = [worker EXCEPT ![w] = r]
    BY <2>1, <2>2 DEF Record, TypesInv, WavesTyped
  <2> QED BY <2>3, <2>4
<1>7. worker'[w] = r /\ \A v \in Workers \ {w} : worker'[v] = worker[v]
  BY <1>6 DEF TypesInv, WavesTyped
<1>8. /\ genOffers'[t][g] = genOffers[t][g] \cup i
      /\ \A s \in Trips, h \in Gens : genOffers[s][h] \subseteq genOffers'[s][h]
      /\ \A s \in Trips, h \in Gens : s # t \/ h # g => genOffers'[s][h] = genOffers[s][h]
  BY <1>5
<1>9. i \cap genOffers[t][g] = {}
  BY <1>1, <1>2, <1>3, <1>4 DEF AskedInv
<1>10. \A d \in i : sends[<<t, g, d>>] = 0
  <2>1. ASSUME NEW d \in i PROVE sends[<<t, g, d>>] = 0
    <3>1. d \in Drivers /\ d \notin genOffers[t][g]
      BY <1>5, <1>9, <2>1
    <3>2. sends[<<t, g, d>>] \in Nat
      BY <3>1 DEF TypesInv, OffersTyped
    <3>3. ~(sends[<<t, g, d>>] > 0)
      BY <3>1 DEF AskedInv
    <3> QED BY <3>2, <3>3
  <2> QED BY <2>1
<1>11. ASSUME NEW v \in Workers
      PROVE  /\ worker'[v].pc = "record" =>
                  worker'[v].ids \cap genOffers'[worker'[v].task[1]][worker'[v].task[2]] = {}
             /\ worker'[v].pc = "send" => \A d \in worker'[v].ids :
                  /\ d \in genOffers'[worker'[v].task[1]][worker'[v].task[2]]
                  /\ sends'[<<worker'[v].task[1], worker'[v].task[2], d>>] = 0
  <2>1. CASE v = w
    <3>1. worker'[v] = r /\ r.task[1] = t /\ r.task[2] = g
      BY <1>2, <1>3, <1>6, <1>7, <2>1 DEF TripOf, GenOf, WaveOf
    <3> QED BY <1>1, <1>6, <1>8, <1>10, <3>1
  <2>2. CASE v # w /\ (At(v, "record") \/ At(v, "send"))
    <3>1. ~At(v, "idle") /\ ~At(v, "ack")
      BY <2>2 DEF At
    <3>2. TripOf(v) \in Trips /\ GenOf(v) \in Gens
      BY <3>1, WaveFacts
    <3>3. ~(TripOf(v) = t /\ GenOf(v) = g)
      BY <1>1, <1>2, <1>3, <2>2, <3>1, OneRunning
    <3>4. genOffers'[TripOf(v)][GenOf(v)] = genOffers[TripOf(v)][GenOf(v)]
      BY <1>8, <3>2, <3>3
    <3>5. worker'[v] = worker[v]
      BY <1>7, <2>2
    <3> QED BY <1>1, <3>4, <3>5 DEF AskedInv, At, TripOf, GenOf, WaveOf
  <2>3. CASE v # w /\ ~At(v, "record") /\ ~At(v, "send")
    BY <1>7, <2>3 DEF At
  <2> QED BY <2>1, <2>2, <2>3
<1>12. \A s \in Trips, h \in Gens, d \in Drivers :
        sends'[<<s, h, d>>] <= 1 /\ (sends'[<<s, h, d>>] > 0 => d \in genOffers'[s][h])
  BY <1>1, <1>8 DEF AskedInv
<1> QED BY <1>11, <1>12 DEF AskedInv, At, TripOf, GenOf, WaveOf

\* The cards go out: each candidate of the wave is asked for the first time.
LEMMA AskedSend ==
  ASSUME TypesInv, ChainInv, AskedInv, NEW w \in Workers, Send(w)
  PROVE  AskedInv'
<1>1. ~At(w, "idle") /\ ~At(w, "ack") /\ At(w, "send") /\ genOffers' = genOffers
  BY DEF Send, At, redis
<1>2. PICK t \in Trips : t = TripOf(w)
  BY <1>1, WaveFacts
<1>3. PICK g \in Gens : g = GenOf(w)
  BY <1>1, WaveFacts
<1>4. PICK i : i = worker[w].ids
  OBVIOUS
<1>5. /\ sends \in [Trips \X Gens \X Drivers -> Nat]
      /\ sends' = [k \in DOMAIN sends |->
                     IF k \in {<<t, g, d>> : d \in i} THEN sends[k] + 1 ELSE sends[k]]
  BY <1>2, <1>3, <1>4 DEF Send, TypesInv, OffersTyped
<1>6. \A d \in i : d \in genOffers[t][g] /\ sends[<<t, g, d>>] = 0
  BY <1>1, <1>2, <1>3, <1>4 DEF AskedInv
<1>7. PICK r \in WaveType : worker' = [worker EXCEPT ![w] = r] /\ r.pc = "successor"
  <2>1. PICK r : r = [worker[w] EXCEPT !.pc = "successor"]
    OBVIOUS
  <2>2. worker[w] \in WaveType
    BY DEF TypesInv, WavesTyped
  <2>3. r \in WaveType /\ r.pc = "successor"
    BY <2>1, <2>2 DEF WaveType
  <2>4. worker' = [worker EXCEPT ![w] = r]
    BY <2>1, <2>2 DEF Send, TypesInv, WavesTyped
  <2> QED BY <2>3, <2>4
<1>8. worker'[w] = r /\ \A v \in Workers \ {w} : worker'[v] = worker[v]
  BY <1>7 DEF TypesInv, WavesTyped
<1>9. ASSUME NEW s \in Trips, NEW h \in Gens, NEW d \in Drivers
      PROVE  /\ s = t /\ h = g /\ d \in i => sends'[<<s, h, d>>] = sends[<<s, h, d>>] + 1
             /\ ~(s = t /\ h = g /\ d \in i) => sends'[<<s, h, d>>] = sends[<<s, h, d>>]
  <2>1. <<s, h, d>> \in DOMAIN sends
    BY <1>5
  <2>2. <<s, h, d>> \in {<<t, g, e>> : e \in i} <=> s = t /\ h = g /\ d \in i
    OBVIOUS
  <2> QED BY <1>5, <2>1, <2>2
<1>10. ASSUME NEW s \in Trips, NEW h \in Gens, NEW d \in Drivers
       PROVE  sends'[<<s, h, d>>] <= 1 /\ (sends'[<<s, h, d>>] > 0 => d \in genOffers'[s][h])
  <2>1. CASE s = t /\ h = g /\ d \in i
    BY <1>1, <1>6, <1>9, <2>1
  <2>2. CASE ~(s = t /\ h = g /\ d \in i)
    BY <1>1, <1>9, <2>2 DEF AskedInv
  <2> QED BY <2>1, <2>2
<1>11. ASSUME NEW v \in Workers
      PROVE  /\ worker'[v].pc = "record" =>
                  worker'[v].ids \cap genOffers'[worker'[v].task[1]][worker'[v].task[2]] = {}
             /\ worker'[v].pc = "send" => \A d \in worker'[v].ids :
                  /\ d \in genOffers'[worker'[v].task[1]][worker'[v].task[2]]
                  /\ sends'[<<worker'[v].task[1], worker'[v].task[2], d>>] = 0
  <2>1. CASE v = w
    BY <1>7, <1>8, <2>1
  <2>2. CASE v # w /\ (At(v, "record") \/ At(v, "send"))
    <3>1. ~At(v, "idle") /\ ~At(v, "ack")
      BY <2>2 DEF At
    <3>2. TripOf(v) \in Trips /\ GenOf(v) \in Gens /\ worker[v].ids \subseteq Drivers
      BY <3>1, WaveFacts
    <3>3. ~(TripOf(v) = t /\ GenOf(v) = g)
      BY <1>1, <1>2, <1>3, <2>2, <3>1, OneRunning
    <3>4. \A d \in worker[v].ids : sends'[<<TripOf(v), GenOf(v), d>>] = sends[<<TripOf(v), GenOf(v), d>>]
      BY <1>9, <3>2, <3>3
    <3>5. worker'[v] = worker[v]
      BY <1>8, <2>2
    <3> QED BY <1>1, <3>4, <3>5 DEF AskedInv, At, TripOf, GenOf, WaveOf
  <2>3. CASE v # w /\ ~At(v, "record") /\ ~At(v, "send")
    BY <1>8, <2>3 DEF At
  <2> QED BY <2>1, <2>2, <2>3
<1> QED BY <1>10, <1>11 DEF AskedInv, At, TripOf, GenOf, WaveOf

\* Both parts, over every step.
LEMMA SearchStep ==
  ASSUME TypesInv, SearchInv, [DispatchNext]_allVars
  PROVE  SearchInv'
<1>1. ASSUME losses = 0, UNCHANGED <<queue, worker, gens, genOffers, sends>>
      PROVE  ChainInv' /\ AskedInv'
  <2>1. ChainInv'
    BY <1>1 DEF SearchInv, ChainInv, OneCopy, OneHolder, EarlierSpent, Begun, At, WaveOf
  <2>2. AskedInv'
    BY <1>1 DEF SearchInv, AskedInv, At, WaveOf, TripOf, GenOf
  <2> QED BY <2>1, <2>2
<1>2. ASSUME NEW t \in Trips, BookTrip(t) \/ InitialSearch(t) \/ _handle_retry(t)
      PROVE  SearchInv'
  <2>1. CASE BookTrip(t)
    BY <1>1, <2>1 DEF BookTrip, redis, SearchInv
  <2>2. CASE start_dispatch(t)
    <3>1. ASSUME losses = 0 PROVE AskedInv'
      BY <2>2, <3>1 DEF start_dispatch, redis, SearchInv, AskedInv, At, WaveOf, TripOf, GenOf
    <3> QED BY <2>2, <3>1, ChainBegins DEF SearchInv, start_dispatch
  <2> QED BY <1>2, <2>1, <2>2 DEF InitialSearch, _handle_retry
<1>3. ASSUME NEW w \in Workers, WorkerLost(w) PROVE SearchInv'
  <2>1. losses' # 0
    BY <1>3 DEF WorkerLost, TypesInv, OffersTyped
  <2> QED BY <2>1 DEF SearchInv
<1>4. ASSUME NEW w \in Workers, NEW k \in Tasks, TakeTask(w, k) PROVE SearchInv'
  <2>1. UNCHANGED <<queue, gens, genOffers, sends, losses>>
    BY <1>4 DEF TakeTask, redis
  <2>2. SUFFICES ASSUME losses = 0 PROVE ChainInv' /\ AskedInv'
    BY <2>1 DEF SearchInv
  <2>3. ChainInv /\ AskedInv
    BY <2>2 DEF SearchInv
  <2>4. PICK r : r = [pc |-> "gate", task |-> k, ids |-> {}]
    OBVIOUS
  <2>5. r \in WaveType /\ r.pc = "gate" /\ r.task = k
    BY <2>4 DEF WaveType
  <2>6. worker' = [worker EXCEPT ![w] = r] /\ At(w, "idle") /\ ~At(w, "ack")
    BY <1>4, <2>4 DEF TakeTask, At
  <2>7. Holders(k) = {}
    <3>1. queue[k] <= 1 /\ queue[k] \in Nat /\ Cardinality(Holders(k)) < queue[k]
      BY <1>4, <2>3 DEF TakeTask, ChainInv, OneCopy, TypesInv, WavesTyped
    <3>2. Cardinality(Holders(k)) = 0
      BY <3>1, HoldersFinite
    <3> QED BY <3>2, HoldersFinite, FS_EmptySet
  <2>8. \A v \in Workers \ {w} : ~At(v, "idle") => WaveOf(v) # r.task
    BY <2>5, <2>7 DEF Holders
  <2> QED BY <2>1, <2>3, <2>5, <2>6, <2>8, ChainKept, AskedKept
<1>5. ASSUME NEW w \in Workers, WaveStep(w) PROVE SearchInv'
  <2>1. ~At(w, "idle") /\ UNCHANGED <<gens, losses>>
    BY <1>5 DEF WaveStep, Gate, Record, Send, Successor, Done, At
  <2>2. SUFFICES ASSUME losses = 0 PROVE ChainInv' /\ AskedInv'
    BY <2>1 DEF SearchInv
  <2>3. ChainInv /\ AskedInv
    BY <2>2 DEF SearchInv
  <2>4. \A v \in Workers \ {w} : ~At(v, "idle") => WaveOf(v) # worker[w].task
    BY <2>1, <2>3 DEF ChainInv, OneHolder, WaveOf
  <2>5. CASE (Gate(w) /\ ~LiveWave(WaveOf(w))) \/ Done(w)
    <3>1. Ack(w) /\ UNCHANGED <<sends, genOffers>>
      BY <2>5, WaveEnds
    <3>2. ChainInv'
      BY <2>1, <2>3, <3>1, ChainAck
    <3>3. AskedInv'
      BY <2>3, <3>1, NoWaveOK, AskedKept DEF Ack
    <3> QED BY <3>2, <3>3
  <2>6. CASE Gate(w) /\ LiveWave(WaveOf(w))
    <3>1. PICK r \in WaveType :
           /\ worker' = [worker EXCEPT ![w] = r] /\ r.task = worker[w].task /\ r.pc = "record"
           /\ r.ids \cap genOffers[TripOf(w)][GenOf(w)] = {} /\ queue' = queue
      BY <2>1, <2>6, WaveShape DEF Gate, Record, Send, Successor, At
    <3>2. ~At(w, "ack") /\ UNCHANGED <<sends, genOffers>>
      BY <2>6 DEF Gate, At, redis
    <3>3. \A v \in Workers \ {w} : ~At(v, "idle") => WaveOf(v) # r.task
      BY <2>4, <3>1
    <3>4. ChainInv'
      BY <2>1, <2>3, <3>1, <3>2, <3>3, ChainKept
    <3>5. AskedInv'
      BY <2>3, <3>1, <3>2, AskedKept DEF TripOf, GenOf, WaveOf
    <3> QED BY <3>4, <3>5
  <2>7. CASE Record(w) \/ Send(w)
    <3>1. PICK r \in WaveType : worker' = [worker EXCEPT ![w] = r] /\ r.task = worker[w].task
      BY <2>1, <2>7, WaveShape
    <3>2. ~At(w, "ack") /\ queue' = queue
      BY <2>7 DEF Record, Send, At
    <3>3. \A v \in Workers \ {w} : ~At(v, "idle") => WaveOf(v) # r.task
      BY <2>4, <3>1
    <3>4. ChainInv'
      BY <2>1, <2>3, <3>1, <3>2, <3>3, ChainKept
    <3> QED BY <2>3, <2>7, <3>4, AskedRecord, AskedSend
  <2>8. CASE Successor(w)
    <3>1. PICK r : r = [worker[w] EXCEPT !.pc = "ack"]
      OBVIOUS
    <3>2. worker[w] \in WaveType
      BY DEF TypesInv, WavesTyped
    <3>3. r \in WaveType /\ r.pc = "ack"
      BY <3>1, <3>2 DEF WaveType
    <3>4. worker' = [worker EXCEPT ![w] = r] /\ UNCHANGED <<sends, genOffers>>
      BY <2>8, <3>1, <3>2 DEF Successor, TypesInv, WavesTyped, redis
    <3>5. AskedInv'
      BY <2>3, <3>3, <3>4, AskedKept
    <3> QED BY <2>3, <2>8, <3>5, ChainGoesOn
  <2> QED BY <1>5, <2>5, <2>6, <2>7, <2>8 DEF WaveStep
<1>6. ASSUME NEW p \in Procs,
             JobStep(p) \/ \E t \in Trips : Close(p, t) \/ \E d \in Drivers : Accept(p, t, d)
      PROVE  SearchInv'
  <2>1. UNCHANGED <<queue, worker, gens, genOffers, sends, losses>>
    BY <1>6 DEF JobStep, PopRead, PopDelete, TellLosers, Close, Accept, CloseThen, redis
  <2> QED BY <1>1, <2>1 DEF SearchInv
<1>7. CASE UNCHANGED allVars
  BY <1>1, <1>7 DEF allVars, SearchInv
<1> QED BY <1>2, <1>3, <1>4, <1>5, <1>6, <1>7 DEF DispatchNext

-----------------------------------------------------------------------------
(* The cards.                                                               *)

\* Neither trips, offers, cards nor dismissals change; a worker may move, but past its
\* gate only for a trip that is open.
LEMMA CardsKept ==
  ASSUME TypesInv, CardsInv, UNCHANGED <<cards, offered, job, raced>>,
         \A t \in Trips : Open(t)' <=> Open(t),
         \A w \in Workers : \/ worker'[w] = worker[w]
                            \/ worker'[w].pc \notin {"record", "send"}
                            \/ worker'[w].pc = "record" /\ Open(worker'[w].task[1])
  PROVE  CardsInv'
<1>1. OpenCards'
  BY DEF CardsInv, OpenCards
<1>2. OpenWaves'
  <2>1. SUFFICES ASSUME NEW w \in Workers, worker'[w].pc = "send",
                        status'[worker'[w].task[1]] \in {"absent", "requested"}
                 PROVE  worker'[w].ids \subseteq offered[worker'[w].task[1]]
    BY DEF OpenWaves, At, TripOf, WaveOf, Open
  <2>2. worker'[w] = worker[w]
    BY <2>1
  <2>3. At(w, "send") /\ ~At(w, "idle") /\ TripOf(w) = worker'[w].task[1]
    BY <2>1, <2>2 DEF At, TripOf, WaveOf
  <2>4. TripOf(w) \in Trips
    BY <2>3, WaveFacts
  <2>5. Open(TripOf(w))
    BY <2>1, <2>3, <2>4 DEF Open
  <2> QED BY <2>2, <2>3, <2>5 DEF CardsInv, OpenWaves
<1>3. \A p \in Procs : job[p].pc # "idle" => job[p].trip \in Trips
  BY DEF TypesInv, JobsTyped
<1>4. \A t \in Trips : Gone(t)' <=> Gone(t)
  BY DEF Gone
<1>5. DismissedClosed'
  BY <1>3 DEF CardsInv, DismissedClosed
<1>6. NoneOvertakes'
  <2>1. SUFFICES ASSUME NEW t \in Trips, Gone(t), NEW w \in Workers,
                        worker'[w].pc \in {"record", "send"}, worker'[w].task[1] = t
                 PROVE  FALSE
    BY <1>4 DEF NoneOvertakes, PastGate, TripOf, WaveOf
  <2>2. worker'[w] = worker[w]
    BY <2>1 DEF Gone
  <2> QED BY <2>1, <2>2 DEF CardsInv, NoneOvertakes, PastGate, TripOf, WaveOf
<1>7. \A q, d, t : Dismisses(q, d, t)' <=> Dismisses(q, d, t)
  BY DEF Dismisses
<1>8. AllDismissed'
  BY <1>4, <1>7 DEF CardsInv, AllDismissed
<1>9. EveryoneTold'
  BY <1>3, <1>4 DEF CardsInv, EveryoneTold
<1> QED BY <1>1, <1>2, <1>5, <1>6, <1>8, <1>9 DEF CardsInv

\* A wave writes its candidates down, for a trip that is open or overtaken.
LEMMA CardsRecord ==
  ASSUME TypesInv, CardsInv, NEW w \in Workers, Record(w)
  PROVE  CardsInv'
<1>1. At(w, "record") /\ ~At(w, "idle") /\ UNCHANGED <<status, cards, job, raced>>
  BY DEF Record, At, vars
<1>2. PICK t \in Trips : t = TripOf(w)
  BY <1>1, WaveFacts
<1>3. PICK i : i = worker[w].ids
  OBVIOUS
<1>4. offered \in [Trips -> SUBSET Drivers] /\ offered' = [offered EXCEPT ![t] = @ \cup i]
  BY <1>2, <1>3 DEF Record, TypesInv, OffersTyped
<1>5. offered'[t] = offered[t] \cup i /\ \A s \in Trips \ {t} : offered'[s] = offered[s]
  BY <1>4
<1>6. worker \in [Workers -> WaveType] /\ worker' = [worker EXCEPT ![w].pc = "send"]
  BY DEF Record, TypesInv, WavesTyped
<1>7. /\ worker'[w].pc = "send" /\ worker'[w].task = worker[w].task /\ worker'[w].ids = i
      /\ \A v \in Workers \ {w} : worker'[v] = worker[v]
  BY <1>3, <1>6 DEF WaveType
<1>8. ~Gone(t)
  BY <1>1, <1>2 DEF CardsInv, NoneOvertakes, PastGate, At
<1>9. (\A s : Open(s)' <=> Open(s)) /\ (\A s : Gone(s)' <=> Gone(s))
  BY <1>1 DEF Open, Gone
<1>10. OpenCards'
  BY <1>1, <1>5, <1>9 DEF CardsInv, OpenCards
<1>11. OpenWaves'
  <2>1. SUFFICES ASSUME NEW v \in Workers, worker'[v].pc = "send", Open(worker'[v].task[1])
                 PROVE  worker'[v].ids \subseteq offered'[worker'[v].task[1]]
    BY <1>9 DEF OpenWaves, At, TripOf, WaveOf
  <2>2. CASE v = w
    BY <1>2, <1>5, <1>7, <2>2 DEF TripOf, WaveOf
  <2>3. CASE v # w
    <3>1. At(v, "send") /\ ~At(v, "idle") /\ worker'[v] = worker[v]
      BY <1>7, <2>1, <2>3 DEF At
    <3>2. TripOf(v) \in Trips /\ TripOf(v) = worker'[v].task[1]
      BY <3>1, WaveFacts DEF TripOf, WaveOf
    <3>3. worker[v].ids \subseteq offered[TripOf(v)]
      BY <2>1, <3>1, <3>2 DEF CardsInv, OpenWaves
    <3> QED BY <1>5, <3>1, <3>2, <3>3
  <2> QED BY <2>2, <2>3
<1>12. DismissedClosed'
  BY <1>1, <1>9 DEF CardsInv, DismissedClosed
<1>13. NoneOvertakes'
  <2>1. \A v \in Workers : worker'[v].pc \in {"record", "send"} =>
          worker[v].pc \in {"record", "send"} /\ worker'[v].task = worker[v].task
    BY <1>1, <1>7 DEF At
  <2> QED BY <1>9, <2>1 DEF CardsInv, NoneOvertakes, PastGate, TripOf, WaveOf
<1>14. AllDismissed'
  <2>1. SUFFICES ASSUME NEW s \in Trips, NEW d \in Drivers, Gone(s), <<d, s>> \in cards
                 PROVE  \E q \in Procs : Dismisses(q, d, s)'
    BY <1>1, <1>9 DEF AllDismissed
  <2>2. PICK q \in Procs : Dismisses(q, d, s)
    BY <2>1 DEF CardsInv, AllDismissed
  <2>3. offered'[s] = offered[s]
    BY <1>5, <1>8, <2>1
  <2> QED BY <1>1, <2>2, <2>3 DEF Dismisses
<1>15. EveryoneTold'
  <2>1. \A q \in Procs : job[q].pc # "idle" => job[q].trip \in Trips
    BY DEF TypesInv, JobsTyped
  <2>2. \A q \in Procs : job[q].pc # "idle" /\ Gone(job[q].trip) => offered'[job[q].trip] = offered[job[q].trip]
    BY <1>5, <1>8, <2>1
  <2> QED BY <1>1, <1>9, <2>2 DEF CardsInv, EveryoneTold
<1> QED BY <1>10, <1>11, <1>12, <1>13, <1>14, <1>15 DEF CardsInv

\* A wave sends its cards, all written down.
LEMMA CardsSend ==
  ASSUME TypesInv, CardsInv, NEW w \in Workers, Send(w)
  PROVE  CardsInv'
<1>1. At(w, "send") /\ ~At(w, "idle") /\ UNCHANGED <<status, offered, job, raced>>
  BY DEF Send, At, vars, redis
<1>2. PICK t \in Trips : t = TripOf(w)
  BY <1>1, WaveFacts
<1>3. PICK i \in SUBSET worker[w].ids : cards' = cards \cup {<<d, t>> : d \in i}
  BY <1>2 DEF Send
<1>4. \A s, d : <<d, s>> \in cards' => <<d, s>> \in cards \/ (s = t /\ d \in i)
  BY <1>3
<1>5. worker \in [Workers -> WaveType] /\ worker' = [worker EXCEPT ![w].pc = "successor"]
  BY DEF Send, TypesInv, WavesTyped
<1>6. /\ worker'[w].pc = "successor" /\ \A v \in Workers \ {w} : worker'[v] = worker[v]
  BY <1>5 DEF WaveType
<1>7. ~Gone(t)
  BY <1>1, <1>2 DEF CardsInv, NoneOvertakes, PastGate, At
<1>8. (\A s : Open(s)' <=> Open(s)) /\ (\A s : Gone(s)' <=> Gone(s))
  BY <1>1 DEF Open, Gone
<1>9. OpenCards'
  <2>1. Open(t) => i \subseteq offered[t]
    BY <1>1, <1>2, <1>3 DEF CardsInv, OpenWaves
  <2> QED BY <1>1, <1>4, <1>8, <2>1 DEF CardsInv, OpenCards
<1>10. OpenWaves'
  <2>1. \A v \in Workers : worker'[v].pc = "send" => worker'[v] = worker[v]
    BY <1>6
  <2> QED BY <1>1, <1>8, <2>1 DEF CardsInv, OpenWaves, At, TripOf, WaveOf
<1>11. DismissedClosed'
  BY <1>1, <1>8 DEF CardsInv, DismissedClosed
<1>12. NoneOvertakes'
  <2>1. \A v \in Workers : worker'[v].pc \in {"record", "send"} => worker'[v] = worker[v]
    BY <1>6
  <2> QED BY <1>8, <2>1 DEF CardsInv, NoneOvertakes, PastGate, TripOf, WaveOf
<1>13. AllDismissed'
  <2>1. SUFFICES ASSUME NEW s \in Trips, NEW d \in Drivers, Gone(s), <<d, s>> \in cards'
                 PROVE  \E q \in Procs : Dismisses(q, d, s)'
    BY <1>8 DEF AllDismissed
  <2>2. <<d, s>> \in cards
    BY <1>4, <1>7, <2>1
  <2>3. PICK q \in Procs : Dismisses(q, d, s)
    BY <2>1, <2>2 DEF CardsInv, AllDismissed
  <2> QED BY <1>1, <2>3 DEF Dismisses
<1>14. EveryoneTold'
  BY <1>1, <1>4, <1>7, <1>8 DEF CardsInv, EveryoneTold
<1> QED BY <1>9, <1>10, <1>11, <1>12, <1>13, <1>14 DEF CardsInv

\* A trip is closed by an acceptance or an end: a process takes on its cards.
LEMMA CardsClose ==
  ASSUME TypesInv, CardsInv, NEW p \in Procs, NEW t \in Trips,
         Close(p, t) \/ \E d \in Drivers : Accept(p, t, d)
  PROVE  CardsInv'
<1>1. PICK b \in Drivers \cup {None} :
        /\ CloseThen(p, t, b) /\ cards' \subseteq cards /\ <<b, t>> \notin cards'
        /\ \/ Close(p, t) \/ Assign(t, b)
  <2>1. CASE Close(p, t)
    <3>1. <<None, t>> \notin cards
      BY NoneIsNobody DEF TypesInv, OffersTyped
    <3> QED BY <2>1, <3>1 DEF Close
  <2>2. ASSUME NEW d \in Drivers, Accept(p, t, d)
        PROVE  CloseThen(p, t, d) /\ cards' \subseteq cards /\ <<d, t>> \notin cards' /\ Assign(t, d)
    BY <2>2 DEF Accept
  <2> QED BY <2>1, <2>2
<1>2. status \in [Trips -> TripStatus] /\ status'[t] \in {"accepted", "cancelled"}
      /\ \A s \in Trips \ {t} : status'[s] = status[s]
  BY <1>1 DEF Close, Move, Assign, TypesInv, TripsTyped
<1>3. /\ ~Open(t)' /\ \A s \in Trips \ {t} : Open(s)' <=> Open(s)
  BY <1>2 DEF Open
<1>4. /\ UNCHANGED <<offered, worker>> /\ job[p] = NoJob
      /\ raced' = IF PastGate(t) THEN raced \cup {t} ELSE raced
  BY <1>1 DEF CloseThen, redis
<1>5. job \in [Procs -> JobType] /\ job[p].pc = "idle"
      /\ \A q \in Procs : job[q].pc # "idle" => job[q].trip \in Trips
  BY <1>4 DEF TypesInv, JobsTyped, NoJob
<1>6. /\ job'[p].pc = "read" /\ job'[p].trip = t /\ job'[p].driver = b
      /\ \A q \in Procs \ {p} : job'[q] = job[q]
  <2>1. job' = [job EXCEPT ![p] = [NoJob EXCEPT !.pc = "read", !.trip = t, !.driver = b]]
    BY <1>1 DEF CloseThen
  <2> QED BY <1>5, <2>1 DEF NoJob
<1>7. \A s : PastGate(s)' <=> PastGate(s)
  BY <1>4 DEF PastGate, TripOf, WaveOf
<1>8. /\ \A s \in Trips \ {t} : Gone(s)' => Gone(s)
      /\ Gone(t)' => ~PastGate(t) /\ (~Open(t) => Gone(t))
  BY <1>3, <1>4 DEF Gone
<1>9. OpenCards'
  BY <1>1, <1>3, <1>4 DEF CardsInv, OpenCards
<1>10. OpenWaves'
  <2>1. SUFFICES ASSUME NEW v \in Workers, At(v, "send"), status'[TripOf(v)] \in {"absent", "requested"}
                 PROVE  worker[v].ids \subseteq offered[TripOf(v)]
    BY <1>4 DEF OpenWaves, At, TripOf, WaveOf, Open
  <2>2. TripOf(v) \in Trips
    BY <2>1, WaveFacts DEF At
  <2>3. Open(TripOf(v))
    BY <1>2, <2>1, <2>2 DEF Open
  <2> QED BY <2>1, <2>3 DEF CardsInv, OpenWaves
<1>11. ASSUME NEW q \in Procs, job[q].pc # "idle"
       PROVE  /\ q # p /\ job'[q] = job[q] /\ job[q].trip \in Trips /\ ~Open(job[q].trip)
              /\ status'[job[q].trip] \notin {"absent", "requested"}
              /\ job[q].trip \notin raced' => Gone(job[q].trip)
  <2>1. q # p /\ job'[q] = job[q] /\ job[q].trip \in Trips /\ ~Open(job[q].trip)
    BY <1>5, <1>6, <1>11 DEF CardsInv, DismissedClosed
  <2>2. status'[job[q].trip] \notin {"absent", "requested"}
    BY <1>2, <2>1 DEF Open
  <2> QED BY <1>4, <2>1, <2>2 DEF Gone
<1>12. DismissedClosed'
  <2>1. SUFFICES ASSUME NEW q \in Procs, job'[q].pc # "idle"
                 PROVE  status'[job'[q].trip] \notin {"absent", "requested"}
    BY DEF DismissedClosed, Open
  <2>2. CASE q = p
    BY <1>2, <1>6, <2>2
  <2>3. CASE q # p
    BY <1>6, <1>11, <2>1, <2>3
  <2> QED BY <2>2, <2>3
<1>13. NoneOvertakes'
  BY <1>7, <1>8 DEF CardsInv, NoneOvertakes
<1>14. AllDismissed'
  <2>1. SUFFICES ASSUME NEW s \in Trips, NEW d \in Drivers, Gone(s)', <<d, s>> \in cards'
                 PROVE  \E q \in Procs : Dismisses(q, d, s)'
    BY DEF AllDismissed
  <2>2. <<d, s>> \in cards
    BY <1>1, <2>1
  <2>3. CASE Gone(s)
    <3>1. PICK q \in Procs : Dismisses(q, d, s)
      BY <2>2, <2>3 DEF CardsInv, AllDismissed
    <3>2. job[q].pc # "idle"
      BY <3>1 DEF Dismisses
    <3>3. job'[q] = job[q]
      BY <1>11, <3>2
    <3> QED BY <1>4, <3>1, <3>3 DEF Dismisses
  <2>4. CASE s = t /\ Open(t)
    <3>1. d \in offered[t]
      BY <2>2, <2>4 DEF CardsInv, OpenCards
    <3> QED BY <1>4, <1>6, <2>4, <3>1 DEF Dismisses
  <2> QED BY <1>8, <2>1, <2>3, <2>4
<1>15. EveryoneTold'
  <2>1. SUFFICES ASSUME NEW q \in Procs, job'[q].pc # "idle", job'[q].trip \notin raced'
                 PROVE  /\ <<job'[q].driver, job'[q].trip>> \notin cards'
                        /\ job'[q].pc = "delete" =>
                             offered[job'[q].trip] \ {job'[q].driver} \subseteq job'[q].losers
    BY <1>4 DEF EveryoneTold, Gone
  <2>2. CASE q = p
    BY <1>1, <1>6, <2>2
  <2>3. CASE q # p
    <3>1. job'[q] = job[q] /\ job[q].pc # "idle" /\ Gone(job[q].trip)
      BY <1>6, <1>11, <2>1, <2>3
    <3> QED BY <1>1, <3>1 DEF CardsInv, EveryoneTold
  <2> QED BY <2>2, <2>3
<1> QED BY <1>9, <1>10, <1>12, <1>13, <1>14, <1>15 DEF CardsInv

\* The offers are read, deleted and their drivers told, by any number of processes.
LEMMA CardsDismiss ==
  ASSUME TypesInv, CardsInv, NEW p \in Procs, JobStep(p)
  PROVE  CardsInv'
<1>1. UNCHANGED <<status, worker, raced>> /\ job[p].pc # "idle"
  BY DEF JobStep, PopRead, PopDelete, TellLosers, vars
<1>2. PICK t \in Trips : t = job[p].trip
  BY <1>1 DEF TypesInv, JobsTyped
<1>3. ~Open(t) /\ job \in [Procs -> JobType] /\ offered \in [Trips -> SUBSET Drivers]
  BY <1>1, <1>2 DEF CardsInv, DismissedClosed, TypesInv, JobsTyped, OffersTyped
<1>4. /\ (\A s : Open(s)' <=> Open(s)) /\ (\A s : Gone(s)' <=> Gone(s))
      /\ (\A s : PastGate(s)' <=> PastGate(s))
  BY <1>1 DEF Open, Gone, PastGate, TripOf, WaveOf
<1>5. PICK r \in JobType :
        /\ job' = [job EXCEPT ![p] = r]
        /\ \/ /\ PopRead(p) /\ r.pc = "delete" /\ r.trip = t /\ r.driver = job[p].driver
              /\ r.losers = offered[t] \ {job[p].driver}
           \/ /\ PopDelete(p) /\ r.pc = "tell" /\ r.trip = t /\ r.driver = job[p].driver
              /\ r.losers = job[p].losers
           \/ TellLosers(p) /\ r.pc = "idle"
  <2>1. job[p] \in JobType
    BY <1>3
  <2>2. CASE PopRead(p)
    <3>1. PICK r : r = [job[p] EXCEPT !.pc = "delete", !.losers = offered[t] \ {job[p].driver}]
      OBVIOUS
    <3>2. offered[t] \ {job[p].driver} \in SUBSET Drivers
      BY <1>3
    <3>3. r \in JobType /\ r.pc = "delete" /\ r.trip = t /\ r.driver = job[p].driver
          /\ r.losers = offered[t] \ {job[p].driver}
      BY <1>2, <2>1, <3>1, <3>2 DEF JobType
    <3>4. job' = [job EXCEPT ![p] = r]
      BY <1>2, <1>3, <2>2, <3>1 DEF PopRead
    <3> QED BY <2>2, <3>3, <3>4
  <2>3. CASE PopDelete(p)
    <3>1. PICK r : r = [job[p] EXCEPT !.pc = "tell"]
      OBVIOUS
    <3>2. r \in JobType /\ r.pc = "tell" /\ r.trip = t /\ r.driver = job[p].driver
          /\ r.losers = job[p].losers
      BY <1>2, <2>1, <3>1 DEF JobType
    <3>3. job' = [job EXCEPT ![p] = r]
      BY <1>3, <2>3, <3>1 DEF PopDelete
    <3> QED BY <2>3, <3>2, <3>3
  <2>4. CASE TellLosers(p)
    <3>1. NoJob \in JobType /\ NoJob.pc = "idle"
      BY DEF NoJob, JobType
    <3> QED BY <2>4, <3>1 DEF TellLosers
  <2> QED BY <2>2, <2>3, <2>4 DEF JobStep
<1>6. job'[p] = r /\ \A q \in Procs \ {p} : job'[q] = job[q]
  BY <1>3, <1>5
<1>7. /\ cards' \subseteq cards
      /\ \A s \in Trips : offered'[s] \subseteq offered[s]
      /\ \A s \in Trips : Open(s) => offered'[s] = offered[s]
  <2>1. CASE PopRead(p)
    BY <2>1 DEF PopRead, redis
  <2>2. CASE PopDelete(p)
    BY <1>2, <1>3, <2>2 DEF PopDelete
  <2>3. CASE TellLosers(p)
    BY <2>3 DEF TellLosers, redis
  <2> QED BY <2>1, <2>2, <2>3 DEF JobStep
<1>8. OpenCards'
  BY <1>4, <1>7 DEF CardsInv, OpenCards
<1>9. OpenWaves'
  <2>1. SUFFICES ASSUME NEW v \in Workers, At(v, "send"), Open(TripOf(v))
                 PROVE  worker[v].ids \subseteq offered'[TripOf(v)]
    BY <1>1 DEF OpenWaves, At, TripOf, WaveOf, Open
  <2>2. TripOf(v) \in Trips
    BY <2>1, WaveFacts DEF At
  <2> QED BY <1>7, <2>1, <2>2 DEF CardsInv, OpenWaves
<1>10. DismissedClosed'
  <2>1. \A q \in Procs : job'[q].pc # "idle" => job[q].pc # "idle" /\ job'[q].trip = job[q].trip
    BY <1>1, <1>2, <1>5, <1>6
  <2> QED BY <1>1, <2>1 DEF CardsInv, DismissedClosed, Open
<1>11. NoneOvertakes'
  BY <1>4 DEF CardsInv, NoneOvertakes
<1>12. Gone(t) => <<job[p].driver, t>> \notin cards
  BY <1>1, <1>2 DEF CardsInv, EveryoneTold
<1>13. AllDismissed'
  <2>1. SUFFICES ASSUME NEW s \in Trips, NEW d \in Drivers, Gone(s), <<d, s>> \in cards'
                 PROVE  \E q \in Procs : Dismisses(q, d, s)'
    BY <1>4 DEF AllDismissed
  <2>2. <<d, s>> \in cards
    BY <1>7, <2>1
  <2>3. PICK q \in Procs : Dismisses(q, d, s)
    BY <2>1, <2>2 DEF CardsInv, AllDismissed
  <2>4. s = t => d # job[p].driver
    BY <1>12, <2>1, <2>2
  <2>5. CASE PopRead(p)
    <3>1. offered' = offered /\ job[p].pc = "read"
      BY <2>5 DEF PopRead, redis
    <3>2. r.pc = "delete" /\ r.trip = t /\ r.losers = offered[t] \ {job[p].driver}
      BY <1>5, <2>5 DEF PopRead, PopDelete, TellLosers
    <3>3. CASE q = p
      <4>1. s = t /\ d \in offered[t]
        BY <1>2, <2>3, <3>1, <3>3 DEF Dismisses
      <4> QED BY <1>6, <2>4, <3>2, <4>1 DEF Dismisses
    <3>4. CASE q # p
      BY <1>6, <2>3, <3>1, <3>4 DEF Dismisses
    <3> QED BY <3>3, <3>4
  <2>6. CASE PopDelete(p)
    <3>1. job[p].pc = "delete" /\ offered' = [offered EXCEPT ![t] = {}]
      BY <1>2, <2>6 DEF PopDelete
    <3>2. r.pc = "tell" /\ r.trip = t /\ r.losers = job[p].losers
      BY <1>5, <2>6 DEF PopRead, PopDelete, TellLosers
    <3>3. CASE s = t /\ d \in job[p].losers
      BY <1>6, <3>2, <3>3 DEF Dismisses
    <3>4. CASE s # t
      <4>1. offered'[s] = offered[s] /\ q # p
        BY <1>2, <1>3, <2>3, <3>1, <3>4 DEF Dismisses
      <4> QED BY <1>6, <2>3, <4>1 DEF Dismisses
    <3>5. CASE s = t /\ d \notin job[p].losers
      <4>1. offered[t] \ {job[p].driver} \subseteq job[p].losers
        BY <1>1, <1>2, <2>1, <3>1, <3>5 DEF CardsInv, EveryoneTold
      <4>2. d \notin offered[t]
        BY <2>4, <3>5, <4>1
      <4>3. q # p /\ job[q].trip = s /\ job[q].pc \in {"delete", "tell"} /\ d \in job[q].losers
        BY <2>3, <3>1, <3>5, <4>2 DEF Dismisses
      <4> QED BY <1>6, <4>3 DEF Dismisses
    <3> QED BY <3>3, <3>4, <3>5
  <2>7. CASE TellLosers(p)
    <3>1. job[p].pc = "tell" /\ offered' = offered
          /\ cards' = cards \ {<<e, t>> : e \in job[p].losers}
      BY <1>2, <2>7 DEF TellLosers, redis
    <3>2. q # p
      BY <1>2, <2>1, <2>3, <3>1 DEF Dismisses
    <3> QED BY <1>6, <2>3, <3>1, <3>2 DEF Dismisses
  <2> QED BY <2>5, <2>6, <2>7 DEF JobStep
<1>14. EveryoneTold'
  <2>1. SUFFICES ASSUME NEW q \in Procs, job'[q].pc # "idle", Gone(job'[q].trip)
                 PROVE  /\ <<job'[q].driver, job'[q].trip>> \notin cards'
                        /\ job'[q].pc = "delete" =>
                             offered'[job'[q].trip] \ {job'[q].driver} \subseteq job'[q].losers
    BY <1>1 DEF EveryoneTold, Gone, Open
  <2>2. CASE q # p
    <3>1. job'[q] = job[q] /\ job[q].trip \in Trips
      BY <1>6, <2>1, <2>2 DEF TypesInv, JobsTyped
    <3> QED BY <1>7, <2>1, <3>1 DEF CardsInv, EveryoneTold
  <2>3. CASE q = p
    <3>1. job'[q] = r /\ r.trip = t /\ r.driver = job[p].driver
      BY <1>5, <1>6, <2>1, <2>3
    <3>2. <<r.driver, t>> \notin cards'
      BY <1>7, <1>12, <2>1, <3>1
    <3>3. r.pc = "delete" => r.losers = offered[t] \ {job[p].driver}
      BY <1>5
    <3> QED BY <1>7, <3>1, <3>2, <3>3
  <2> QED BY <2>2, <2>3
<1> QED BY <1>8, <1>9, <1>10, <1>11, <1>13, <1>14 DEF CardsInv

\* The cards, over every step.
LEMMA CardsStep ==
  ASSUME TypesInv, CardsInv, [DispatchNext]_allVars
  PROVE  CardsInv'
<1>1. ASSUME UNCHANGED <<status, cards, offered, job, raced, worker>> PROVE CardsInv'
  BY <1>1, CardsKept DEF Open
<1>2. ASSUME NEW t \in Trips, BookTrip(t) \/ InitialSearch(t) \/ _handle_retry(t)
      PROVE  CardsInv'
  <2>1. CASE BookTrip(t)
    <3>1. UNCHANGED <<cards, offered, job, raced, worker>>
      BY <2>1 DEF BookTrip, redis
    <3>2. \A s \in Trips : Open(s)' <=> Open(s)
      BY <2>1 DEF BookTrip, Book, Open, TypesInv, TripsTyped
    <3> QED BY <3>1, <3>2, CardsKept
  <2>2. CASE start_dispatch(t)
    BY <1>1, <2>2 DEF start_dispatch, vars, redis
  <2> QED BY <1>2, <2>1, <2>2 DEF InitialSearch, _handle_retry
<1>3. ASSUME NEW w \in Workers, NEW r, UNCHANGED <<status, cards, offered, job, raced>>,
             worker' = [worker EXCEPT ![w] = r],
             r.pc \notin {"record", "send"} \/ (r.pc = "record" /\ Open(r.task[1]))
      PROVE  CardsInv'
  <2>1. worker'[w] = r /\ \A v \in Workers \ {w} : worker'[v] = worker[v]
    BY <1>3 DEF TypesInv, WavesTyped
  <2>2. \A s \in Trips : Open(s)' <=> Open(s)
    BY <1>3 DEF Open
  <2>3. \A v \in Workers : \/ worker'[v] = worker[v]
                           \/ worker'[v].pc \notin {"record", "send"}
                           \/ worker'[v].pc = "record" /\ Open(worker'[v].task[1])
    BY <1>3, <2>1
  <2> QED BY <1>3, <2>2, <2>3, CardsKept
<1>4. ASSUME NEW w \in Workers, NEW k \in Tasks, TakeTask(w, k) PROVE CardsInv'
  <2>1. PICK r : r = [pc |-> "gate", task |-> k, ids |-> {}]
    OBVIOUS
  <2>2. r.pc = "gate" /\ worker' = [worker EXCEPT ![w] = r]
        /\ UNCHANGED <<status, cards, offered, job, raced>>
    BY <1>4, <2>1 DEF TakeTask, vars, redis
  <2> QED BY <1>3, <2>2
<1>5. ASSUME NEW w \in Workers, WorkerLost(w) PROVE CardsInv'
  BY <1>3, <1>5, NoWaveOK DEF WorkerLost, vars, redis
<1>6. ASSUME NEW w \in Workers, WaveStep(w) PROVE CardsInv'
  <2>1. ~At(w, "idle")
    BY <1>6 DEF WaveStep, Gate, Record, Send, Successor, Done, At
  <2>2. CASE (Gate(w) /\ ~LiveWave(WaveOf(w))) \/ Done(w)
    <3>1. Ack(w) /\ UNCHANGED <<status, cards, offered, job, raced>>
      BY <2>2, WaveEnds
    <3> QED BY <1>3, <3>1, NoWaveOK DEF Ack
  <2>3. CASE Gate(w) /\ LiveWave(WaveOf(w))
    <3>1. PICK r \in WaveType :
           /\ worker' = [worker EXCEPT ![w] = r] /\ r.task = worker[w].task /\ r.pc = "record"
           /\ dispatchable(TripOf(w))
      BY <2>1, <2>3, WaveShape DEF Gate, Record, Send, Successor, At
    <3>2. Open(r.task[1]) /\ UNCHANGED <<status, cards, offered, job, raced>>
      BY <2>3, <3>1 DEF dispatchable, Open, TripOf, WaveOf, Gate, vars, redis
    <3> QED BY <1>3, <3>1, <3>2
  <2>4. CASE Successor(w)
    <3>1. PICK r : r = [worker[w] EXCEPT !.pc = "ack"]
      OBVIOUS
    <3>2. worker[w] \in WaveType
      BY DEF TypesInv, WavesTyped
    <3>3. r.pc = "ack"
      BY <3>1, <3>2 DEF WaveType
    <3>4. worker' = [worker EXCEPT ![w] = r] /\ UNCHANGED <<status, cards, offered, job, raced>>
      BY <2>4, <3>1, <3>2 DEF Successor, TypesInv, WavesTyped, vars, redis
    <3> QED BY <1>3, <3>3, <3>4
  <2> QED BY <1>6, <2>2, <2>3, <2>4, CardsRecord, CardsSend DEF WaveStep
<1>7. ASSUME NEW p \in Procs,
             JobStep(p) \/ \E t \in Trips : Close(p, t) \/ \E d \in Drivers : Accept(p, t, d)
      PROVE  CardsInv'
  BY <1>7, CardsDismiss, CardsClose
<1>8. CASE UNCHANGED allVars
  BY <1>1, <1>8 DEF allVars
<1> QED BY <1>2, <1>4, <1>5, <1>6, <1>7, <1>8 DEF DispatchNext

-----------------------------------------------------------------------------
(* Theorems.                                                                *)

\* Nothing is queued, asked or dismissed in the beginning.
LEMMA DispatchInitOK ==
  ASSUME DispatchInit
  PROVE  DispatchInv
<1>1. TripsTyped
  BY DEF DispatchInit, Init, TripsTyped, TripStatus
<1>2. OffersTyped
  BY WavesNat DEF DispatchInit, OffersTyped
<1>3. job = [p \in Procs |-> NoJob] /\ NoJob \in JobType /\ NoJob.pc = "idle"
  BY DEF DispatchInit, NoJob, JobType
<1>4. JobsTyped
  BY <1>3 DEF JobsTyped
<1>5. worker = [w \in Workers |-> NoWave] /\ queue = [k \in Tasks |-> 0] /\ cards = {}
      /\ sends = [k \in Trips \X Gens \X Drivers |-> 0]
  BY DEF DispatchInit
<1>6. \A w \in Workers : At(w, "idle") /\ worker[w] = NoWave
  BY <1>5, NoWaveOK DEF At
<1>7. \A k \in Tasks : Cardinality(Holders(k)) <= queue[k]
  <2>1. \A k : Holders(k) = {}
    BY <1>6 DEF Holders
  <2> QED BY <1>5, <2>1, FS_EmptySet
<1>8. WavesTyped
  BY <1>5, <1>6, <1>7, NoWaveOK DEF WavesTyped
<1>9. ChainInv
  BY <1>5, <1>6 DEF ChainInv, OneCopy, OneHolder, EarlierSpent, Begun
<1>10. AskedInv
  <2>1. \A w \in Workers : ~At(w, "record") /\ ~At(w, "send")
    BY <1>6 DEF At
  <2> QED BY <1>5, <2>1 DEF AskedInv
<1>11. CardsInv
  <2>1. \A w \in Workers : worker[w].pc = "idle"
    BY <1>6 DEF At
  <2>2. NoneOvertakes /\ OpenWaves
    BY <2>1 DEF NoneOvertakes, OpenWaves, PastGate, At
  <2> QED BY <1>3, <1>5, <2>2 DEF CardsInv, OpenCards, DismissedClosed, AllDismissed, EveryoneTold
<1> QED BY <1>1, <1>2, <1>4, <1>8, <1>9, <1>10, <1>11 DEF DispatchInv, TypesInv, SearchInv

\* The inductive invariant holds in every reachable state.
LEMMA DispatchInvAlways == DispatchSpec => []DispatchInv
<1>1. DispatchInit => DispatchInv
  BY DispatchInitOK
<1>2. DispatchInv /\ [DispatchNext]_allVars => DispatchInv'
  BY TypesStep, SearchStep, CardsStep DEF DispatchInv
<1> QED BY <1>1, <1>2, PTL DEF DispatchSpec

\* Tasks, offers, cards and running waves keep their shapes, lost workers included; and
\* the broker has a copy of every task a worker runs, so an acknowledgement always
\* takes back one that is there.
THEOREM DispatchTypes == DispatchSpec => []DispatchTypeOK
<1>1. ASSUME DispatchInv PROVE DispatchTypeOK
  <2>1. TypesInv
    BY <1>1 DEF DispatchInv
  <2>2. ASSUME NEW w \in Workers
        PROVE  /\ worker[w].pc \in {"idle", "gate", "record", "send", "successor", "ack"}
               /\ worker[w] # NoWave => worker[w].task \in Tasks /\ queue[worker[w].task] > 0
               /\ worker[w].ids \subseteq Drivers
    <3>1. worker[w] \in WaveType
      BY <2>1 DEF TypesInv, WavesTyped
    <3>2. CASE At(w, "idle")
      BY <2>1, <3>1, <3>2 DEF TypesInv, WavesTyped, WaveType
    <3>3. CASE ~At(w, "idle")
      BY <2>1, <3>1, <3>3, WaveFacts DEF WaveType, WaveOf
    <3> QED BY <3>2, <3>3
  <2> QED BY <2>1, <2>2 DEF DispatchTypeOK, TypesInv, OffersTyped, WavesTyped
<1> QED BY <1>1, DispatchInvAlways, PTL

\* While no worker is lost, a search sends a driver at most one request, however its
\* waves, retries, acceptances and cancellations interleave.
THEOREM AskedOnce == DispatchSpec => []OfferedOncePerSearch
<1>1. ASSUME DispatchInv PROVE OfferedOncePerSearch
  <2>1. SUFFICES ASSUME losses = 0, NEW k \in DOMAIN sends PROVE sends[k] <= 1
    BY DEF OfferedOncePerSearch
  <2>2. AskedInv /\ k \in Trips \X Gens \X Drivers
    BY <1>1, <2>1 DEF DispatchInv, SearchInv, TypesInv, OffersTyped
  <2>3. k = <<k[1], k[2], k[3]>> /\ k[1] \in Trips /\ k[2] \in Gens /\ k[3] \in Drivers
    BY <2>2
  <2>4. sends[<<k[1], k[2], k[3]>>] <= 1
    BY <2>2, <2>3 DEF AskedInv
  <2> QED BY <2>3, <2>4
<1> QED BY <1>1, DispatchInvAlways, PTL

\* A trip that was closed with no wave past its gate, and that no process is still
\* dismissing, is on nobody's screen: acceptances and ends that overlap on one trip
\* together tell everyone, also when one deletes the offers another was going to read.
THEOREM CardsAlwaysDismissed == DispatchSpec => []CardsDismissed
<1>1. ASSUME DispatchInv PROVE CardsDismissed
  <2>1. SUFFICES ASSUME NEW t \in Trips, status[t] \in Finished \cup DRIVER_ACTIVE_TRIP_STATUSES,
                        t \notin raced, \A p \in Procs : job[p].trip # t,
                        NEW d \in Drivers, <<d, t>> \in cards
                 PROVE  FALSE
    BY DEF CardsDismissed
  <2>2. Gone(t)
    BY <2>1 DEF Gone, Open, Finished, DRIVER_ACTIVE_TRIP_STATUSES
  <2>3. \E p \in Procs : Dismisses(p, d, t)
    BY <1>1, <2>1, <2>2 DEF DispatchInv, CardsInv, AllDismissed
  <2> QED BY <2>1, <2>3 DEF Dismisses
<1> QED BY <1>1, DispatchInvAlways, PTL

\* The search never moves a trip in a way the ride's authority does not allow: waves,
\* retries, lost workers and dismissals leave it alone, acceptances and ends are its own.
THEOREM DispatchImplementsAuthority == DispatchSpec => Spec
<1>1. DispatchInit => Init
  BY DEF DispatchInit
<1>2. [DispatchNext]_allVars => [Next]_vars
  <2>1. SUFFICES ASSUME [DispatchNext]_allVars PROVE [Next]_vars
    OBVIOUS
  <2>2. ASSUME NEW t \in Trips, BookTrip(t) \/ InitialSearch(t) \/ _handle_retry(t)
        PROVE  [Next]_vars
    BY <2>2 DEF BookTrip, InitialSearch, _handle_retry, start_dispatch, Next
  <2>3. ASSUME NEW w \in Workers,
               WaveStep(w) \/ WorkerLost(w) \/ \E k \in Tasks : TakeTask(w, k)
        PROVE  UNCHANGED vars
    BY <2>3 DEF WaveStep, Gate, Record, Send, Successor, Done, WorkerLost, TakeTask
  <2>4. ASSUME NEW p \in Procs, JobStep(p) PROVE UNCHANGED vars
    BY <2>4 DEF JobStep, PopRead, PopDelete, TellLosers
  <2>5. ASSUME NEW p \in Procs, NEW t \in Trips,
               Close(p, t) \/ \E d \in Drivers : Accept(p, t, d)
        PROVE  Next
    BY <2>5 DEF Close, Accept, Next
  <2>6. CASE UNCHANGED allVars
    BY <2>6 DEF allVars, vars
  <2> QED BY <2>1, <2>2, <2>3, <2>4, <2>5, <2>6 DEF DispatchNext
<1> QED BY <1>1, <1>2, PTL DEF DispatchSpec, Spec

\* So the search inherits the rides' own invariant: however waves, retries, lost workers and closing
\* processes interleave with the acceptances they cause, no driver it offered rides to ends up on two
\* of them (start_dispatch, _accept_trip).
THEOREM DispatchRidesAgree == DispatchSpec => [](ColumnsAgree /\ OneRideEach)
BY DispatchImplementsAuthority, RidesAgree, PTL
=============================================================================
