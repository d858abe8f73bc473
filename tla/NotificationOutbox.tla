------------------------- MODULE NotificationOutbox -------------------------
(* The notifications outbox, for one recipient: a row per message, written  *)
(* once per idempotency key, and sent by Celery workers that claim it with  *)
(* a conditional update.  Everything after the claim is an unconditional    *)
(* write, and a row found in "sending" for ten minutes is taken from its    *)
(* worker whether that worker is dead or only slow.                         *)
EXTENDS Naturals, FiniteSets

CONSTANTS Messages,
          Senders,     \* workers that run send_message
          MaxAttempts, \* NOTIFY_MAX_ATTEMPTS
          MaxStops,    \* bound: workers that are killed or stall
          MaxHolds     \* bound: nights that begin, and sends put off by the rate limit

ASSUME OutboxConstants ==
  /\ IsFiniteSet(Messages) /\ IsFiniteSet(Senders)
  /\ MaxAttempts \in Nat \ {0} /\ MaxStops \in Nat /\ MaxHolds \in Nat

VARIABLES msg,       \* NotificationMessage rows
          accepted,  \* how often the provider accepted each message
          reported,  \* statuses recorded for the message's provider id
          broker,    \* messages with a send_message task waiting
          sender,    \* each worker: what it does next, and for which message
          consent,   \* the recipient's preference for the channel
          night,     \* the promotional quiet hours
          stops, holds
outboxVars == <<msg, accepted, reported, broker, sender, consent, night, stops, holds>>

Final == {"sent", "delivered", "failed", "suppressed"}
Idle == [pc |-> "idle", m |-> CHOOSE m \in Messages : TRUE]

OutboxInit ==
  /\ msg = [m \in Messages |-> [st |-> "none", attempts |-> 0, due |-> "now", id |-> FALSE]]
  /\ accepted = [m \in Messages |-> 0] /\ reported = [m \in Messages |-> {}]
  /\ broker = {} /\ sender = [w \in Senders |-> Idle]
  /\ consent \in BOOLEAN /\ night \in BOOLEAN
  /\ stops = 0 /\ holds = 0

Moves(w, pc) == sender' = [sender EXCEPT ![w].pc = pc]
Leaves(w) == sender' = [sender EXCEPT ![w] = Idle]

\* _schedule: the task is queued on commit, or the broker is down and the sweep is left to find it.
_schedule(m) == broker' \in {broker, broker \cup {m}}

-----------------------------------------------------------------------------
\* A second call under the key finds the row.  A variable with no value fails the message at once.
enqueue(m) ==
  /\ msg[m].st = "none"
  /\ \/ /\ consent
        /\ msg' = [msg EXCEPT ![m].st = "queued", ![m].due = IF night THEN "morning" ELSE "now"]
        /\ _schedule(m)
     \/ /\ ~consent /\ UNCHANGED broker
        /\ msg' = [msg EXCEPT ![m].st = "suppressed"]
     \/ /\ UNCHANGED broker
        /\ msg' = [msg EXCEPT ![m].st = "failed"]
  /\ UNCHANGED <<accepted, reported, sender, consent, night, stops, holds>>

\* deliver claims the row, or finds that there is nothing to do.
Claims(w, m) ==
  /\ sender[w].pc = "idle" /\ m \in broker
  /\ broker' = broker \ {m}
  /\ IF msg[m].st = "queued" /\ msg[m].due = "now"
     THEN /\ msg' = [msg EXCEPT ![m].st = "sending", ![m].attempts = @ + 1]
          /\ sender' = [sender EXCEPT ![w] = [pc |-> "decide", m |-> m]]
     ELSE UNCHANGED <<msg, sender>>
  /\ UNCHANGED <<accepted, reported, consent, night, stops, holds>>

\* Consent and the hour are read again; a held or rate-limited send gives its attempt back.
decide_again(w) ==
  LET m == sender[w].m IN
    /\ sender[w].pc = "decide"
    /\ \/ /\ ~consent /\ Leaves(w)
          /\ msg' = [msg EXCEPT ![m].st = "suppressed"]
          /\ UNCHANGED <<broker, holds>>
       \/ /\ consent /\ night /\ Leaves(w) /\ _schedule(m)
          /\ msg' = [msg EXCEPT ![m].st = "queued", ![m].attempts = @ - 1, ![m].due = "morning"]
          /\ UNCHANGED holds
       \/ /\ consent /\ ~night /\ holds < MaxHolds /\ Leaves(w) /\ _schedule(m)
          /\ msg' = [msg EXCEPT ![m].st = "queued", ![m].attempts = @ - 1, ![m].due = "later"]
          /\ holds' = holds + 1
       \/ /\ consent /\ ~night /\ Moves(w, "send")
          /\ UNCHANGED <<msg, broker, holds>>
    /\ UNCHANGED <<accepted, reported, consent, night, stops>>

\* The provider accepts, refuses for now, refuses for good, or accepts and the answer is lost.
adapter_send(w) ==
  LET m == sender[w].m IN
    /\ sender[w].pc = "send"
    /\ \/ Moves(w, "accepted") /\ accepted' = [accepted EXCEPT ![m] = @ + 1] /\ UNCHANGED msg
       \/ Moves(w, "retry") /\ accepted' = [accepted EXCEPT ![m] = @ + 1] /\ UNCHANGED msg
       \/ Moves(w, "retry") /\ UNCHANGED <<accepted, msg>>
       \/ Leaves(w) /\ UNCHANGED accepted /\ msg' = [msg EXCEPT ![m].st = "failed"]
    /\ UNCHANGED <<reported, broker, consent, night, stops, holds>>

\* The provider's id is saved first, so a callback may find the row before it is finished; nothing
\* has been reported of a new id.
SavesId(w) ==
  /\ sender[w].pc = "accepted"
  /\ msg' = [msg EXCEPT ![sender[w].m].id = TRUE]
  /\ reported' = [reported EXCEPT ![sender[w].m] = {}]
  /\ Moves(w, "finish")
  /\ UNCHANGED <<accepted, broker, consent, night, stops, holds>>

\* Some channels are delivered by being sent.
_finish_message(w) ==
  LET m == sender[w].m IN
    /\ sender[w].pc = "finish" /\ Leaves(w)
    /\ \E st \in {"sent", "delivered"} :
         /\ msg' = [msg EXCEPT ![m].st = st]
         /\ reported' = [reported EXCEPT ![m] = @ \cup {st}]
    /\ UNCHANGED <<accepted, broker, consent, night, stops, holds>>

\* The count is read again; reading it and writing the row are milliseconds apart, and one step.
_retry_or_fail(w) ==
  LET m == sender[w].m IN
    /\ sender[w].pc = "retry" /\ Leaves(w)
    /\ IF msg[m].attempts >= MaxAttempts
       THEN msg' = [msg EXCEPT ![m].st = "failed"] /\ UNCHANGED broker
       ELSE msg' = [msg EXCEPT ![m].st = "queued", ![m].due = "later"] /\ _schedule(m)
    /\ UNCHANGED <<accepted, reported, consent, night, stops, holds>>

\* A killed worker's task is delivered again (acks_late), to no effect while the row is "sending".
WorkerDies(w) ==
  /\ sender[w].pc # "idle" /\ stops < MaxStops
  /\ Leaves(w) /\ broker' = broker \cup {sender[w].m}
  /\ stops' = stops + 1
  /\ UNCHANGED <<msg, accepted, reported, consent, night, holds>>

-----------------------------------------------------------------------------
(* The beat task dispatch_queued, every minute.                             *)

Worked(m) == \E w \in Senders : sender[w].pc # "idle" /\ sender[w].m = m

\* Mutant: a stuck row is always tried again.
Requeued_always(m) == [msg[m] EXCEPT !.st = "queued", !.due = "now"]

\* Mutant: a stuck row that has used its attempts is left as it is.
Requeued_left(m) ==
  IF msg[m].attempts >= MaxAttempts THEN msg[m] ELSE [msg[m] EXCEPT !.st = "queued", !.due = "now"]

Requeued(m) ==
  IF msg[m].attempts >= MaxAttempts THEN [msg[m] EXCEPT !.st = "failed"]
                                    ELSE [msg[m] EXCEPT !.st = "queued", !.due = "now"]

\* Ten minutes in "sending": nobody is at work on the row, or somebody very slow is.
requeue_stuck(m) ==
  /\ msg[m].st = "sending"
  /\ msg' = [msg EXCEPT ![m] = Requeued(m)]
  /\ \/ ~Worked(m) /\ UNCHANGED stops
     \/ Worked(m) /\ stops < MaxStops /\ stops' = stops + 1
  /\ UNCHANGED <<accepted, reported, broker, sender, consent, night, holds>>

dispatch_queued(m) ==
  /\ msg[m].st = "queued" /\ msg[m].due = "now" /\ m \notin broker
  /\ broker' = broker \cup {m}
  /\ UNCHANGED <<msg, accepted, reported, sender, consent, night, stops, holds>>

\* not_before passes.
FallsDue(m) ==
  /\ msg[m].st = "queued" /\ (msg[m].due = "later" \/ (msg[m].due = "morning" /\ ~night))
  /\ msg' = [msg EXCEPT ![m].due = "now"]
  /\ UNCHANGED <<accepted, reported, broker, sender, consent, night, stops, holds>>

-----------------------------------------------------------------------------
_ADVANCE == [delivered |-> {"queued", "sending", "sent", "failed"},
             failed |-> {"sent", "sending"},
             sent |-> {"queued", "sending"}]

\* A signed callback about an id we know; a repeated one changes nothing.
apply_status(m, st) ==
  /\ msg[m].id /\ st \notin reported[m]
  /\ reported' = [reported EXCEPT ![m] = @ \cup {st}]
  /\ msg' = [msg EXCEPT ![m].st = IF @ \in _ADVANCE[st] THEN st ELSE @]
  /\ UNCHANGED <<accepted, broker, sender, consent, night, stops, holds>>

\* The recipient opts in or out in the app, or a STOP, a bounce or a complaint opts them out.
set_preference ==
  /\ consent' = ~consent
  /\ UNCHANGED <<msg, accepted, reported, broker, sender, night, stops, holds>>

in_quiet_hours ==
  /\ night' = ~night
  /\ \/ night /\ UNCHANGED holds
     \/ ~night /\ holds < MaxHolds /\ holds' = holds + 1
  /\ UNCHANGED <<msg, accepted, reported, broker, sender, consent, stops>>

-----------------------------------------------------------------------------
SenderStep(w) ==
  \/ decide_again(w) \/ adapter_send(w) \/ SavesId(w) \/ _finish_message(w) \/ _retry_or_fail(w)
  \/ \E m \in Messages : Claims(w, m)

BeatStep(m) == dispatch_queued(m) \/ (~Worked(m) /\ requeue_stuck(m)) \/ FallsDue(m)

OutboxNext ==
  \/ \E w \in Senders : SenderStep(w) \/ WorkerDies(w)
  \/ \E m \in Messages :
       \/ enqueue(m) \/ dispatch_queued(m) \/ requeue_stuck(m) \/ FallsDue(m)
       \/ \E st \in DOMAIN _ADVANCE : apply_status(m, st)
  \/ set_preference \/ in_quiet_hours

\* Workers go on, Celery beat runs every minute, and the night ends.
OutboxFairness ==
  /\ \A w \in Senders : WF_outboxVars(SenderStep(w))
  /\ \A m \in Messages : WF_outboxVars(BeatStep(m))
  /\ WF_outboxVars(night /\ in_quiet_hours)
OutboxSpec == OutboxInit /\ [][OutboxNext]_outboxVars /\ OutboxFairness

OutboxTypeOK ==
  /\ msg \in [Messages -> [st : Final \cup {"none", "queued", "sending"}, attempts : Nat,
                           due : {"now", "later", "morning"}, id : BOOLEAN]]
  /\ accepted \in [Messages -> Nat] /\ reported \in [Messages -> SUBSET Final]
  /\ broker \subseteq Messages
  /\ sender \in [Senders -> [pc : {"idle", "decide", "send", "accepted", "finish", "retry"}, m : Messages]]
  /\ consent \in BOOLEAN /\ night \in BOOLEAN /\ stops \in Nat /\ holds \in Nat

\* However many workers are killed or fall behind, and whichever of them writes last, the provider
\* is given a message at most NOTIFY_MAX_ATTEMPTS times: each acceptance is paid for by a claim, and
\* a claim is given back only by a worker that did not send (deliver, requeue_stuck).
SendsAreBounded == \A m \in Messages : accepted[m] <= msg[m].attempts /\ msg[m].attempts <= MaxAttempts

\* A message in the outbox reaches a final status and stays final, although tasks are lost, workers
\* die holding it, and a slow worker may put a message that was already sent back in the queue.
MessagesEnd ==
  \A m \in Messages : msg[m].st \in {"queued", "sending"} ~> [](msg[m].st \in Final)
=============================================================================
