--------------------------- MODULE SupportTickets ---------------------------
(* One support ticket.  Waiting on the user pauses the clock its resolution *)
(* is due by; an hourly sweep reminds and then closes a ticket nobody       *)
(* answers; a refund asked for on the ticket and turned down brings it back *)
(* to its agent.  Operators write under the row's lock.  The user's own     *)
(* close writes a row it read before, and the sweep locks rows it listed    *)
(* before.  Who owns the ticket, and the marks for its agent, are left out. *)
EXTENDS Integers

CONSTANTS Minutes,       \* the policy: time to resolve, by priority ("normal" and "urgent" at least)
          ReminderDays,  \* the country's waiting_reminder_days
          AutocloseDays, \* and waiting_autoclose_days
          MaxDays        \* bound: how long the ticket is watched

ASSUME SupportConstants ==
  /\ {"normal", "urgent"} \subseteq DOMAIN Minutes
  /\ \A p \in DOMAIN Minutes : Minutes[p] \in Nat
  /\ ReminderDays \in Nat /\ AutocloseDays \in Nat /\ MaxDays \in Nat

VARIABLES ticket,   \* the SupportTicket row
          day,      \* time since it was created
          closing,  \* the user's close request: what it read of a pause, or nothing
          refund,   \* a refund asked for on this ticket awaits its checker
          sweeping  \* where the running sweep is with this ticket, and the time it goes by
supportVars == <<ticket, day, closing, refund, sweeping>>

STATUSES == {"OPEN", "IN_PROGRESS", "WAITING_USER", "CLOSED"}
NoTime == -1
NoClose == [reads |-> "nothing"]
NotSweeping == [pc |-> "idle", now |-> 0]

SupportInit ==
  /\ ticket = [st |-> "none", flag |-> FALSE, safety |-> FALSE, prio |-> "normal", since |-> NoTime,
               paused |-> 0, due |-> 0, resolved |-> FALSE, reminded |-> FALSE]
  /\ day = 0 /\ closing = NoClose /\ refund = FALSE /\ sweeping = NotSweeping

DayPasses ==
  /\ ticket.st # "none" /\ day < MaxDays
  /\ day' = day + 1
  /\ UNCHANGED <<ticket, closing, refund, sweeping>>

Updated(row) == ticket' = row /\ UNCHANGED <<day, closing, refund, sweeping>>

-----------------------------------------------------------------------------
(* The clock.                                                               *)

is_safety(row) == row.flag \/ row.safety

\* Mutant: a new priority forgets the time already spent waiting.
apply_due_times_unpaused(row) == [row EXCEPT !.due = Minutes[row.prio]]

apply_due_times(row) == [row EXCEPT !.due = Minutes[row.prio] + row.paused]

EndsPause(row, new) == row.st = "WAITING_USER" /\ new # "WAITING_USER" /\ row.since # NoTime

\* Leaving WAITING_USER adds the wait to the due time; entering it starts a wait, except on a
\* safety ticket.  `now` is the caller's.
enter_status(row, new, now) ==
  LET wait == IF EndsPause(row, new) /\ now > row.since THEN now - row.since ELSE 0
      since == IF EndsPause(row, new) THEN NoTime ELSE row.since
      asks == new = "WAITING_USER" /\ row.st # "WAITING_USER" /\ ~is_safety(row) IN
    [row EXCEPT !.st = new, !.paused = @ + wait, !.due = @ + wait,
                !.since = IF asks THEN now ELSE since]

\* Every change of status but the user's answer also keeps resolved_at.
_set_status(row, new, now) == [enter_status(row, new, now) EXCEPT !.resolved = (new = "CLOSED")]

\* Bound: the user is asked only while there is time left to see the wait through.
AskBound(new) == new = "WAITING_USER" => day + AutocloseDays <= MaxDays

-----------------------------------------------------------------------------
(* The user.                                                                *)

\* A safety concern is flagged and urgent from the first second.
create_ticket ==
  /\ ticket.st = "none"
  /\ \E safety \in BOOLEAN :
       Updated(apply_due_times([ticket EXCEPT !.st = "OPEN", !.flag = safety, !.safety = safety,
                                              !.prio = IF safety THEN "urgent" ELSE "normal"]))

\* A message on a waiting ticket.  It is stored before the lock is taken, and the status is then
\* looked at again, so a late answer ends whichever wait it finds.
add_user_message ==
  /\ ticket.st = "WAITING_USER"
  /\ Updated(enter_status(ticket, "IN_PROGRESS", day))

\* close_my_ticket reads the row without a lock ...
CloseReads ==
  /\ ticket.st \in STATUSES \ {"CLOSED"} /\ closing = NoClose
  /\ closing' = IF EndsPause(ticket, "CLOSED")
                THEN [reads |-> "pause", since |-> ticket.since, paused |-> ticket.paused, due |-> ticket.due]
                ELSE [reads |-> "no pause"]
  /\ UNCHANGED <<ticket, day, refund, sweeping>>

\* ... and saves the columns it changed, computed from what it read.
close_my_ticket ==
  LET shut == [ticket EXCEPT !.st = "CLOSED", !.resolved = TRUE]
      wait == day - closing.since IN
    /\ closing # NoClose /\ closing' = NoClose
    /\ ticket' = IF closing.reads = "pause"
                 THEN [shut EXCEPT !.paused = closing.paused + wait, !.due = closing.due + wait,
                                   !.since = NoTime]
                 ELSE shut
    /\ UNCHANGED <<day, refund, sweeping>>

-----------------------------------------------------------------------------
(* Operators.                                                               *)

\* A reply may name a status, and otherwise moves an open ticket on.  A closed ticket takes a
\* reply only with a status that reopens it.
admin_reply(next) ==
  LET new == IF next = "" THEN "IN_PROGRESS" ELSE next IN
    /\ next = "" => ticket.st = "OPEN"
    /\ ticket.st = "CLOSED" => next # "CLOSED"
    /\ AskBound(new)
    /\ Updated(_set_status(ticket, new, day))

admin_set_status(new) ==
  /\ ticket.st # new /\ AskBound(new)
  /\ Updated(_set_status(ticket, new, day))

admin_set_priority(p) ==
  /\ ticket.prio # p
  /\ Updated(apply_due_times([ticket EXCEPT !.prio = p]))

\* The flag set at creation stays, whatever the category becomes.
admin_set_category(safety) ==
  /\ ticket.safety # safety
  /\ Updated([ticket EXCEPT !.safety = safety])

RefundAsked ==
  /\ ~refund /\ refund' = TRUE
  /\ UNCHANGED <<ticket, day, closing, sweeping>>

RefundExecuted ==
  /\ refund /\ refund' = FALSE
  /\ UNCHANGED <<ticket, day, closing, sweeping>>

\* Turned down, withdrawn or expired: in the same transaction the ticket is its agent's again,
\* whatever its status was.
return_refund_to_agent ==
  /\ refund /\ refund' = FALSE
  /\ ticket' = _set_status(ticket, "IN_PROGRESS", day)
  /\ UNCHANGED <<day, closing, sweeping>>

-----------------------------------------------------------------------------
(* The sweep, for a country that has set its days.                          *)

Waits(days, now) ==
  /\ ticket.st = "WAITING_USER" /\ ~is_safety(ticket)
  /\ ticket.since # NoTime /\ ticket.since + days <= now

SweepGoes(from, to) ==
  /\ sweeping.pc = from
  /\ sweeping' = IF to = "idle" THEN NotSweeping
                 ELSE [pc |-> to, now |-> IF from = "idle" THEN day ELSE sweeping.now]
  /\ UNCHANGED <<day, closing, refund>>

\* Mutant: a ticket that was reminded is not listed for closing.
SweepLists_unreminded ==
  /\ SweepGoes("idle", IF Waits(AutocloseDays, day) /\ ~ticket.reminded THEN "close" ELSE "reminders")
  /\ UNCHANGED ticket

SweepLists ==
  /\ SweepGoes("idle", IF Waits(AutocloseDays, day) THEN "close" ELSE "reminders")
  /\ UNCHANGED ticket

\* Under the lock: still waiting and no safety concern.  How long is not asked again.
StillWaits == ticket.st = "WAITING_USER" /\ ~is_safety(ticket)

_autoclose ==
  /\ SweepGoes("close", "reminders")
  /\ ticket' = IF StillWaits THEN _set_status(ticket, "CLOSED", sweeping.now) ELSE ticket

SweepListsReminders ==
  /\ SweepGoes("reminders", IF Waits(ReminderDays, sweeping.now) /\ ~ticket.reminded THEN "remind" ELSE "idle")
  /\ UNCHANGED ticket

_remind ==
  /\ SweepGoes("remind", "idle")
  /\ ticket' = [ticket EXCEPT !.reminded = @ \/ StillWaits]

sweep_waiting == SweepLists \/ _autoclose \/ SweepListsReminders \/ _remind

-----------------------------------------------------------------------------
AgentStep ==
  \/ \E next \in STATUSES \cup {""} : admin_reply(next)
  \/ \E new \in STATUSES : admin_set_status(new)
  \/ \E p \in DOMAIN Minutes : admin_set_priority(p)
  \/ \E safety \in BOOLEAN : admin_set_category(safety)
  \/ RefundAsked

SupportNext ==
  \/ create_ticket \/ add_user_message \/ CloseReads \/ close_my_ticket
  \/ ticket.st # "none" /\ AgentStep
  \/ RefundExecuted \/ return_refund_to_agent
  \/ DayPasses \/ sweep_waiting

\* Days pass, and the sweep is on Celery beat; nobody is promised to answer.
SupportFairness == WF_supportVars(DayPasses) /\ WF_supportVars(sweep_waiting)
SupportSpec == SupportInit /\ [][SupportNext]_supportVars /\ SupportFairness

SupportTypeOK ==
  /\ ticket \in [st : STATUSES \cup {"none"}, flag : BOOLEAN, safety : BOOLEAN, prio : DOMAIN Minutes,
                 since : Int, paused : Nat, due : Nat, resolved : BOOLEAN, reminded : BOOLEAN]
  /\ day \in 0..MaxDays /\ refund \in BOOLEAN
  /\ sweeping \in [pc : {"idle", "close", "reminders", "remind"}, now : 0..MaxDays]

\* Whoever writes last, the user's stale close included, the due time is a policy's time plus the
\* time the ticket spent waiting, and the waits counted so far and the one under way never add up
\* to more than the ticket's age (enter_status's columns are saved together, and
\* apply_due_times counts the pauses again).
DueCountsPauses ==
  LET underWay == IF EndsPause(ticket, "CLOSED") THEN day - ticket.since ELSE 0 IN
    ticket.st # "none" =>
      /\ \E p \in DOMAIN Minutes : ticket.due = Minutes[p] + ticket.paused
      /\ ticket.paused + underWay <= day

\* A ticket that waits on a user who never answers is closed in the end: agents, refunds and
\* re-categorisation may take it out of the wait, nothing leaves it waiting for good.
WaitingEnds ==
  (ticket.st = "WAITING_USER" /\ ticket.since # NoTime) ~> (ticket.st # "WAITING_USER" \/ is_safety(ticket))
=============================================================================
