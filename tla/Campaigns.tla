----------------------------- MODULE Campaigns -----------------------------
(* Promotion campaigns: draft, launch through the maker-checker service,    *)
(* pause, resume, cancel, budget increases and the periodic sweep; and the  *)
(* campaign's budget, which riders' redemptions reserve, settle and give    *)
(* back, and which driver incentives and referrals spend.  Every campaign   *)
(* transition is one transaction under the campaign's row lock, so each is  *)
(* one action; what happens between transactions is not.                    *)
EXTENDS Approvals, Integers, FiniteSetsExt

CONSTANTS Camps,     \* campaigns
          Legacy,    \* those wrapped from an existing promo code: no budget, no checker
          Trips,
          Budget,    \* budget_minor of a draft
          Raised,    \* the budget an increase asks for
          Discounts, \* what a redemption may be worth
          Reward,    \* an incentive's or a referral's reward
          Target,    \* trips that earn it
          MaxUses,   \* max_total_redemptions of the promo code
          MaxEdits   \* bound: edits of a draft

ASSUME CampaignConstants ==
  /\ Legacy \subseteq Camps /\ IsFiniteSet(Trips)
  /\ Budget \in Nat \ {0} /\ Raised \in Nat /\ Raised > Budget
  /\ Discounts \subseteq Nat \ {0} /\ Reward \in Nat \ {0}
  /\ Target \in Nat \ {0} /\ MaxUses \in Nat \ {0} /\ MaxEdits \in Nat

VARIABLES camp,     \* Campaign rows, with the serving row the apps read
          red,      \* PromoRedemption of each trip
          trip,     \* the trip's own state
          tasks,    \* trips whose on_trip_completed message the broker holds
          seen,     \* <<campaign, trip>>: the task has read the campaign as live
          counted,  \* IncentiveTrip and ReferralTrip rows
          earned,   \* the driver's progress, or the referral, in each campaign
          sweeper   \* the trips the running sweep has left to release
campaignVars == <<camp, red, trip, tasks, seen, counted, earned, sweeper>>

Kinds == {"rider_promo", "driver_incentive", "referral"}
LAUNCHED == {"scheduled", "live", "paused", "exhausted", "ended"}
OPEN_STATES == {"draft", "pending", "scheduled", "live", "paused", "exhausted"}

NoRedemption == [st |-> "none", amt |-> 0, c |-> CHOOSE c \in Camps : TRUE]

Draft(k) == [kind |-> k, st |-> "draft", cfg |-> 0, window |-> 0, phase |-> "before",
             budget |-> Budget, committed |-> 0, spent |-> 0, over |-> 0,
             serving |-> FALSE, uses |-> 0]

\* ensure_legacy_campaign: live without a launch, and with no budget at all.
ensure_legacy_campaign == [Draft("rider_promo") EXCEPT !.st = "live", !.phase = "open",
                                                       !.budget = -1, !.serving = TRUE]

CampaignInit ==
  /\ \E k \in [Camps -> Kinds] :
       camp = [c \in Camps |-> IF c \in Legacy THEN ensure_legacy_campaign ELSE Draft(k[c])]
  /\ red = [t \in Trips |-> NoRedemption]
  /\ trip = [t \in Trips |-> "booked"]
  /\ tasks = {} /\ seen = {} /\ counted = {}
  /\ earned = [c \in Camps |-> IF camp[c].kind = "referral" THEN "none" ELSE "in_progress"]
  /\ sweeper = {}

Budgeted(c) == camp[c].budget >= 0
Used(k) == k.committed + k.spent
min_viable_minor(c) == IF camp[c].kind = "rider_promo" THEN 1 ELSE Reward

-----------------------------------------------------------------------------
(* The budget, on the locked row k of a campaign.                           *)

admits(k, a) == k.st = "live" /\ (k.budget >= 0 => Used(k) + a <= k.budget)

\* Record the peak overshoot; a live campaign that can fund nothing more is exhausted.
_after_change(c, k) ==
  IF k.budget < 0 THEN k
  ELSE [k EXCEPT !.over = IF Used(k) - k.budget > @ THEN Used(k) - k.budget ELSE @,
                 !.st = IF @ = "live" /\ k.budget - Used(k) < min_viable_minor(c)
                        THEN "exhausted" ELSE @]

Less(x, y) == IF y > x THEN 0 ELSE x - y

reserve(c, k, a) == _after_change(c, [k EXCEPT !.committed = @ + a])
settle(c, k, a) == _after_change(c, [k EXCEPT !.committed = Less(@, a), !.spent = @ + a])
adjust_reservation(c, k, old, new) == _after_change(c, [k EXCEPT !.committed = Less(@ + new, old)])
spend_now(c, k, a) == _after_change(c, [k EXCEPT !.spent = @ + a])

\* Back inside the window with room to fund something: live again.
Revived(c, k) ==
  [k EXCEPT !.st = IF /\ @ = "exhausted" /\ k.phase # "passed"
                      /\ k.budget - Used(k) >= min_viable_minor(c)
                   THEN "live" ELSE @]

\* The remainder is computed without asking whether there is a budget: None minus a number raises.
release_raises(c) == ~Budgeted(c)
release(c, k, a) == Revived(c, [k EXCEPT !.committed = Less(@, a)])

-----------------------------------------------------------------------------
(* The workflow.                                                            *)

\* The row the apps read follows the campaign; only a rider promo has one.
_sync_serving_rows(k, active) == [k EXCEPT !.serving = active /\ k.kind = "rider_promo"]

\* An edit before the first submission gives a draft that could have been created so: it is left out.
Submitted(c) == \E r \in Requests : req[r].st # "none" /\ req[r].key[2] = c

\* Mutant: a campaign waiting for its checker can still be edited.
update_draft_pending(c) ==
  /\ camp[c].st \in {"draft", "pending"} /\ Submitted(c) /\ camp[c].cfg + camp[c].window < MaxEdits
  /\ \/ camp' = [camp EXCEPT ![c].cfg = @ + 1]
     \/ camp' = [camp EXCEPT ![c].window = @ + 1]
  /\ UNCHANGED <<approvalVars, red, trip, tasks, seen, counted, earned, sweeper>>

\* Only a draft is edited: its terms (budget and config), or its window.
update_draft(c) ==
  /\ camp[c].st = "draft" /\ Submitted(c) /\ camp[c].cfg + camp[c].window < MaxEdits
  /\ \/ camp' = [camp EXCEPT ![c].cfg = @ + 1]
     \/ camp' = [camp EXCEPT ![c].window = @ + 1]
  /\ UNCHANGED <<approvalVars, red, trip, tasks, seen, counted, earned, sweeper>>

LaunchKey(c) == <<"launch", c, camp[c].cfg, camp[c].window>>

\* The request and the move to pending commit together, under the campaign's lock.
propose_launch(c, o) ==
  /\ camp[c].st = "draft" /\ camp[c].phase # "passed"
  /\ \E r \in Requests : require_approval_or_execute(o, LaunchKey(c), TRUE, r)
  /\ camp' = [camp EXCEPT ![c].st = "pending"]
  /\ UNCHANGED <<red, trip, tasks, seen, counted, earned, sweeper>>

BudgetRequestOpen(c) ==
  \E r \in Requests : req[r].st = "requested" /\ req[r].key[1] = "budget" /\ req[r].key[2] = c

propose_budget_increase(c, o) ==
  /\ Budgeted(c) /\ camp[c].st \in LAUNCHED \ {"ended"}
  /\ Raised > camp[c].budget /\ ~BudgetRequestOpen(c)
  /\ \E r \in Requests :
       require_approval_or_execute(o, <<"budget", c, camp[c].budget, Raised>>, TRUE, r)
  /\ UNCHANGED campaignVars

\* The sealed budget and config are compared with the row; the window is not.
LaunchAllowed(r) ==
  LET k == camp[req[r].key[2]] IN
    k.st = "pending" /\ k.cfg = req[r].key[3] /\ k.phase # "passed"

\* A promo code that somebody else took meanwhile refuses the launch too.
execute_launch(r) ==
  LET c == req[r].key[2]
      now == camp[c].phase = "open" IN
    /\ runner[r] = "run" /\ req[r].key[1] = "launch"
    /\ \/ /\ LaunchAllowed(r) /\ Executes(r)
          /\ camp' = [camp EXCEPT ![c] =
                        _sync_serving_rows([@ EXCEPT !.st = IF now THEN "live" ELSE "scheduled"], now)]
       \/ /\ ~LaunchAllowed(r) \/ camp[c].kind = "rider_promo"
          /\ Refuses(r) /\ UNCHANGED camp
    /\ UNCHANGED <<red, trip, tasks, seen, counted, earned, sweeper>>

execute_budget_increase(r) ==
  LET c == req[r].key[2]
      ok == camp[c].st \in LAUNCHED \ {"ended"} /\ camp[c].budget = req[r].key[3] IN
    /\ runner[r] = "run" /\ req[r].key[1] = "budget"
    /\ \/ /\ ok /\ Executes(r)
          /\ camp' = [camp EXCEPT ![c] = Revived(c, [@ EXCEPT !.budget = req[r].key[4]])]
       \/ ~ok /\ Refuses(r) /\ UNCHANGED camp
    /\ UNCHANGED <<red, trip, tasks, seen, counted, earned, sweeper>>

\* A launch request that will never run sends its campaign back to draft, in the same transaction.
launch_request_closed(r) ==
  /\ camp' = IF req[r].key[1] = "launch"
             THEN [camp EXCEPT ![req[r].key[2]].st = IF @ = "pending" THEN "draft" ELSE @]
             ELSE camp
  /\ UNCHANGED <<red, trip, tasks, seen, counted, earned, sweeper>>

_transition(c, allowed, new, active) ==
  /\ camp[c].st \in allowed
  /\ camp' = [camp EXCEPT ![c] = _sync_serving_rows([@ EXCEPT !.st = new], active)]
  /\ UNCHANGED <<approvalVars, red, trip, tasks, seen, counted, earned, sweeper>>

pause(c) == _transition(c, {"live", "scheduled"}, "paused", FALSE)

resume(c) ==
  LET now == camp[c].phase = "open" IN
    /\ camp[c].phase # "passed"
    /\ _transition(c, {"paused"}, IF now THEN "live" ELSE "scheduled", now)

\* Its open launch request is withdrawn afterwards, if the canceller is its maker (or not at all).
cancel_campaign(c) == _transition(c, OPEN_STATES, "cancelled", FALSE)

\* The campaign's window opens and closes as time passes.
WindowMoves(c) ==
  /\ camp[c].phase # "passed" /\ camp[c].st \notin {"ended", "cancelled"}
  /\ camp' = [camp EXCEPT ![c].phase = IF @ = "before" THEN "open" ELSE "passed"]
  /\ UNCHANGED <<approvalVars, red, trip, tasks, seen, counted, earned, sweeper>>

-----------------------------------------------------------------------------
(* Redemptions.                                                             *)

\* The reservation, the redemption row and the code's count commit together, under the code's lock.
redeem_promo(t, c, a) ==
  /\ trip[t] = "booked" /\ red[t].st = "none"
  /\ camp[c].serving /\ camp[c].phase = "open" /\ camp[c].uses < MaxUses
  /\ admits(camp[c], a)
  /\ camp' = [camp EXCEPT ![c] = reserve(c, [camp[c] EXCEPT !.uses = @ + 1], a)]
  /\ red' = [red EXCEPT ![t] = [st |-> "committed", amt |-> a, c |-> c]]
  /\ UNCHANGED <<approvalVars, trip, tasks, seen, counted, earned, sweeper>>

\* After commit the count task is enqueued, or the broker is down and the message is lost.
\* (A message no campaign could count is left out.)
CompleteTrip(t) ==
  /\ trip[t] = "booked"
  /\ trip' = [trip EXCEPT ![t] = "completed"]
  /\ \/ UNCHANGED tasks
     \/ (\E c \in Camps : camp[c].kind # "rider_promo") /\ tasks' = tasks \cup {t}
  /\ UNCHANGED <<approvalVars, camp, red, seen, counted, earned, sweeper>>

CancelTrip(t) ==
  /\ trip[t] = "booked"
  /\ trip' = [trip EXCEPT ![t] = "cancelled"]
  /\ UNCHANGED <<approvalVars, camp, red, tasks, seen, counted, earned, sweeper>>

\* In the settlement's transaction; a redemption that is not committed is skipped.
settle_trip(t) ==
  /\ trip[t] = "completed" /\ red[t].st = "committed"
  /\ camp' = [camp EXCEPT ![red[t].c] = settle(red[t].c, @, red[t].amt)]
  /\ red' = [red EXCEPT ![t].st = "settled"]
  /\ UNCHANGED <<approvalVars, trip, tasks, seen, counted, earned, sweeper>>

\* Mutant: a redemption already given back is given back again.
Released_twice(t) ==
  IF red[t].st = "none" \/ release_raises(red[t].c)
  THEN UNCHANGED <<camp, red>>
  ELSE /\ LET c == red[t].c IN
            camp' = [camp EXCEPT ![c] = release(c, [camp[c] EXCEPT !.uses = Less(@, 1)], red[t].amt)]
       /\ red' = [red EXCEPT ![t].st = "released"]

\* release_for_trip, for a redemption still committed; nothing is written when the release raises.
Released(t) ==
  IF red[t].st # "committed" \/ release_raises(red[t].c)
  THEN UNCHANGED <<camp, red>>
  ELSE /\ LET c == red[t].c IN
            camp' = [camp EXCEPT ![c] = release(c, [camp[c] EXCEPT !.uses = Less(@, 1)], red[t].amt)]
       /\ red' = [red EXCEPT ![t].st = "released"]

\* The callback of a cancellation over the socket; a killed process never runs it.
release_for_trip(t) ==
  /\ trip[t] = "cancelled" /\ red[t].st = "committed"
  /\ Released(t)
  /\ UNCHANGED <<approvalVars, trip, tasks, seen, counted, earned, sweeper>>

\* An operator ends the ride: the rider pays nothing and the reservation goes back (an error there
\* undoes the end), or the discount is worked out again on the capped fare and honoured.
apply_operator_end(t) ==
  /\ trip[t] = "booked"
  /\ \/ /\ trip' = [trip EXCEPT ![t] = "funded"]
        /\ red[t].st = "committed" => ~release_raises(red[t].c)
        /\ Released(t)
     \/ /\ trip' = [trip EXCEPT ![t] = "completed"]
        /\ IF red[t].st # "committed" THEN UNCHANGED <<camp, red>>
           ELSE \E new \in Discounts \cup {0} :
                  /\ camp' = [camp EXCEPT ![red[t].c] =
                                adjust_reservation(red[t].c, @, red[t].amt, new)]
                  /\ red' = [red EXCEPT ![t].amt = new]
  /\ UNCHANGED <<approvalVars, tasks, seen, counted, earned, sweeper>>

-----------------------------------------------------------------------------
(* Incentives and referrals: the task promotions.on_trip_completed.         *)

attach(c) ==
  /\ camp[c].kind = "referral" /\ camp[c].st = "live" /\ earned[c] = "none"
  /\ \A t \in Trips : trip[t] # "completed"
  /\ earned' = [earned EXCEPT ![c] = "in_progress"]
  /\ UNCHANGED <<approvalVars, camp, red, trip, tasks, seen, counted, sweeper>>

\* The campaigns to count toward are read without a lock: an incentive's must be live.
CountsToward(c) ==
  \/ camp[c].kind = "driver_incentive" /\ camp[c].st = "live"
  \/ camp[c].kind = "referral" /\ earned[c] = "in_progress"

on_trip_completed(c, t) ==
  /\ t \in tasks /\ <<c, t>> \notin seen
  /\ CountsToward(c)
  /\ seen' = seen \cup {<<c, t>>}
  /\ UNCHANGED <<approvalVars, camp, red, trip, tasks, counted, earned, sweeper>>

\* There is nothing to count toward.
TaskSkips(t) ==
  /\ t \in tasks /\ \A c \in Camps : <<c, t>> \notin seen /\ ~CountsToward(c)
  /\ tasks' = tasks \ {t}
  /\ UNCHANGED <<approvalVars, camp, red, trip, seen, counted, earned, sweeper>>

Pays(c, unpaid) ==
  IF admits(camp[c], Reward)
  THEN /\ camp' = [camp EXCEPT ![c] = spend_now(c, @, Reward)]
       /\ earned' = [earned EXCEPT ![c] = "completed"]
  ELSE UNCHANGED camp /\ earned' = [earned EXCEPT ![c] = unpaid]

\* An incentive that cannot be funded is closed unfunded.  A referral is blocked on a sign of abuse,
\* and stays qualified for the sweep while it cannot be funded or credited.
Qualified(c) ==
  \/ camp[c].kind = "driver_incentive" /\ Pays(c, "unfunded")
  \/ camp[c].kind = "referral" /\ Pays(c, "qualified")
  \/ /\ camp[c].kind = "referral" /\ UNCHANGED camp
     /\ \E e \in {"blocked", "qualified"} : earned' = [earned EXCEPT ![c] = e]

\* The unique (campaign, trip) row already exists; a referral that is not attached counts nothing.
AlreadyCounted(c, t) ==
  <<c, t>> \in counted \/ (camp[c].kind = "referral" /\ earned[c] # "in_progress")

\* count_trip, under the progress row's lock; the message is acknowledged or delivered again.
count_trip(c, t) ==
  /\ <<c, t>> \in seen
  /\ seen' = seen \ {<<c, t>>}
  /\ tasks' = tasks \ {t} \/ UNCHANGED tasks
  /\ IF AlreadyCounted(c, t)
     THEN UNCHANGED <<camp, counted, earned>>
     ELSE /\ counted' = counted \cup {<<c, t>>}
          /\ IF earned[c] = "in_progress" /\ Cardinality(counted') >= Target
             THEN Qualified(c)
             ELSE UNCHANGED <<camp, earned>>
  /\ UNCHANGED <<approvalVars, red, trip, sweeper>>

-----------------------------------------------------------------------------
(* The sweep: promotions.sweep, every five minutes.                         *)

\* Conditional updates, each in a transaction of its own with the serving row.
sweep_starts(c) ==
  /\ camp[c].phase = "open"
  /\ _transition(c, {"scheduled"}, "live", TRUE)

sweep_ends(c) ==
  /\ camp[c].phase = "passed"
  /\ _transition(c, LAUNCHED \ {"ended"}, "ended", FALSE)

\* Mutant: only the redemptions of campaigns that still run are looked at.
Stale_running ==
  {t \in Trips : /\ red[t].st = "committed" /\ trip[t] \in {"cancelled", "funded"}
                 /\ camp[red[t].c].st \notin {"ended", "cancelled"}}

Stale == {t \in Trips : red[t].st = "committed" /\ trip[t] \in {"cancelled", "funded"}}

release_cancelled ==
  /\ sweeper = {} /\ Stale # {}
  /\ sweeper' = Stale
  /\ UNCHANGED <<approvalVars, camp, red, trip, tasks, seen, counted, earned>>

\* One trip after the other, in no order; a release that raises ends the whole pass.
SweepReleases(t) ==
  /\ t \in sweeper
  /\ Released(t)
  /\ sweeper' = IF red[t].st = "committed" /\ release_raises(red[t].c) THEN {} ELSE sweeper \ {t}
  /\ UNCHANGED <<approvalVars, trip, tasks, seen, counted, earned>>

\* At its end, referrals that qualified and could not be paid are tried again while their campaign
\* is live; a credit the wallet refuses leaves them qualified.
retry_qualified ==
  /\ sweeper = {}
  /\ \E c \in Camps : earned[c] = "qualified" /\ camp[c].st = "live" /\ Pays(c, "qualified")
  /\ UNCHANGED <<approvalVars, red, trip, tasks, seen, counted, sweeper>>

-----------------------------------------------------------------------------

WorkflowStep(c) ==
  \/ update_draft(c) \/ pause(c) \/ resume(c) \/ cancel_campaign(c) \/ WindowMoves(c)
  \/ sweep_starts(c) \/ sweep_ends(c) \/ attach(c)
  \/ \E o \in Makers : propose_launch(c, o) \/ propose_budget_increase(c, o)

ApprovalStep(r) ==
  \/ \E o \in Operators : approve(r, o) /\ UNCHANGED campaignVars
  \/ \E o \in Operators : (reject(r, o) \/ cancel(r, o)) /\ launch_request_closed(r)
  \/ expire_stale(r) /\ launch_request_closed(r)
  \/ execute_launch(r) \/ execute_budget_increase(r)
  \/ (_finish(r) \/ RunnerDies(r)) /\ UNCHANGED campaignVars

TripStep(t) ==
  \/ CompleteTrip(t) \/ CancelTrip(t) \/ settle_trip(t) \/ release_for_trip(t)
  \/ apply_operator_end(t) \/ TaskSkips(t)
  \/ \E c \in Camps :
       \/ \E a \in Discounts : redeem_promo(t, c, a)
       \/ on_trip_completed(c, t) \/ count_trip(c, t)

Sweep == release_cancelled \/ retry_qualified \/ \E t \in Trips : SweepReleases(t)

CampaignNext ==
  \/ \E c \in Camps : WorkflowStep(c)
  \/ \E r \in Requests : ApprovalStep(r)
  \/ \E t \in Trips : TripStep(t)
  \/ Sweep

\* Only the sweep is promised to run: Celery beat starts it every five minutes and a lost run is
\* followed by the next.
CampaignSpec ==
  /\ ApprovalInit /\ CampaignInit
  /\ [][CampaignNext]_<<approvalVars, campaignVars>>
  /\ WF_<<approvalVars, campaignVars>>(Sweep)

-----------------------------------------------------------------------------
CampaignTypeOK ==
  /\ camp \in [Camps -> [kind : Kinds, st : OPEN_STATES \cup {"ended", "cancelled"},
                         cfg : Nat, window : Nat, phase : {"before", "open", "passed"},
                         budget : Int, committed : Nat, spent : Nat, over : Nat,
                         serving : BOOLEAN, uses : Nat]]
  /\ red \in [Trips -> [st : {"none", "committed", "settled", "released"},
                        amt : Discounts \cup {0}, c : Camps]]
  /\ trip \in [Trips -> {"booked", "completed", "cancelled", "funded"}]
  /\ tasks \subseteq Trips /\ seen \subseteq Camps \X Trips /\ counted \subseteq Camps \X Trips
  /\ earned \in [Camps -> {"none", "in_progress", "completed", "unfunded", "qualified", "blocked"}]
  /\ sweeper \subseteq Trips

\* A launched campaign runs on exactly the terms and the window a second person approved: no edit
\* slips in between submission and launch, although execute_launch compares only part of them.
LaunchedAsApproved ==
  \A c \in Camps \ Legacy :
    camp[c].st \in LAUNCHED =>
      \E r \in Requests : ran[r] = 1 /\ req[r].key = LaunchKey(c)

SumOver(c, st) == MapThenSumSet(LAMBDA t : red[t].amt, {t \in Trips : red[t].c = c /\ red[t].st = st})

\* The campaign's counters are what the redemption and reward rows say, whatever order bookings,
\* settlements, cancellations, operator ends, redelivered trips and the sweep come in, the code's
\* use count is the redemptions not given back, and usage beyond the budget is on record.
BudgetBalances ==
  \A c \in Camps :
    /\ camp[c].committed = SumOver(c, "committed")
    /\ camp[c].spent = SumOver(c, "settled") + (IF earned[c] = "completed" THEN Reward ELSE 0)
    /\ camp[c].uses = Cardinality({t \in Trips : red[t].c = c /\ red[t].st \in {"committed", "settled"}})
    /\ Budgeted(c) => Used(camp[c]) <= camp[c].budget + camp[c].over

\* The discount a cancelled ride held goes back to its campaign, even when the process that
\* cancelled the ride dies before its callback, and whatever state the campaign is in by then.
ReservationsReturn ==
  LET Held == {t \in Trips : trip[t] = "cancelled" /\ red[t].st = "committed"} IN
    Held # {} ~> Held = {}

=============================================================================
