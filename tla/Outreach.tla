------------------------------ MODULE Outreach ------------------------------
(* Notification templates and the bulk campaigns that send them.  Template  *)
(* versions and campaigns are drafted by one person and approved by         *)
(* another; a scheduled campaign is expanded into one outbox row per        *)
(* recipient by a task that may die half way and be run again, or twice at  *)
(* once.                                                                    *)
EXTENDS Approvals

CONSTANTS Versions,  \* versions of one template: the first is active, the rest drafts
          First,
          Audience,  \* contactable users who opted in
          Expanders, \* workers that run run_campaign
          MaxChanges, \* bound: edits of each draft
          MaxLostRuns \* bound: expansions killed half way

ASSUME OutreachConstants ==
  /\ First \in Versions /\ IsFiniteSet(Versions) /\ IsFiniteSet(Audience)
  /\ IsFiniteSet(Expanders) /\ MaxChanges \in Nat /\ MaxLostRuns \in Nat

VARIABLES tmpl,     \* NotificationTemplate rows
          bulk,     \* the Campaign row; `at` says whether its scheduled time has come
          outbox,   \* the NotificationMessage row of each recipient: <<>>, or what it carries
          expander, \* each worker's run: the recipients it has left
          lostRuns
outreachVars == <<tmpl, bulk, outbox, expander, lostRuns>>

OutreachInit ==
  /\ tmpl = [v \in Versions |-> [st |-> IF v = First THEN "active" ELSE "draft", copy |-> 0]]
  /\ bulk = [st |-> "draft", edit |-> 0, v |-> First, at |-> FALSE]
  /\ outbox = [u \in Audience |-> <<>>]
  /\ expander = [x \in Expanders |-> [on |-> FALSE, left |-> {}]]
  /\ lostRuns = 0

-----------------------------------------------------------------------------
(* Templates.                                                               *)

update_template_draft(v) ==
  /\ tmpl[v].st = "draft" /\ tmpl[v].copy < MaxChanges
  /\ tmpl' = [tmpl EXCEPT ![v].copy = @ + 1]
  /\ UNCHANGED <<approvalVars, bulk, outbox, expander, lostRuns>>

\* Under the row's lock.  The copy is in the key here to say what the checker saw: the version's
\* key is free again whenever its copy can change.
propose_activation(v, o) ==
  /\ tmpl[v].st = "draft"
  /\ \E r \in Requests : require_approval_or_execute(o, <<"activate", v, tmpl[v].copy>>, TRUE, r)
  /\ tmpl' = [tmpl EXCEPT ![v].st = "pending"]
  /\ UNCHANGED <<bulk, outbox, expander, lostRuns>>

propose_archive(v, o) ==
  /\ tmpl[v].st = "active"
  /\ \E r \in Requests : require_approval_or_execute(o, <<"archive", v>>, TRUE, r)
  /\ UNCHANGED outreachVars

\* Activation archives the version in force.  It is refused too when the version no longer passes
\* its checks, or when another activation came between (one active version, by a unique index).
execute_template_change(r) ==
  LET v == req[r].key[2]
      activates == req[r].key[1] = "activate" IN
    /\ runner[r] = "run" /\ req[r].key[1] \in {"activate", "archive"}
    /\ \/ /\ activates /\ tmpl[v].st = "pending" /\ Executes(r)
          /\ tmpl' = [w \in Versions |->
                        IF w = v THEN [tmpl[w] EXCEPT !.st = "active"]
                        ELSE [tmpl[w] EXCEPT !.st = IF @ = "active" THEN "archived" ELSE @]]
       \/ /\ ~activates /\ tmpl[v].st = "active" /\ Executes(r)
          /\ tmpl' = [tmpl EXCEPT ![v].st = "archived"]
       \/ /\ activates \/ tmpl[v].st # "active"
          /\ Refuses(r) /\ UNCHANGED tmpl
    /\ UNCHANGED <<bulk, outbox, expander, lostRuns>>

-----------------------------------------------------------------------------
(* The campaign.                                                            *)

\* Mutant: a campaign waiting for its checker can still be edited.
update_campaign_draft_pending ==
  /\ bulk.st \in {"draft", "pending"} /\ bulk.edit < MaxChanges
  /\ \E v \in Versions :
       /\ tmpl[v].st = "active"
       /\ bulk' = [bulk EXCEPT !.edit = @ + 1, !.v = v]
  /\ UNCHANGED <<approvalVars, tmpl, outbox, expander, lostRuns>>

\* The audience, the values or the template, which must be in force.
update_campaign_draft ==
  /\ bulk.st = "draft" /\ bulk.edit < MaxChanges
  /\ \E v \in Versions :
       /\ tmpl[v].st = "active"
       /\ bulk' = [bulk EXCEPT !.edit = @ + 1, !.v = v]
  /\ UNCHANGED <<approvalVars, tmpl, outbox, expander, lostRuns>>

SendKey == <<"send", bulk.v, bulk.edit>>

propose_send(o) ==
  /\ bulk.st = "draft" /\ tmpl[bulk.v].st = "active"
  /\ \E r \in Requests : require_approval_or_execute(o, SendKey, TRUE, r)
  /\ bulk' = [bulk EXCEPT !.st = "pending"]
  /\ UNCHANGED <<tmpl, outbox, expander, lostRuns>>

\* Until it starts sending.  Its open request is withdrawn afterwards, if the canceller is its maker.
cancel_bulk ==
  /\ bulk.st \in {"draft", "pending", "scheduled"}
  /\ bulk' = [bulk EXCEPT !.st = "cancelled"]
  /\ UNCHANGED <<approvalVars, tmpl, outbox, expander, lostRuns>>

execute_campaign_send(r) ==
  LET ok == bulk.st = "pending" /\ tmpl[bulk.v].st = "active" /\ bulk.v = req[r].key[2] IN
    /\ runner[r] = "run" /\ req[r].key[1] = "send"
    /\ \/ ok /\ Executes(r) /\ bulk' = [bulk EXCEPT !.st = "scheduled"]
       \/ ~ok /\ Refuses(r) /\ UNCHANGED bulk
    /\ UNCHANGED <<tmpl, outbox, expander, lostRuns>>

\* template_request_closed and campaign_request_closed, in the closing transaction.
outreach_request_closed(r) ==
  LET k == req[r].key[1] IN
    /\ tmpl' = IF k = "send" THEN tmpl
               ELSE [tmpl EXCEPT ![req[r].key[2]].st = IF @ = "pending" THEN "draft" ELSE @]
    /\ bulk' = IF k # "send" THEN bulk
               ELSE [bulk EXCEPT !.st = IF @ = "pending" THEN "draft" ELSE @]
    /\ UNCHANGED <<outbox, expander, lostRuns>>

ScheduledTimeComes ==
  /\ ~bulk.at /\ bulk' = [bulk EXCEPT !.at = TRUE]
  /\ UNCHANGED <<approvalVars, tmpl, outbox, expander, lostRuns>>

-----------------------------------------------------------------------------
(* The expansion: run_campaign, started on commit or by the beat sweep.     *)

\* The run that claims the campaign starts it; a run that finds it "sending" joins in.
start(x) ==
  /\ ~expander[x].on
  /\ (bulk.st = "scheduled" /\ bulk.at) \/ bulk.st = "sending"
  /\ bulk' = [bulk EXCEPT !.st = "sending"]
  /\ expander' = [expander EXCEPT ![x] = [on |-> TRUE, left |-> Audience]]
  /\ UNCHANGED <<approvalVars, tmpl, outbox, lostRuns>>

\* The row is written once per (campaign, user): a second writer finds the first's.
Enqueues(x) ==
  /\ expander[x].on
  /\ \E u \in expander[x].left :
       /\ expander' = [expander EXCEPT ![x].left = @ \ {u}]
       /\ outbox' = [outbox EXCEPT ![u] =
                       IF @ = <<>> THEN <<bulk.v, tmpl[bulk.v].copy, bulk.edit>> ELSE @]
  /\ UNCHANGED <<approvalVars, tmpl, bulk, lostRuns>>

\* Mutant: the campaign is marked as sent by whoever looks at it.
Expanded_early(x) ==
  /\ expander[x].on
  /\ bulk' = [bulk EXCEPT !.st = "sent"]
  /\ expander' = [expander EXCEPT ![x].on = FALSE]
  /\ UNCHANGED <<approvalVars, tmpl, outbox, lostRuns>>

Expanded(x) ==
  /\ expander[x].on /\ expander[x].left = {}
  /\ bulk' = [bulk EXCEPT !.st = "sent"]
  /\ expander' = [expander EXCEPT ![x].on = FALSE]
  /\ UNCHANGED <<approvalVars, tmpl, outbox, lostRuns>>

\* Beat starts a campaign again that has been "sending" for too long.
RunDies(x) ==
  /\ expander[x].on /\ lostRuns < MaxLostRuns
  /\ expander' = [expander EXCEPT ![x] = [on |-> FALSE, left |-> {}]]
  /\ lostRuns' = lostRuns + 1
  /\ UNCHANGED <<approvalVars, tmpl, bulk, outbox>>

-----------------------------------------------------------------------------
ExpanderStep(x) == start(x) \/ Enqueues(x) \/ Expanded(x)

OutreachNext ==
  \/ \E v \in Versions :
       \/ update_template_draft(v)
       \/ \E o \in Makers : propose_activation(v, o) \/ propose_archive(v, o)
  \/ update_campaign_draft \/ cancel_bulk \/ ScheduledTimeComes
  \/ \E o \in Makers : propose_send(o)
  \/ \E x \in Expanders : ExpanderStep(x) \/ RunDies(x)
  \/ \E r \in Requests :
       \/ \E o \in Operators : approve(r, o) /\ UNCHANGED outreachVars
       \/ \E o \in Operators : (reject(r, o) \/ cancel(r, o)) /\ outreach_request_closed(r)
       \/ expire_stale(r) /\ outreach_request_closed(r)
       \/ execute_template_change(r) \/ execute_campaign_send(r)
       \/ (_finish(r) \/ RunnerDies(r)) /\ UNCHANGED outreachVars

\* Time passes, beat starts what is due or stuck, and a run goes on.
OutreachFairness ==
  /\ WF_<<approvalVars, outreachVars>>(ScheduledTimeComes)
  /\ \A x \in Expanders : WF_<<approvalVars, outreachVars>>(ExpanderStep(x))
OutreachSpec ==
  ApprovalInit /\ OutreachInit /\ [][OutreachNext]_<<approvalVars, outreachVars>> /\ OutreachFairness

OutreachTypeOK ==
  /\ tmpl \in [Versions -> [st : {"draft", "pending", "active", "archived"}, copy : Nat]]
  /\ bulk \in [st : {"draft", "pending", "scheduled", "sending", "sent", "cancelled"},
               edit : Nat, v : Versions, at : BOOLEAN]
  /\ \A u \in Audience : outbox[u] = <<>> \/ outbox[u] \in Versions \X Nat \X Nat
  /\ expander \in [Expanders -> [on : BOOLEAN, left : SUBSET Audience]]
  /\ lostRuns \in Nat

\* Every row of the outbox carries what two approvals covered: the campaign as it was submitted, on
\* a template version with exactly the copy its own checker saw, although both rows are drafts that
\* can be edited, sent back and submitted again, and versions replace each other meanwhile.
SentAsApproved ==
  \A u \in Audience : outbox[u] # <<>> =>
    LET v == outbox[u][1] IN
      /\ \E r \in Requests : ran[r] = 1 /\ req[r].key = <<"send", v, outbox[u][3]>>
      /\ v = First \/ \E r \in Requests : ran[r] = 1 /\ req[r].key = <<"activate", v, outbox[u][2]>>

\* An approved campaign that nobody cancels reaches its whole audience before it counts as sent,
\* even if runs die half way and two of them work side by side.
AudienceReached ==
  (bulk.st = "scheduled") ~>
    (bulk.st = "cancelled" \/ (bulk.st = "sent" /\ \A u \in Audience : outbox[u] # <<>>))
=============================================================================
