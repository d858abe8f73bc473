--------------------------- MODULE MC_Backoffice ---------------------------
(* The back-office components side by side.  They share nothing but the     *)
(* maker-checker service, and each raises requests under keys of its own,   *)
(* so a behaviour is one component's: `active` says whose, and the others   *)
(* stay in their initial states.                                            *)
EXTENDS Campaigns, Outreach, NotificationOutbox, SafetyCases

VARIABLE active

vars == <<active, approvalVars, campaignVars, outreachVars, outboxVars, safetyVars>>

Init ==
  /\ active \in {"campaigns", "outreach", "outbox", "safety"}
  /\ ApprovalInit /\ CampaignInit /\ OutreachInit /\ OutboxInit /\ SafetyInit
  /\ active # "campaigns" => \A c \in Camps : camp[c].kind = "rider_promo"
  /\ active # "outbox" => ~night /\ consent

Only(name) == active = name /\ UNCHANGED active

Next ==
  \/ /\ Only("campaigns") /\ CampaignNext
     /\ UNCHANGED <<outreachVars, outboxVars, safetyVars>>
  \/ /\ Only("outreach") /\ OutreachNext
     /\ UNCHANGED <<campaignVars, outboxVars, safetyVars>>
  \/ /\ Only("outbox") /\ OutboxNext
     /\ UNCHANGED <<approvalVars, campaignVars, outreachVars, safetyVars>>
  \/ /\ Only("safety") /\ SafetyNext
     /\ UNCHANGED <<approvalVars, campaignVars, outreachVars, outboxVars>>

\* Each component's own fairness, while the behaviour is its own.
Fairness ==
  /\ WF_campaignVars(active = "campaigns" /\ Sweep)
  /\ WF_outreachVars(active = "outreach" /\ ScheduledTimeComes)
  /\ \A x \in Expanders : WF_outreachVars(active = "outreach" /\ ExpanderStep(x))
  /\ \A w \in Senders : WF_outboxVars(active = "outbox" /\ SenderStep(w))
  /\ \A m \in Messages : WF_outboxVars(active = "outbox" /\ BeatStep(m))
  /\ WF_outboxVars(active = "outbox" /\ night /\ in_quiet_hours)
  /\ \A s \in SosEvents :
       /\ WF_safetyVars(active = "safety" /\ backfill_sos_incidents(s))
       /\ WF_safetyVars(active = "safety" /\ escalate_sos(s))

Spec == Init /\ [][Next]_vars /\ Fairness
=============================================================================
