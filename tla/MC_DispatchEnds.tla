-------------------------- MODULE MC_DispatchEnds --------------------------
(* What must come to an end: the search for a driver, the time on the road *)
(* of a driver who was deactivated, and a support ticket's wait on its      *)
(* user.  The first two share only the index of available drivers, which a  *)
(* search reads without trusting it (any driver may be found), so the three *)
(* stand side by side: a behaviour is one component's and the others stay   *)
(* as they began.                                                           *)
EXTENDS Dispatch, DriverPresence, SupportTickets

VARIABLE active

\* Days to resolve a ticket, by priority.
ResolveIn == [normal |-> 2, urgent |-> 1]

EndsInit ==
  /\ active \in {"dispatch", "presence", "support"}
  /\ DispatchInit /\ PresenceInit /\ SupportInit

EndsNext ==
  /\ UNCHANGED active
  /\ \/ active = "dispatch" /\ DispatchNext /\ UNCHANGED <<presenceVars, supportVars>>
     \/ active = "presence" /\ PresenceNext /\ UNCHANGED <<allVars, supportVars>>
     \/ active = "support" /\ SupportNext /\ UNCHANGED <<allVars, presenceVars>>

\* Each component's own fairness, while the behaviour is its own.
EndsFairness ==
  /\ \A w \in Workers :
       /\ WF_allVars(active = "dispatch" /\ WaveStep(w))
       /\ WF_allVars(active = "dispatch" /\ \E k \in Tasks : TakeTask(w, k))
  /\ \A p \in Procs : WF_allVars(active = "dispatch" /\ JobStep(p))
  /\ \A s \in Sockets : WF_presenceVars(active = "presence" /\ SocketStep(s))
  /\ WF_supportVars(active = "support" /\ DayPasses)
  /\ WF_supportVars(active = "support" /\ sweep_waiting)

EndsSpec ==
  EndsInit /\ [][EndsNext]_<<active, allVars, presenceVars, supportVars>> /\ EndsFairness
=============================================================================
