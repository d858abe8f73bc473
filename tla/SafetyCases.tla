---------------------------- MODULE SafetyCases ----------------------------
(* SOS alerts and the case files responders work them from.  An SOS joins   *)
(* the live case of its trip or opens one; responders take, resolve or      *)
(* dismiss it and close the case; a sweep every minute gives a case to an   *)
(* SOS whose attachment failed and escalates what nobody has taken.  The    *)
(* live case is looked up without a lock, so it may be closed before the    *)
(* SOS that joins it commits.                                               *)
EXTENDS Naturals

CONSTANTS SosEvents,  \* SOSEvent rows
          OnTrip,     \* those raised on the trip; the others have none
          Cases,      \* SafetyIncident rows (bound: one per SOS and one for the signal)
          NoCase,
          MaxFails    \* bound: attachments that fail

ASSUME SafetyConstants ==
  OnTrip \subseteq SosEvents /\ NoCase \notin Cases \cup {"no", "new"} /\ MaxFails \in Nat

VARIABLES sos,       \* SOSEvent rows
          cases,     \* SafetyIncident rows
          opening,   \* the case an attachment under way found: no (idle), new, or a case
          sosAlert,  \* the open operator alert keyed by the SOS
          caseAlert, \* the open operator alert keyed by the case, by its kind
          signal,    \* the trip's SafetySignal: none, open, promoted, dismissed
          fails
safetyVars == <<sos, cases, opening, sosAlert, caseAlert, signal, fails>>

LIVE_STATUSES == {"open", "investigating", "action_taken"}
ActiveSos == {"open", "acknowledged"}

SafetyInit ==
  /\ sos = [s \in SosEvents |-> [st |-> "none", case |-> NoCase, esc |-> FALSE]]
  /\ cases = [i \in Cases |-> [st |-> "none", trip |-> FALSE, critical |-> FALSE,
                               assigned |-> FALSE, esc |-> FALSE]]
  /\ opening = [s \in SosEvents |-> "no"]
  /\ sosAlert = [s \in SosEvents |-> FALSE]
  /\ caseAlert = [i \in Cases |-> "none"]
  /\ signal = "none" /\ fails = 0

SosOf(i, st) == {s \in SosEvents : sos[s].case = i /\ sos[s].st \in st}

-----------------------------------------------------------------------------
(* Alerts: one open alert per event, raised in place when the new one is    *)
(* worse; of the kinds here only a signal's is less than critical.          *)

raise_alert(kind, open) ==
  IF open = "none" \/ (open = "signal" /\ kind # "signal") THEN kind ELSE open

clear_alerts(i, kinds) == [caseAlert EXCEPT ![i] = IF @ \in kinds THEN "none" ELSE @]

-----------------------------------------------------------------------------
(* Opening a case.                                                          *)

open_incident_for_trip == {i \in Cases : cases[i].trip /\ cases[i].st \in LIVE_STATUSES}

NewCases == {i \in Cases : cases[i].st = "none"}

Opened(i, onTrip, crit) ==
  [cases EXCEPT ![i] = [st |-> "open", trip |-> onTrip, critical |-> crit,
                        assigned |-> FALSE, esc |-> FALSE]]

\* Joining raises the severity and touches nothing else of the row, closed or not.
_raise_severity(i, crit) == [cases EXCEPT ![i].critical = @ \/ crit]

\* raise_sos inserts the row, or the sweep picks one without a case; the look-up is a plain read.
AttachReads(s) ==
  /\ opening[s] = "no"
  /\ sos[s].st = "none" \/ (sos[s].case = NoCase /\ sos[s].st \in ActiveSos)
  /\ opening' = [opening EXCEPT ![s] =
                   IF s \in OnTrip /\ open_incident_for_trip # {}
                   THEN CHOOSE i \in open_incident_for_trip : TRUE ELSE "new"]
  /\ UNCHANGED <<sos, cases, sosAlert, caseAlert, signal, fails>>

\* Join the case found; else insert one; else, by the unique index, join the winner of the race.
open_incident(s, i, crit) ==
  \/ opening[s] = i /\ cases' = _raise_severity(i, crit)
  \/ /\ opening[s] = "new" /\ (s \in OnTrip => open_incident_for_trip = {})
     /\ i \in NewCases /\ cases' = Opened(i, s \in OnTrip, crit)
  \/ /\ opening[s] = "new" /\ s \in OnTrip /\ i \in open_incident_for_trip
     /\ cases' = _raise_severity(i, crit)

\* A new SOS and its case commit together; one that cannot be placed in a city carries an alert.
attach_sos(s) ==
  /\ opening[s] # "no"
  /\ \E i \in Cases, crit \in BOOLEAN :
       /\ open_incident(s, i, crit)
       /\ sos' = [sos EXCEPT ![s].case = i, ![s].st = IF @ = "none" THEN "open" ELSE @]
  /\ sosAlert' \in IF sos[s].st = "none" THEN {sosAlert, [sosAlert EXCEPT ![s] = TRUE]} ELSE {sosAlert}
  /\ opening' = [opening EXCEPT ![s] = "no"]
  /\ UNCHANGED <<caseAlert, signal, fails>>

\* attach_sos_safely: an attachment that fails never fails the SOS.
AttachFails(s) ==
  /\ opening[s] # "no" /\ fails < MaxFails
  /\ fails' = fails + 1
  /\ sos' = [sos EXCEPT ![s].st = IF @ = "none" THEN "open" ELSE @]
  /\ opening' = [opening EXCEPT ![s] = "no"]
  /\ UNCHANGED <<cases, sosAlert, caseAlert, signal>>

\* evaluate records a measured signal; past the country's incident line it is promoted, once.
evaluate ==
  /\ signal = "none" /\ signal' = "open"
  /\ UNCHANGED <<sos, cases, opening, sosAlert, caseAlert, fails>>

_promote ==
  /\ signal = "open" /\ signal' = "promoted"
  /\ \E i \in IF open_incident_for_trip # {} THEN open_incident_for_trip ELSE NewCases :
       /\ cases' = IF i \in NewCases THEN Opened(i, TRUE, FALSE) ELSE cases
       /\ caseAlert' = [caseAlert EXCEPT ![i] = raise_alert("signal", @)]
  /\ UNCHANGED <<sos, opening, sosAlert, fails>>

safety_dismiss_signal ==
  /\ signal = "open" /\ signal' = "dismissed"
  /\ UNCHANGED <<sos, cases, opening, sosAlert, caseAlert, fails>>

-----------------------------------------------------------------------------
(* Working it.                                                              *)

\* The case's "not acknowledged" alert ends when none of its SOS is open any more.
ClearedBy(i, moved) ==
  IF SosOf(i, {"open"}) \ moved = {} THEN clear_alerts(i, {"escalated"}) ELSE caseAlert

\* The one write path of an SOS's status.  Nothing orders the targets: a resolved SOS may be taken
\* again, on a case that may be closed.
_apply_transition(s, target) ==
  LET i == sos[s].case IN
    /\ sos[s].st \notin {"none", target}
    /\ sos' = [sos EXCEPT ![s].st = target]
    /\ sosAlert' = [sosAlert EXCEPT ![s] = FALSE]
    /\ IF i = NoCase THEN UNCHANGED <<cases, caseAlert>>
       ELSE /\ caseAlert' = ClearedBy(i, {s})
            /\ cases' = [cases EXCEPT ![i].st =
                           IF target = "acknowledged" /\ @ = "open" THEN "investigating" ELSE @]
    /\ UNCHANGED <<opening, signal, fails>>

Moved(ss, target) == [s \in SosEvents |-> IF s \in ss THEN [sos[s] EXCEPT !.st = target] ELSE sos[s]]

safety_acknowledge(i) ==
  LET moved == SosOf(i, {"open"}) IN
    /\ cases[i].st \in LIVE_STATUSES
    /\ sos' = Moved(moved, "acknowledged")
    /\ sosAlert' = [s \in SosEvents |-> sosAlert[s] /\ s \notin moved]
    /\ caseAlert' = IF moved = {} THEN caseAlert ELSE ClearedBy(i, moved)
    /\ cases' = [cases EXCEPT ![i].st = IF @ = "open" THEN "investigating" ELSE @]
    /\ UNCHANGED <<opening, signal, fails>>

close_incident(i) ==
  /\ cases' = [cases EXCEPT ![i].st = "closed"]
  /\ caseAlert' = [caseAlert EXCEPT ![i] = "none"]
  /\ sosAlert' = [s \in SosEvents |-> sosAlert[s] /\ sos[s].case # i]
  /\ UNCHANGED <<opening, signal, fails>>

\* safety_resolve and safety_false_alarm: every active SOS of the case first, then the case.
_finish_case(i, target) ==
  /\ cases[i].st \in LIVE_STATUSES
  /\ sos' = Moved(SosOf(i, ActiveSos), target)
  /\ close_incident(i)

\* Refused while a linked SOS is active.
safety_close(i) ==
  /\ cases[i].st \in LIVE_STATUSES /\ SosOf(i, ActiveSos) = {}
  /\ close_incident(i) /\ UNCHANGED sos

\* The status endpoint, and refer_to_police, which moves on to action_taken.
safety_set_status(i, new) ==
  /\ cases[i].st \in LIVE_STATUSES \ {new}
  /\ cases' = [cases EXCEPT ![i].st = new]
  /\ UNCHANGED <<sos, opening, sosAlert, caseAlert, signal, fails>>

assign(i, somebody) ==
  /\ cases[i].st \in LIVE_STATUSES /\ cases[i].assigned # somebody
  /\ cases' = [cases EXCEPT ![i].assigned = somebody]
  /\ caseAlert' = IF somebody THEN clear_alerts(i, {"unassigned"}) ELSE caseAlert
  /\ UNCHANGED <<sos, opening, sosAlert, signal, fails>>

-----------------------------------------------------------------------------
(* The escalation sweep, for a country that has set its minutes.            *)

Escalated(s) ==
  LET i == sos[s].case IN
    /\ sos' = [sos EXCEPT ![s].esc = TRUE]
    /\ caseAlert' = IF i = NoCase THEN caseAlert
                    ELSE [caseAlert EXCEPT ![i] = raise_alert("escalated", @)]
    /\ sosAlert' = [sosAlert EXCEPT ![s] = (i = NoCase)]
    /\ UNCHANGED <<cases, opening, signal, fails>>

\* Mutant: the SOS of a closed case is taken for settled.
escalate_sos_live_case(s) ==
  /\ sos[s].st = "open" /\ ~sos[s].esc
  /\ sos[s].case # NoCase => cases[sos[s].case].st # "closed"
  /\ Escalated(s)

\* Won by a conditional update; one alert, keyed by the case when there is one.
escalate_sos(s) ==
  /\ sos[s].st = "open" /\ ~sos[s].esc
  /\ Escalated(s)

escalate_incident(i) ==
  /\ cases[i].st \in LIVE_STATUSES /\ cases[i].critical
  /\ ~cases[i].assigned /\ ~cases[i].esc
  /\ cases' = [cases EXCEPT ![i].esc = TRUE]
  /\ caseAlert' = [caseAlert EXCEPT ![i] = raise_alert("unassigned", @)]
  /\ UNCHANGED <<sos, opening, sosAlert, signal, fails>>

\* backfill_sos_incidents attaches the SOS that have no case; a resolved one is left without.
backfill_sos_incidents(s) ==
  /\ sos[s].st # "none"
  /\ AttachReads(s) \/ attach_sos(s) \/ AttachFails(s)

-----------------------------------------------------------------------------

CaseStep(i) ==
  \/ safety_acknowledge(i) \/ safety_close(i) \/ escalate_incident(i)
  \/ \E target \in {"resolved", "false_alarm"} : _finish_case(i, target)
  \/ \E new \in LIVE_STATUSES : safety_set_status(i, new)
  \/ \E somebody \in BOOLEAN : assign(i, somebody)

SosStep(s) ==
  \/ sos[s].st = "none" /\ (AttachReads(s) \/ attach_sos(s) \/ AttachFails(s))
  \/ backfill_sos_incidents(s) \/ escalate_sos(s)
  \/ \E target \in {"acknowledged", "resolved", "false_alarm"} : _apply_transition(s, target)

SafetyNext ==
  \/ \E s \in SosEvents : SosStep(s)
  \/ \E i \in Cases : CaseStep(i)
  \/ evaluate \/ _promote \/ safety_dismiss_signal

\* The sweep runs every minute and takes every SOS in turn; nobody is promised to answer one.
SafetyFairness ==
  \A s \in SosEvents : WF_safetyVars(backfill_sos_incidents(s)) /\ WF_safetyVars(escalate_sos(s))

SafetySpec == SafetyInit /\ [][SafetyNext]_safetyVars /\ SafetyFairness

-----------------------------------------------------------------------------
SafetyTypeOK ==
  /\ sos \in [SosEvents -> [st : {"none", "resolved", "false_alarm"} \cup ActiveSos,
                            case : Cases \cup {NoCase}, esc : BOOLEAN]]
  /\ cases \in [Cases -> [st : {"none", "closed"} \cup LIVE_STATUSES, trip : BOOLEAN,
                          critical : BOOLEAN, assigned : BOOLEAN, esc : BOOLEAN]]
  /\ opening \in [SosEvents -> {"no", "new"} \cup Cases]
  /\ sosAlert \in [SosEvents -> BOOLEAN]
  /\ caseAlert \in [Cases -> {"none", "signal", "escalated", "unassigned"}]
  /\ signal \in {"none", "open", "promoted", "dismissed"} /\ fails \in Nat

\* An SOS nobody takes does not stay unseen: it ends up on a case and escalated, even when its
\* attachment failed, and even when the case it was joining was closed under it
\* (sweep gives it a case, and escalate_sos looks at the SOS and never at the case).
EverySosIsSeen ==
  \A s \in SosEvents :
    (sos[s].st = "open") ~> (sos[s].st # "open" \/ (sos[s].esc /\ sos[s].case # NoCase))
=============================================================================
