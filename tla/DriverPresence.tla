--------------------------- MODULE DriverPresence ---------------------------
(* Who may be on the road.  Operators suspend, reinstate, approve and       *)
(* deactivate a driver under the Driver row's lock and then, best effort,   *)
(* drop the driver from the dispatch index and tell its sockets.  The       *)
(* sockets go on meanwhile: going online writes the status from a Driver    *)
(* loaded at connect, a working session is opened by a read and a write,    *)
(* and the index is written after a fresh read of the row.                  *)
EXTENDS Naturals, FiniteSets

CONSTANTS Sockets, \* connections of one driver (an app that reconnects has two for a while)
          Qa       \* a test driver's simulated eligibility, honoured only in a QA environment

ASSUME PresenceConstants == IsFiniteSet(Sockets) /\ Qa \in BOOLEAN

VARIABLES drv,       \* the Driver row and its open suspension
          locked,    \* a fatigue or cancellation lockout is in force
          onRoad,    \* the driver is in the dispatch geo index
          sock,      \* each connection: what it is doing, whether it joined the driver's group
          sessions,  \* open DriverSession rows
          dropping   \* a suspension has committed and its callback has not run
presenceVars == <<drv, locked, onRoad, sock, sessions, dropping>>

PresenceInit ==
  /\ drv = [st |-> "off", approved |-> FALSE, prev |-> FALSE, susp |-> "none", kyc |-> TRUE]
  /\ locked = FALSE /\ onRoad = FALSE /\ dropping = FALSE
  /\ sock = [s \in Sockets |-> [pc |-> "closed", grouped |-> FALSE, told |-> FALSE]]
  /\ sessions = 0

may_operate == drv.approved \/ Qa
is_dispatchable == drv.st # "blocked" /\ may_operate

Goes(s, pc) == sock' = [sock EXCEPT ![s].pc = pc]

-----------------------------------------------------------------------------
(* Operators.                                                               *)

\* Refused while suspended and while the documents do not pass.
admin_approve_driver ==
  /\ ~drv.approved /\ drv.susp = "none" /\ drv.kyc
  /\ drv' = [drv EXCEPT !.approved = TRUE]
  /\ UNCHANGED <<locked, onRoad, sock, sessions, dropping>>

\* A document is rejected, expires or is accepted; approval itself is not withdrawn.
admin_review_document ==
  /\ drv' = [drv EXCEPT !.kyc = ~@]
  /\ UNCHANGED <<locked, onRoad, sock, sessions, dropping>>

_take_off_the_road == dropping' = TRUE

operator_suspend ==
  /\ drv.susp = "none"
  /\ drv' = [drv EXCEPT !.susp = "suspended", !.prev = drv.approved,
                        !.approved = FALSE, !.st = "blocked"]
  /\ _take_off_the_road
  /\ UNCHANGED <<locked, onRoad, sock, sessions>>

\* Mutant: a permanent deactivation can be lifted like a suspension.
operator_reinstate_any ==
  /\ drv.susp # "none"
  /\ drv' = [drv EXCEPT !.susp = "none", !.approved = drv.prev /\ drv.kyc, !.st = "off"]
  /\ UNCHANGED <<locked, onRoad, sock, sessions, dropping>>

\* Approval comes back only if it was there before and the documents still pass.
operator_reinstate ==
  /\ drv.susp = "suspended"
  /\ drv' = [drv EXCEPT !.susp = "none", !.approved = drv.prev /\ drv.kyc, !.st = "off"]
  /\ UNCHANGED <<locked, onRoad, sock, sessions, dropping>>

\* After a checker's approval; it supersedes a suspension.
execute_deactivate ==
  /\ drv.susp # "deactivated"
  /\ drv' = [drv EXCEPT !.susp = "deactivated", !.approved = FALSE, !.st = "blocked",
                        !.prev = IF drv.susp = "none" THEN drv.approved ELSE @]
  /\ _take_off_the_road
  /\ UNCHANGED <<locked, onRoad, sock, sessions>>

\* The callback: out of the index, and a word to the sockets in the group; Redis may be down for
\* either.
DropRuns ==
  /\ dropping
  /\ dropping' = FALSE
  /\ onRoad' \in {onRoad, FALSE}
  /\ \/ UNCHANGED sock
     \/ sock' = [s \in Sockets |-> [sock[s] EXCEPT !.told = @ \/ sock[s].grouped]]
  /\ UNCHANGED <<drv, locked, sessions>>

\* Hours driven reach the cap or a cancellation penalty locks the driver out; the lockout ends.
get_fatigue_status ==
  /\ locked' = ~locked
  /\ UNCHANGED <<drv, onRoad, sock, sessions, dropping>>

-----------------------------------------------------------------------------
(* A connection.                                                            *)

connect(s) ==
  /\ sock[s].pc = "closed" /\ may_operate
  /\ Goes(s, "loaded")
  /\ UNCHANGED <<drv, locked, onRoad, sessions, dropping>>

\* Only the status column is written, whatever it is by now.  A lockout skips it, and connect goes
\* on as if it had not.
_active_the_driver(s) ==
  /\ sock[s].pc = "loaded"
  /\ \/ locked /\ Goes(s, "locate") /\ UNCHANGED drv
     \/ ~locked /\ Goes(s, "session") /\ drv' = [drv EXCEPT !.st = "online"]
  /\ UNCHANGED <<locked, onRoad, sessions, dropping>>

\* An open session is reused; otherwise one is created, in a second query.
record_session_start(s) ==
  /\ \/ sock[s].pc = "session" /\ sessions > 0 /\ Goes(s, "locate") /\ UNCHANGED sessions
     \/ sock[s].pc = "session" /\ sessions = 0 /\ Goes(s, "create") /\ UNCHANGED sessions
     \/ sock[s].pc = "create" /\ sessions' = sessions + 1 /\ Goes(s, "locate")
  /\ UNCHANGED <<drv, locked, onRoad, dropping>>

\* On connect and on every ping: a fresh read decides.  An ineligible driver leaves the index; a
\* ping then also ends the connection, a connect does not.
_add_driver_location(s) ==
  /\ sock[s].pc \in {"locate", "open"}
  /\ \/ is_dispatchable /\ Goes(s, IF sock[s].pc = "locate" THEN "add first" ELSE "add")
        /\ UNCHANGED onRoad
     \/ ~is_dispatchable /\ Goes(s, IF sock[s].pc = "locate" THEN "join" ELSE "closing")
        /\ onRoad' = FALSE
  /\ UNCHANGED <<drv, locked, sessions, dropping>>

\* The index is written after the read.
add_driver_location(s) ==
  /\ sock[s].pc \in {"add first", "add"}
  /\ onRoad' = TRUE
  /\ Goes(s, IF sock[s].pc = "add" THEN "open" ELSE "join")
  /\ UNCHANGED <<drv, locked, sessions, dropping>>

\* Joining the group comes last: what was sent to it before is not received.
JoinGroup(s) ==
  /\ sock[s].pc = "join"
  /\ sock' = [sock EXCEPT ![s].pc = "open", ![s].grouped = TRUE]
  /\ UNCHANGED <<drv, locked, onRoad, sessions, dropping>>

driver_suspended(s) ==
  /\ sock[s].pc = "open" /\ sock[s].told
  /\ Goes(s, "closing")
  /\ UNCHANGED <<drv, locked, onRoad, sessions, dropping>>

\* The app goes away.
HangsUp(s) ==
  /\ sock[s].pc = "open"
  /\ Goes(s, "closing")
  /\ UNCHANGED <<drv, locked, onRoad, sessions, dropping>>

\* A blocked status is left alone; one open session is closed.
_deactive_the_driver(s) ==
  /\ sock[s].pc = "closing"
  /\ drv' = [drv EXCEPT !.st = IF @ = "blocked" THEN @ ELSE "off"]
  /\ sessions' = IF sessions > 0 THEN sessions - 1 ELSE 0
  /\ Goes(s, "leaving")
  /\ UNCHANGED <<locked, onRoad, dropping>>

disconnect(s) ==
  /\ sock[s].pc = "leaving"
  /\ onRoad' = FALSE
  /\ sock' = [sock EXCEPT ![s] = [pc |-> "closed", grouped |-> FALSE, told |-> FALSE]]
  /\ UNCHANGED <<drv, locked, sessions, dropping>>

-----------------------------------------------------------------------------
SocketStep(s) ==
  \/ _active_the_driver(s) \/ record_session_start(s) \/ _add_driver_location(s)
  \/ add_driver_location(s) \/ JoinGroup(s) \/ _deactive_the_driver(s) \/ disconnect(s)
  \/ driver_suspended(s)

PresenceNext ==
  \/ admin_approve_driver \/ admin_review_document \/ operator_suspend \/ operator_reinstate
  \/ execute_deactivate \/ DropRuns \/ get_fatigue_status
  \/ \E s \in Sockets : connect(s) \/ SocketStep(s) \/ HangsUp(s)

\* A handler that has started goes on, and a connected app pings; nothing else is promised, not
\* even that the callback of a suspension does anything.
PresenceFairness == \A s \in Sockets : WF_presenceVars(SocketStep(s))
PresenceSpec == PresenceInit /\ [][PresenceNext]_presenceVars /\ PresenceFairness

PresenceTypeOK ==
  /\ drv \in [st : {"off", "online", "blocked"}, approved : BOOLEAN, prev : BOOLEAN,
              susp : {"none", "suspended", "deactivated"}, kyc : BOOLEAN]
  /\ locked \in BOOLEAN /\ onRoad \in BOOLEAN /\ dropping \in BOOLEAN
  /\ sock \in [Sockets -> [pc : {"closed", "loaded", "session", "create", "locate", "add first",
                                 "add", "join", "open", "closing", "leaving"},
                           grouped : BOOLEAN, told : BOOLEAN]]
  /\ sessions \in 0 .. Cardinality(Sockets)

\* A deactivated driver is off the road for good: whatever connection was under way, however stale
\* the row it holds, and even if the callback that should drop the driver is lost, the driver
\* leaves the index, every socket closes, and no operator or reconnect brings either back.
DeactivatedStaysOff ==
  drv.susp = "deactivated" ~>
    [](~onRoad /\ ~drv.approved /\ \A s \in Sockets : sock[s].pc = "closed")
=============================================================================
