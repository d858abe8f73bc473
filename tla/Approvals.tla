----------------------------- MODULE Approvals -----------------------------
(* The maker-checker service.  A maker raises a request under an            *)
(* idempotency key; a second person approves or rejects it, the maker may   *)
(* withdraw it, and an overdue one expires.  Whoever makes the transition   *)
(* to "approved" runs the registered executor, outside the row lock.        *)
(* The executors and the callbacks for closed requests belong to the        *)
(* modules that raise requests: they conjoin their part to these actions.   *)
EXTENDS Naturals, FiniteSets

CONSTANTS Requests,      \* ids of ApprovalRequest rows (bound: how many are ever raised)
          Operators,     \* administrators
          Makers,        \* those who may raise requests
          Checkers,      \* those with approval.check and the action's capability in scope
          SoloSuperAdmin, \* the setting APPROVALS_SOLO_SUPER_ADMIN
          MaxCrashes,    \* bound: processes killed between approval and its record
          Nobody

ASSUME ApprovalConstants ==
  /\ IsFiniteSet(Requests) /\ IsFiniteSet(Operators)
  /\ Checkers \subseteq Operators /\ Makers \subseteq Operators
  /\ Nobody \notin Operators
  /\ SoloSuperAdmin \in BOOLEAN /\ MaxCrashes \in Nat

VARIABLES req,      \* ApprovalRequest rows
          runner,   \* the process that approved: none, to run, ran, was refused
          ran,      \* how often each request's executor took effect
          crashes
approvalVars == <<req, runner, ran, crashes>>

Status == {"none", "requested", "approved", "executed", "failed", "rejected", "cancelled", "expired"}
KEY_HELD_STATUSES == {"requested", "approved", "executed"}

Blank == [st |-> "none", key |-> <<>>, within |-> FALSE, maker |-> Nobody, checker |-> Nobody]

ApprovalInit ==
  /\ req = [r \in Requests |-> Blank]
  /\ runner = [r \in Requests |-> "none"]
  /\ ran = [r \in Requests |-> 0]
  /\ crashes = 0

\* The row that holds a key: at most one, by the partial unique index.
Existing(key) == {r \in Requests : req[r].st \in KEY_HELD_STATUSES /\ req[r].key = key}

Fresh == {r \in Requests : req[r].st = "none"}

\* A new row, or the row that already holds the key; `of` is the request handed back.  An action
\* within the maker's own limit asks nobody: its row is approved at once and the maker runs it.
require_approval_or_execute(o, key, needs_checker, of) ==
  IF Existing(key) # {}
  THEN of \in Existing(key) /\ UNCHANGED approvalVars
  ELSE /\ Fresh # {} /\ of = CHOOSE r \in Fresh : TRUE
       /\ req' = [req EXCEPT ![of] = [st |-> IF needs_checker THEN "requested" ELSE "approved",
                                      key |-> key, within |-> ~needs_checker,
                                      maker |-> o, checker |-> Nobody]]
       /\ runner' = [runner EXCEPT ![of] = IF needs_checker THEN @ ELSE "run"]
       /\ UNCHANGED <<ran, crashes>>

\* The maker decides their own request only as the one Super Admin nobody else can check for.
self_approval_allowed(r, o) == SoloSuperAdmin /\ o \in Checkers /\ Checkers = {o}

_check_checker(r, o) ==
  /\ o \in Checkers
  /\ o # req[r].maker \/ self_approval_allowed(r, o)

\* Mutant: a request that is already approved can be approved again.
approve_again(r, o) ==
  /\ req[r].st \in {"requested", "approved"} /\ _check_checker(r, o)
  /\ req' = [req EXCEPT ![r].st = "approved", ![r].checker = o]
  /\ runner' = [runner EXCEPT ![r] = "run"]
  /\ UNCHANGED <<ran, crashes>>

approve(r, o) ==
  /\ req[r].st = "requested" /\ _check_checker(r, o)
  /\ req' = [req EXCEPT ![r].st = "approved", ![r].checker = o]
  /\ runner' = [runner EXCEPT ![r] = "run"]
  /\ UNCHANGED <<ran, crashes>>

\* The three exits after which the executor never runs; each tells the raising module.
Closed(r, st) ==
  /\ req' = [req EXCEPT ![r].st = st]
  /\ UNCHANGED <<runner, ran, crashes>>

reject(r, o) ==
  /\ req[r].st = "requested" /\ _check_checker(r, o)
  /\ Closed(r, "rejected")

cancel(r, o) ==
  /\ req[r].st = "requested" /\ o = req[r].maker
  /\ Closed(r, "cancelled")

\* Its expires_at has passed: the sweep, or whoever reaches the overdue row first, closes it, so
\* falling due and being closed are one step for everybody else.
expire_stale(r) ==
  /\ req[r].st = "requested"
  /\ Closed(r, "expired")

\* The executor's transaction commits, or it refuses and nothing changes but the request.
Executes(r) ==
  /\ runner[r] = "run"
  /\ runner' = [runner EXCEPT ![r] = "ran"]
  /\ ran' = [ran EXCEPT ![r] = @ + 1]
  /\ UNCHANGED <<req, crashes>>

Refuses(r) ==
  /\ runner[r] = "run"
  /\ runner' = [runner EXCEPT ![r] = "refused"]
  /\ UNCHANGED <<req, ran, crashes>>

\* _finish: a conditional update of the status, only from approved.
_finish(r) ==
  /\ runner[r] \in {"ran", "refused"}
  /\ req' = [req EXCEPT ![r].st =
               IF @ # "approved" THEN @ ELSE IF runner[r] = "ran" THEN "executed" ELSE "failed"]
  /\ runner' = [runner EXCEPT ![r] = "none"]
  /\ UNCHANGED <<ran, crashes>>

\* The process is killed: the row stays approved, its key held, and nobody takes over.
RunnerDies(r) ==
  /\ runner[r] # "none" /\ crashes < MaxCrashes
  /\ runner' = [runner EXCEPT ![r] = "none"]
  /\ crashes' = crashes + 1
  /\ UNCHANGED <<req, ran>>

ApprovalTypeOK ==
  /\ req \in [Requests -> [st : Status, key : {<<>>} \cup {req[r].key : r \in Requests}, within : BOOLEAN,
                           maker : Operators \cup {Nobody}, checker : Operators \cup {Nobody}]]
  /\ runner \in [Requests -> {"none", "run", "ran", "refused"}]
  /\ ran \in [Requests -> Nat] /\ crashes \in Nat

\* An executor takes effect at most once for a request, only for one within its maker's
\* limit or approved by someone else, and never for one that was rejected, withdrawn or expired, however two
\* deciders, an expiry and a killed process meet (approve's row lock and conditional status).
RunsAtMostOnce ==
  \A r \in Requests :
    /\ ran[r] <= 1
    /\ ran[r] = 1 => /\ req[r].st \in {"approved", "executed"}
                     /\ \/ req[r].within
                        \/ req[r].checker \notin {req[r].maker, Nobody}
                        \/ Checkers = {req[r].checker}
    /\ Cardinality(Existing(req[r].key)) <= 1
=============================================================================
