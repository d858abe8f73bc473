-------------------------- MODULE Approvals_proofs --------------------------
(***************************************************************************)
(* What the maker-checker service promises every module that raises        *)
(* requests, for any number of requests, operators and killed processes.   *)
(* Each such module is a composition: its steps take a step of the service *)
(* or leave it alone.  So the invariant is proved of ServiceStep once, and *)
(* every composition's proof shows only that its steps are service steps.  *)
(*                                                                         *)
(* `Keys` stands for the idempotency keys that the module raises.          *)
(*                                                                         *)
(* RunsAtMostOnce is not inductive: it does not say that an executor about *)
(* to run has not run, nor that two rows never hold one key.               *)
(***************************************************************************)
EXTENDS Approvals, FiniteSetsExt, FiniteSetTheorems, TLAPS

RequestType(Keys) ==
  [st : Status, key : Keys \cup {<<>>}, within : BOOLEAN,
   maker : Operators \cup {Nobody}, checker : Operators \cup {Nobody}]

ServiceTypes(Keys) ==
  /\ req \in [Requests -> RequestType(Keys)]
  /\ runner \in [Requests -> {"none", "run", "ran", "refused"}]
  /\ ran \in [Requests -> {0, 1}]

KeysRaised(Keys) == \A r \in Requests : req[r].st # "none" => req[r].key \in Keys

\* A process has a request to run only while it is approved, and the effect was had when and only
\* when the process says so.
RunnersFollow ==
  \A r \in Requests :
    /\ runner[r] # "none" => req[r].st = "approved"
    /\ runner[r] \in {"run", "refused"} => ran[r] = 0
    /\ runner[r] = "ran" => ran[r] = 1
    /\ ran[r] = 1 => req[r].st \in {"approved", "executed"}

Checked(q) ==
  q.within \/ q.checker \notin {q.maker, Nobody} \/ Checkers = {q.checker}

DecidedByTwo ==
  \A r \in Requests : req[r].st \in {"approved", "executed"} => Checked(req[r])

\* The partial unique index on the keys of rows that hold them.
OneHolder ==
  \A r, s \in Requests :
    (/\ req[r].st \in KEY_HELD_STATUSES /\ req[s].st \in KEY_HELD_STATUSES
     /\ req[r].key = req[s].key) => r = s

ServiceInv(Keys) ==
  ServiceTypes(Keys) /\ KeysRaised(Keys) /\ RunnersFollow /\ DecidedByTwo /\ OneHolder

\* Every step a module takes with the service.
Raises(Keys) ==
  \E o \in Operators, key \in Keys, needs_checker \in BOOLEAN, r \in Requests :
    require_approval_or_execute(o, key, needs_checker, r)

Decides ==
  \E r \in Requests :
    \/ \E o \in Operators : approve(r, o) \/ reject(r, o) \/ cancel(r, o)
    \/ expire_stale(r)

RunnerMoves == \E r \in Requests : Executes(r) \/ Refuses(r) \/ _finish(r) \/ RunnerDies(r)

ServiceStep(Keys) == Raises(Keys) \/ Decides \/ RunnerMoves

\* Nothing is requested, running or done at first.
LEMMA ServiceInit ==
  ASSUME NEW Keys, ApprovalInit
  PROVE  ServiceInv(Keys)
<1>1. /\ req = [r \in Requests |-> Blank]
      /\ runner = [r \in Requests |-> "none"] /\ ran = [r \in Requests |-> 0]
  BY DEF ApprovalInit
<1>2. Blank \in RequestType(Keys)
  BY DEF Blank, RequestType, Status
<1>3. Blank.st = "none"
  BY DEF Blank
<1> HIDE DEF Blank
<1>4. ServiceTypes(Keys) /\ KeysRaised(Keys)
  BY <1>1, <1>2, <1>3 DEF ServiceTypes, KeysRaised
<1>5. RunnersFollow
  BY <1>1 DEF RunnersFollow
<1>6. DecidedByTwo /\ OneHolder
  BY <1>1, <1>3 DEF DecidedByTwo, OneHolder, KEY_HELD_STATUSES
<1> QED BY <1>4, <1>5, <1>6 DEF ServiceInv

\* A new row, or the row that holds the key already and nothing new.
LEMMA RaisesOK ==
  ASSUME NEW Keys, ServiceInv(Keys), NEW o \in Operators, NEW key \in Keys,
         NEW needs_checker \in BOOLEAN, NEW r \in Requests,
         require_approval_or_execute(o, key, needs_checker, r)
  PROVE  ServiceInv(Keys)'
<1> USE DEF ServiceInv
<1>1. CASE Existing(key) # {}
  <2>1. UNCHANGED <<req, runner, ran>>
    BY <1>1 DEF require_approval_or_execute, approvalVars
  <2> QED BY <2>1 DEF ServiceTypes, KeysRaised, RunnersFollow, DecidedByTwo, OneHolder
<1>2. CASE Existing(key) = {}
  <2> DEFINE row == [st |-> IF needs_checker THEN "requested" ELSE "approved",
                     key |-> key, within |-> ~needs_checker, maker |-> o, checker |-> Nobody]
  <2>1. /\ req[r].st = "none"
        /\ req' = [req EXCEPT ![r] = row]
        /\ runner' = [runner EXCEPT ![r] = IF needs_checker THEN @ ELSE "run"]
        /\ UNCHANGED ran
    BY <1>2 DEF require_approval_or_execute, Fresh
  <2>2. \A s \in Requests : req[s].st \in KEY_HELD_STATUSES => req[s].key # key
    BY <1>2 DEF Existing
  <2>3. /\ row.key = key
        /\ row.st \in {"requested", "approved"}
        /\ row.st = "approved" <=> ~needs_checker
        /\ ~needs_checker => row.within
    OBVIOUS
  <2>4. row \in RequestType(Keys)
    BY DEF RequestType, Status
  <2> HIDE DEF row
  <2>5. req'[r] = row /\ \A s \in Requests \ {r} : req'[s] = req[s]
    BY <2>1 DEF ServiceTypes
  <2>6. /\ runner[r] = "none" /\ ran[r] = 0
        /\ runner'[r] = IF needs_checker THEN "none" ELSE "run"
        /\ \A s \in Requests \ {r} : runner'[s] = runner[s]
    BY <2>1 DEF ServiceTypes, RunnersFollow
  <2>7. ServiceTypes(Keys)'
    BY <2>1, <2>4 DEF ServiceTypes
  <2>8. RunnersFollow'
    BY <2>1, <2>3, <2>5, <2>6 DEF RunnersFollow
  <2>9. DecidedByTwo'
    BY <2>3, <2>5 DEF DecidedByTwo, Checked
  <2>10. OneHolder'
    BY <2>2, <2>3, <2>5 DEF OneHolder
  <2>11. KeysRaised(Keys)'
    BY <2>3, <2>5 DEF KeysRaised
  <2> QED BY <2>7, <2>8, <2>9, <2>10, <2>11
<1> QED BY <1>1, <1>2

\* Approval, and the three exits after which nothing runs.
LEMMA DecidesOK ==
  ASSUME NEW Keys, ServiceInv(Keys), Decides
  PROVE  ServiceInv(Keys)'
<1> USE DEF ServiceInv
<1>1. ASSUME NEW r \in Requests, NEW o \in Operators, approve(r, o)
      PROVE  ServiceInv(Keys)'
  <2>1. /\ req[r].st = "requested" /\ o \in Checkers
        /\ o # req[r].maker \/ Checkers = {o}
        /\ req' = [req EXCEPT ![r].st = "approved", ![r].checker = o]
        /\ runner' = [runner EXCEPT ![r] = "run"] /\ UNCHANGED ran
    BY <1>1 DEF approve, _check_checker, self_approval_allowed
  <2>2. /\ req'[r].st = "approved" /\ req'[r].checker = o
        /\ req'[r].key = req[r].key /\ req'[r].maker = req[r].maker
        /\ \A s \in Requests \ {r} : req'[s] = req[s] /\ runner'[s] = runner[s]
        /\ runner'[r] = "run"
    BY <2>1 DEF ServiceTypes, RequestType
  <2>3. ran[r] = 0
    BY <2>1 DEF ServiceTypes, RunnersFollow
  <2>4. req' \in [Requests -> RequestType(Keys)]
    <3> DEFINE row == [req[r] EXCEPT !.st = "approved", !.checker = o]
    <3>1. req' = [req EXCEPT ![r] = row]
      BY <2>1
    <3>2. row \in RequestType(Keys)
      BY DEF ServiceTypes, RequestType, Status
    <3> QED BY <3>1, <3>2 DEF ServiceTypes
  <2>5. ServiceTypes(Keys)'
    BY <2>1, <2>4 DEF ServiceTypes
  <2>6. RunnersFollow'
    BY <2>1, <2>2, <2>3 DEF RunnersFollow
  <2>7. Checked(req'[r])
    BY <2>1, <2>2, ApprovalConstants DEF Checked
  <2>8. DecidedByTwo'
    BY <2>2, <2>7 DEF DecidedByTwo
  <2>9. OneHolder'
    <3>1. \A s \in Requests : /\ req'[s].key = req[s].key
                              /\ req'[s].st \in KEY_HELD_STATUSES => req[s].st \in KEY_HELD_STATUSES
      BY <2>1, <2>2 DEF KEY_HELD_STATUSES
    <3> QED BY <3>1 DEF OneHolder
  <2>10. KeysRaised(Keys)'
    BY <2>1, <2>2 DEF KeysRaised
  <2> QED BY <2>5, <2>6, <2>8, <2>9, <2>10
<1>2. ASSUME NEW r \in Requests, NEW st \in {"rejected", "cancelled", "expired"},
             req[r].st = "requested", Closed(r, st)
      PROVE  ServiceInv(Keys)'
  <2>1. req' = [req EXCEPT ![r].st = st] /\ UNCHANGED <<runner, ran>>
    BY <1>2 DEF Closed
  <2>2. /\ req'[r].st = st /\ req'[r].key = req[r].key
        /\ \A s \in Requests \ {r} : req'[s] = req[s]
    BY <2>1 DEF ServiceTypes, RequestType
  <2>3. runner[r] = "none" /\ ran[r] = 0
    BY <1>2 DEF ServiceTypes, RunnersFollow
  <2>4. req' \in [Requests -> RequestType(Keys)]
    BY <2>1 DEF ServiceTypes, RequestType, Status
  <2>5. ServiceTypes(Keys)' /\ RunnersFollow'
    BY <2>1, <2>2, <2>3, <2>4 DEF ServiceTypes, RunnersFollow
  <2>6. DecidedByTwo' /\ OneHolder'
    BY <2>2 DEF DecidedByTwo, OneHolder, KEY_HELD_STATUSES
  <2>7. KeysRaised(Keys)'
    BY <1>2, <2>2 DEF KeysRaised
  <2> QED BY <2>5, <2>6, <2>7
<1> QED BY <1>1, <1>2 DEF Decides, reject, cancel, expire_stale

\* The executor commits or refuses, the status is recorded, or the process is killed before.
LEMMA RunnerMovesOK ==
  ASSUME NEW Keys, ServiceInv(Keys), RunnerMoves
  PROVE  ServiceInv(Keys)'
<1> USE DEF ServiceInv
<1>1. PICK r \in Requests : Executes(r) \/ Refuses(r) \/ _finish(r) \/ RunnerDies(r)
  BY DEF RunnerMoves
<1>2. ASSUME UNCHANGED req PROVE DecidedByTwo' /\ OneHolder' /\ KeysRaised(Keys)'
  BY <1>2 DEF DecidedByTwo, OneHolder, KeysRaised
<1>3. CASE Executes(r)
  <2>1. /\ runner[r] = "run" /\ runner' = [runner EXCEPT ![r] = "ran"] /\ UNCHANGED req
        /\ ran' = [ran EXCEPT ![r] = @ + 1]
    BY <1>3 DEF Executes
  <2>2. ran[r] = 0 /\ req[r].st = "approved"
    BY <2>1 DEF RunnersFollow
  <2>3. ran' = [ran EXCEPT ![r] = 1]
    BY <2>1, <2>2
  <2>4. ServiceTypes(Keys)' /\ RunnersFollow'
    BY <2>1, <2>2, <2>3 DEF ServiceTypes, RunnersFollow
  <2> QED BY <1>2, <2>1, <2>4
<1>4. CASE Refuses(r)
  <2>1. /\ runner[r] = "run" /\ runner' = [runner EXCEPT ![r] = "refused"] /\ UNCHANGED <<req, ran>>
    BY <1>4 DEF Refuses
  <2>2. ServiceTypes(Keys)' /\ RunnersFollow'
    BY <2>1 DEF ServiceTypes, RunnersFollow
  <2> QED BY <1>2, <2>1, <2>2
<1>5. CASE RunnerDies(r)
  <2>1. runner' = [runner EXCEPT ![r] = "none"] /\ UNCHANGED <<req, ran>>
    BY <1>5 DEF RunnerDies
  <2>2. ServiceTypes(Keys)' /\ RunnersFollow'
    BY <2>1 DEF ServiceTypes, RunnersFollow
  <2> QED BY <1>2, <2>1, <2>2
<1>6. CASE _finish(r)
  <2> DEFINE st == IF runner[r] = "ran" THEN "executed" ELSE "failed"
             row == [req[r] EXCEPT !.st = st]
  <2>1. runner[r] \in {"ran", "refused"} /\ runner' = [runner EXCEPT ![r] = "none"] /\ UNCHANGED ran
    BY <1>6 DEF _finish
  <2>2. req[r].st = "approved" /\ (runner[r] = "ran" <=> ran[r] = 1)
    BY <2>1 DEF RunnersFollow
  <2>3. req' = [req EXCEPT ![r] = row]
    BY <1>6, <2>2 DEF _finish
  <2>4. st \in {"executed", "failed"} /\ (st = "executed" <=> ran[r] = 1)
    BY <2>2
  <2> HIDE DEF st
  <2>5. /\ row \in RequestType(Keys)
        /\ row.st = st /\ row.key = req[r].key /\ row.within = req[r].within
        /\ row.maker = req[r].maker /\ row.checker = req[r].checker
    BY <2>4 DEF ServiceTypes, RequestType, Status
  <2> HIDE DEF row
  <2>6. req'[r] = row /\ \A s \in Requests \ {r} : req'[s] = req[s]
    BY <2>3 DEF ServiceTypes
  <2>7. ServiceTypes(Keys)'
    BY <2>1, <2>3, <2>5 DEF ServiceTypes
  <2>8. RunnersFollow'
    BY <2>1, <2>4, <2>5, <2>6 DEF RunnersFollow, ServiceTypes
  <2>9. Checked(req[r]) => Checked(row)
    BY <2>5 DEF Checked
  <2>10. DecidedByTwo'
    BY <2>2, <2>6, <2>9 DEF DecidedByTwo
  <2>11. \A s \in Requests : /\ req'[s].key = req[s].key
                             /\ req'[s].st \in KEY_HELD_STATUSES => req[s].st \in KEY_HELD_STATUSES
    BY <2>2, <2>5, <2>6 DEF KEY_HELD_STATUSES
  <2>12. OneHolder'
    BY <2>11 DEF OneHolder
  <2>13. KeysRaised(Keys)'
    BY <2>2, <2>5, <2>6 DEF KeysRaised
  <2> QED BY <2>7, <2>8, <2>10, <2>12, <2>13
<1> QED BY <1>1, <1>3, <1>4, <1>5, <1>6

\* The invariant of the service, for any module composed with it.
LEMMA ServiceKept ==
  ASSUME NEW Keys, ServiceInv(Keys), ServiceStep(Keys) \/ UNCHANGED approvalVars
  PROVE  ServiceInv(Keys)'
<1>1. CASE Raises(Keys)
  BY <1>1, RaisesOK DEF Raises
<1>2. CASE Decides
  BY <1>2, DecidesOK
<1>3. CASE RunnerMoves
  BY <1>3, RunnerMovesOK
<1>4. CASE UNCHANGED approvalVars
  <2>1. UNCHANGED <<req, runner, ran>>
    BY <1>4 DEF approvalVars
  <2> QED BY <2>1 DEF ServiceInv, ServiceTypes, KeysRaised, RunnersFollow, DecidedByTwo, OneHolder
<1> QED BY <1>1, <1>2, <1>3, <1>4 DEF ServiceStep

\* What a module may build on: a request that took effect keeps its effect and its key, and no
\* request is named by a second key.
LEMMA EffectsLast ==
  ASSUME NEW Keys, ServiceInv(Keys), ServiceStep(Keys) \/ UNCHANGED approvalVars,
         NEW r \in Requests, ran[r] = 1
  PROVE  ran'[r] = 1 /\ req'[r].key = req[r].key
<1>0. /\ req[r].st \in {"approved", "executed"} /\ runner[r] \notin {"run", "refused"}
      /\ req \in [Requests -> RequestType(Keys)] /\ ran \in [Requests -> {0, 1}]
  BY DEF ServiceInv, ServiceTypes, RunnersFollow
<1>1. CASE Raises(Keys)
  <2>1. PICK o \in Operators, key \in Keys, needs_checker \in BOOLEAN, s \in Requests :
          require_approval_or_execute(o, key, needs_checker, s)
    BY <1>1 DEF Raises
  <2>2. CASE Existing(key) # {}
    BY <2>1, <2>2 DEF require_approval_or_execute, approvalVars
  <2>3. CASE Existing(key) = {}
    <3>1. s \in Fresh /\ UNCHANGED ran /\ \E row : req' = [req EXCEPT ![s] = row]
      BY <2>1, <2>3 DEF require_approval_or_execute
    <3>2. s # r
      BY <1>0, <3>1 DEF Fresh
    <3> QED BY <1>0, <3>1, <3>2
  <2> QED BY <2>2, <2>3
<1>2. CASE Decides
  <2>1. PICK s \in Requests :
          /\ req[s].st = "requested" /\ UNCHANGED ran
          /\ \/ \E o \in Operators : req' = [req EXCEPT ![s].st = "approved", ![s].checker = o]
             \/ \E st : req' = [req EXCEPT ![s].st = st]
    BY <1>2 DEF Decides, approve, reject, cancel, expire_stale, Closed
  <2>2. s # r
    BY <1>0, <2>1
  <2> QED BY <1>0, <2>1, <2>2
<1>3. CASE RunnerMoves
  <2>1. PICK s \in Requests : Executes(s) \/ Refuses(s) \/ _finish(s) \/ RunnerDies(s)
    BY <1>3 DEF RunnerMoves
  <2>2. CASE Executes(s)
    BY <1>0, <2>2 DEF Executes
  <2>3. CASE Refuses(s) \/ RunnerDies(s)
    BY <2>3 DEF Refuses, RunnerDies
  <2>4. CASE _finish(s)
    <3>1. UNCHANGED ran /\ \E st : req' = [req EXCEPT ![s].st = st]
      BY <2>4 DEF _finish
    <3> QED BY <1>0, <3>1 DEF RequestType
  <2> QED BY <2>1, <2>2, <2>3, <2>4
<1>4. CASE UNCHANGED approvalVars
  BY <1>4 DEF approvalVars
<1> QED BY <1>1, <1>2, <1>3, <1>4 DEF ServiceStep

\* A request that was raised stays raised, under its key, and only a fresh row is ever filled.
LEMMA RaisedStay ==
  ASSUME NEW Keys, ServiceInv(Keys), ServiceStep(Keys) \/ UNCHANGED approvalVars,
         NEW r \in Requests, req[r].st # "none"
  PROVE  req'[r].st # "none" /\ req'[r].key = req[r].key
<1>0. req \in [Requests -> RequestType(Keys)]
  BY DEF ServiceInv, ServiceTypes
<1>1. CASE Raises(Keys)
  <2>1. PICK o \in Operators, key \in Keys, needs_checker \in BOOLEAN, s \in Requests :
          require_approval_or_execute(o, key, needs_checker, s)
    BY <1>1 DEF Raises
  <2>2. CASE Existing(key) # {}
    BY <2>1, <2>2 DEF require_approval_or_execute, approvalVars
  <2>3. CASE Existing(key) = {}
    <3>1. s \in Fresh /\ \E row : req' = [req EXCEPT ![s] = row]
      BY <2>1, <2>3 DEF require_approval_or_execute
    <3>2. s # r
      BY <3>1 DEF Fresh
    <3> QED BY <1>0, <3>1, <3>2
  <2> QED BY <2>2, <2>3
<1>2. CASE Decides
  <2>1. PICK s \in Requests :
          \/ \E o \in Operators : req' = [req EXCEPT ![s].st = "approved", ![s].checker = o]
          \/ \E st \in {"rejected", "cancelled", "expired"} : req' = [req EXCEPT ![s].st = st]
    BY <1>2 DEF Decides, approve, reject, cancel, expire_stale, Closed
  <2> QED BY <1>0, <2>1 DEF RequestType
<1>3. CASE RunnerMoves
  <2>1. PICK s \in Requests : Executes(s) \/ Refuses(s) \/ _finish(s) \/ RunnerDies(s)
    BY <1>3 DEF RunnerMoves
  <2>2. CASE UNCHANGED req
    BY <2>2
  <2>3. CASE _finish(s)
    <3>1. PICK st : /\ req' = [req EXCEPT ![s].st = st]
                    /\ st = req[s].st \/ st \in {"executed", "failed"}
      BY <2>3 DEF _finish
    <3> QED BY <1>0, <3>1 DEF RequestType
  <2> QED BY <2>1, <2>2, <2>3 DEF Executes, Refuses, RunnerDies
<1>4. CASE UNCHANGED approvalVars
  BY <1>4 DEF approvalVars
<1> QED BY <1>1, <1>2, <1>3, <1>4 DEF ServiceStep

\* Raising a request that no row holds fills a fresh row, waiting for its checker.
LEMMA RaisesFresh ==
  ASSUME NEW Keys, ServiceInv(Keys), NEW o, NEW key, NEW r \in Requests,
         require_approval_or_execute(o, key, TRUE, r)
  PROVE  /\ Existing(key) # {} => UNCHANGED approvalVars
         /\ Existing(key) = {} => (req[r].st = "none" /\ req'[r].st = "requested" /\ req'[r].key = key)
         /\ UNCHANGED <<runner, ran>>
<1>0. req \in [Requests -> RequestType(Keys)] /\ runner \in [Requests -> {"none", "run", "ran", "refused"}]
  BY DEF ServiceInv, ServiceTypes
<1>1. CASE Existing(key) # {}
  BY <1>1 DEF require_approval_or_execute, approvalVars
<1>2. CASE Existing(key) = {}
  <2>1. /\ r \in Fresh /\ UNCHANGED ran
        /\ req' = [req EXCEPT ![r] = [st |-> "requested", key |-> key, within |-> FALSE,
                                      maker |-> o, checker |-> Nobody]]
        /\ runner' = [runner EXCEPT ![r] = runner[r]]
    BY <1>2 DEF require_approval_or_execute
  <2>2. runner' = runner
    BY <1>0, <2>1
  <2> QED BY <1>0, <1>2, <2>1, <2>2 DEF Fresh
<1> QED BY <1>1, <1>2

\* Which requests hold their keys, and which have taken effect.
Holds(r) == req[r].st \in KEY_HELD_STATUSES
TookEffect(key) == \E r \in Requests : ran[r] = 1 /\ req[r].key = key

\* An action that has taken effect stays so, whatever happens to other requests.
LEMMA TookEffectLasts ==
  ASSUME NEW Keys, ServiceInv(Keys), ServiceStep(Keys) \/ UNCHANGED approvalVars,
         NEW key, TookEffect(key)
  PROVE  TookEffect(key)'
<1>1. PICK r \in Requests : ran[r] = 1 /\ req[r].key = key
  BY DEF TookEffect
<1>2. ran'[r] = 1 /\ req'[r].key = key
  BY <1>1, EffectsLast
<1> QED BY <1>2 DEF TookEffect

\* Raising a request makes at most one new holder, of that key.
LEMMA RaiserHolds ==
  ASSUME NEW Keys, ServiceInv(Keys), NEW o, NEW key, NEW needs_checker, NEW r \in Requests,
         require_approval_or_execute(o, key, needs_checker, r)
  PROVE  /\ \A s \in Requests : Holds(s)' => \/ Holds(s) /\ req'[s].key = req[s].key
                                             \/ s = r /\ req'[s].key = key
         /\ UNCHANGED ran
<1>0. req \in [Requests -> RequestType(Keys)]
  BY DEF ServiceInv, ServiceTypes
<1>1. CASE Existing(key) # {}
  BY <1>1 DEF require_approval_or_execute, approvalVars, Holds
<1>2. CASE Existing(key) = {}
  <2> DEFINE row == [st |-> IF needs_checker THEN "requested" ELSE "approved",
                     key |-> key, within |-> ~needs_checker, maker |-> o, checker |-> Nobody]
  <2>1. req' = [req EXCEPT ![r] = row] /\ row.key = key
    BY <1>2 DEF require_approval_or_execute
  <2> HIDE DEF row
  <2>2. UNCHANGED ran
    BY <1>2 DEF require_approval_or_execute
  <2> QED BY <1>0, <2>1, <2>2 DEF Holds
<1> QED BY <1>1, <1>2

\* No other step makes one, and one that closes a request takes its key from it.
LEMMA OthersHold ==
  ASSUME NEW Keys, ServiceInv(Keys), Decides \/ RunnerMoves \/ UNCHANGED approvalVars
  PROVE  \A s \in Requests : req'[s].key = req[s].key /\ (Holds(s)' => Holds(s))
<1>0. /\ req \in [Requests -> RequestType(Keys)]
      /\ \A r \in Requests : runner[r] # "none" => req[r].st = "approved"
  BY DEF ServiceInv, ServiceTypes, RunnersFollow
<1>1. CASE Decides
  <2>1. PICK s \in Requests :
          /\ req[s].st = "requested"
          /\ \/ \E o \in Operators : req' = [req EXCEPT ![s].st = "approved", ![s].checker = o]
             \/ \E st : req' = [req EXCEPT ![s].st = st]
    BY <1>1 DEF Decides, approve, reject, cancel, expire_stale, Closed
  <2>2. Holds(s)
    BY <2>1 DEF Holds, KEY_HELD_STATUSES
  <2>3. req'[s].key = req[s].key /\ \A q \in Requests \ {s} : req'[q] = req[q]
    BY <1>0, <2>1 DEF RequestType
  <2> QED BY <2>2, <2>3 DEF Holds
<1>2. CASE RunnerMoves
  <2>1. PICK s \in Requests : Executes(s) \/ Refuses(s) \/ _finish(s) \/ RunnerDies(s)
    BY <1>2 DEF RunnerMoves
  <2>2. CASE UNCHANGED req
    BY <2>2 DEF Holds
  <2>3. CASE _finish(s)
    <3>1. Holds(s) /\ \E st : req' = [req EXCEPT ![s].st = st]
      BY <1>0, <2>3 DEF _finish, Holds, KEY_HELD_STATUSES
    <3>2. req'[s].key = req[s].key /\ \A q \in Requests \ {s} : req'[q] = req[q]
      BY <1>0, <3>1 DEF RequestType
    <3> QED BY <3>1, <3>2 DEF Holds
  <2> QED BY <2>1, <2>2, <2>3 DEF Executes, Refuses, RunnerDies
<1>3. CASE UNCHANGED approvalVars
  BY <1>3 DEF approvalVars, Holds
<1> QED BY <1>1, <1>2, <1>3

\* A request that is rejected, cancelled or expired was waiting and gives its key back unrun.
LEMMA ClosedHoldsNothing ==
  ASSUME NEW Keys, ServiceInv(Keys), NEW r \in Requests,
         expire_stale(r) \/ \E o \in Operators : reject(r, o) \/ cancel(r, o)
  PROVE  Holds(r) /\ ~Holds(r)' /\ req[r].key \in Keys /\ UNCHANGED ran
<1>1. PICK st \in {"rejected", "cancelled", "expired"} : req[r].st = "requested" /\ Closed(r, st)
  BY DEF expire_stale, reject, cancel
<1>2. req'[r].st = st /\ UNCHANGED ran
  BY <1>1 DEF Closed, ServiceInv, ServiceTypes, RequestType
<1>3. req[r].key \in Keys
  BY <1>1 DEF ServiceInv, KeysRaised
<1> QED BY <1>1, <1>2, <1>3 DEF Holds, KEY_HELD_STATUSES

\* A process with something to run runs a request that holds its key, and a commit counts.
LEMMA RunnerHolds ==
  ASSUME NEW Keys, ServiceInv(Keys), NEW r \in Requests, runner[r] = "run"
  PROVE  /\ Holds(r) /\ req[r].key \in Keys
         /\ Executes(r) => ran'[r] = 1 /\ UNCHANGED req
<1>1. req[r].st = "approved" /\ ran[r] = 0
  BY DEF ServiceInv, RunnersFollow
<1>2. Holds(r) /\ req[r].key \in Keys
  BY <1>1 DEF Holds, KEY_HELD_STATUSES, ServiceInv, KeysRaised
<1>3. ASSUME Executes(r) PROVE ran'[r] = 1 /\ UNCHANGED req
  BY <1>1, <1>3 DEF Executes, ServiceInv, ServiceTypes
<1> QED BY <1>2, <1>3

\* The service's promise follows from its invariant.
LEMMA RunsOnce ==
  ASSUME NEW Keys, ServiceInv(Keys)
  PROVE  RunsAtMostOnce
<1> SUFFICES ASSUME NEW r \in Requests
             PROVE  /\ ran[r] <= 1
                    /\ ran[r] = 1 => req[r].st \in {"approved", "executed"} /\ Checked(req[r])
                    /\ Cardinality(Existing(req[r].key)) <= 1
  BY DEF RunsAtMostOnce, Checked
<1>1. ran[r] \in {0, 1}
  BY DEF ServiceInv, ServiceTypes
<1>2. ran[r] = 1 => req[r].st \in {"approved", "executed"} /\ Checked(req[r])
  BY DEF ServiceInv, RunnersFollow, DecidedByTwo
<1>3. Cardinality(Existing(req[r].key)) <= 1
  <2> DEFINE E == Existing(req[r].key)
  <2>1. CASE E = {}
    <3>1. Cardinality(E) = 0
      BY <2>1, FS_EmptySet
    <3> QED BY <3>1
  <2>2. CASE E # {}
    <3>1. PICK s : s \in E
      BY <2>2
    <3>2. E = {s}
      BY <3>1 DEF Existing, ServiceInv, OneHolder
    <3>3. Cardinality(E) = 1
      BY <3>2, FS_Singleton
    <3> QED BY <3>3
  <2> QED BY <2>1, <2>2
<1> QED BY <1>1, <1>2, <1>3

\* The service on its own, with the keys a module raises: what every composition implements.
ServiceSpec(Keys) == ApprovalInit /\ [][ServiceStep(Keys)]_approvalVars

\* An executor takes effect at most once, only for a request that two people stand behind, and
\* a key has at most one holder, whichever module raises the requests (approve's row lock and
\* conditional status, _finish's conditional update, the partial unique index).
THEOREM ServiceRunsOnce ==
  ASSUME NEW Keys
  PROVE  ServiceSpec(Keys) => []RunsAtMostOnce
<1>1. ApprovalInit => ServiceInv(Keys)
  BY ServiceInit
<1>2. ServiceInv(Keys) /\ [ServiceStep(Keys)]_approvalVars => ServiceInv(Keys)'
  BY ServiceKept
<1>3. ServiceInv(Keys) => RunsAtMostOnce
  BY RunsOnce
<1> QED BY <1>1, <1>2, <1>3, PTL DEF ServiceSpec

-----------------------------------------------------------------------------
(* Sums over the rows of a finite set, for the modules built on the service *)
(* whose money is such a sum.  The library's fold is a recursive function,  *)
(* that is a CHOOSE: that one exists, that it is unique and that the order  *)
(* of the elements does not matter each follow from a smallest subset for   *)
(* which it would not be so.                                                *)

Chosen(s) == CHOOSE x \in s : TRUE

\* `it` sums F over every subset of S, in the order in which CHOOSE takes the elements.
IsSum(it, F, S) ==
  it = [s \in SUBSET S |-> IF s = {} THEN 0 ELSE F[Chosen(s)] + it[s \ {Chosen(s)}]]

\* The sum of F over S.
SumOf(F, S) == MapThenSumSet(LAMBDA x : F[x], S)

\* Some member of a family of subsets of a finite set has none of the others inside it.
LEMMA Minimal ==
  ASSUME NEW S, IsFiniteSet(S), NEW B \in SUBSET SUBSET S, B # {}
  PROVE  \E T \in B : \A U \in SUBSET T : U \in B => U = T
<1>1. FiniteSubsetsOf(S) = SUBSET S
  BY FS_FiniteSubsetsOfFinite
<1>2. IsWellFoundedOn(StrictSubsetOrdering(S), SUBSET S)
  BY <1>1, FS_StrictSubsetOrderingWellFounded
<1>3. PICK T \in B : \A U \in B : <<U, T>> \notin StrictSubsetOrdering(S)
  BY <1>2, WFMin
<1>4. ASSUME NEW U \in SUBSET T, U \in B PROVE U = T
  <2>1. U \in SUBSET S /\ T \in SUBSET S /\ U \subseteq T
    OBVIOUS
  <2>2. PICK ss \in (SUBSET S) \X (SUBSET S) : ss = <<U, T>>
    BY <2>1
  <2>3. ss \notin StrictSubsetOrdering(S)
    BY <1>3, <1>4, <2>2
  <2> QED BY <2>1, <2>2, <2>3 DEF StrictSubsetOrdering
<1> QED BY <1>4

\* A set that is not empty has an element to take.
LEMMA ChosenIn ==
  ASSUME NEW s, s # {}
  PROVE  Chosen(s) \in s
BY DEF Chosen

\* What the recursion says of one subset.
LEMMA SumUnfold ==
  ASSUME NEW it, NEW F, NEW S, IsSum(it, F, S), NEW s \in SUBSET S
  PROVE  /\ s = {} => it[s] = 0
         /\ s # {} => it[s] = F[Chosen(s)] + it[s \ {Chosen(s)}]
<1>1. it[s] = IF s = {} THEN 0 ELSE F[Chosen(s)] + it[s \ {Chosen(s)}]
  BY DEF IsSum
<1> QED BY <1>1

\* Two such sums agree wherever what they sum does.
LEMMA SumUnique ==
  ASSUME NEW i, NEW F, NEW S, IsSum(i, F, S),
         NEW j, NEW G, NEW T, IsSum(j, G, T),
         NEW s \in (SUBSET S) \cap (SUBSET T), IsFiniteSet(s), \A x \in s : F[x] = G[x]
  PROVE  i[s] = j[s]
<1>1. SUFFICES ASSUME i[s] # j[s] PROVE FALSE
  OBVIOUS
<1>2. PICK B : B = {u \in SUBSET s : i[u] # j[u]}
  OBVIOUS
<1>3. B \in SUBSET SUBSET s /\ B # {}
  BY <1>1, <1>2
<1>4. PICK u \in B : \A v \in SUBSET u : v \in B => v = u
  BY <1>3, Minimal
<1>5. u \in SUBSET S /\ u \in SUBSET T /\ u \in SUBSET s /\ i[u] # j[u]
  BY <1>2
<1>6. u # {}
  BY <1>5, SumUnfold
<1>7. PICK x \in u : x = Chosen(u)
  BY <1>6, ChosenIn
<1>8. i[u] = F[x] + i[u \ {x}] /\ j[u] = G[x] + j[u \ {x}] /\ F[x] = G[x]
  BY <1>5, <1>6, <1>7, SumUnfold
<1>9. u \ {x} \in SUBSET s /\ u \ {x} \in SUBSET u /\ u \ {x} # u
  BY <1>5
<1>10. i[u \ {x}] = j[u \ {x}]
  BY <1>2, <1>4, <1>9
<1> QED BY <1>5, <1>8, <1>10

\* The recursion has a solution.
LEMMA SumExists ==
  ASSUME NEW S, IsFiniteSet(S), NEW F
  PROVE  \E it : IsSum(it, F, S)
<1>1. SUFFICES ASSUME ~\E it : IsSum(it, F, S) PROVE FALSE
  OBVIOUS
<1>2. PICK B : B = {u \in SUBSET S : ~\E it : IsSum(it, F, u)}
  OBVIOUS
<1>3. B \in SUBSET SUBSET S /\ B # {}
  BY <1>1, <1>2
<1>4. PICK T \in B : \A u \in SUBSET T : u \in B => u = T
  BY <1>3, Minimal
<1>5. T \in SUBSET S /\ ~\E it : IsSum(it, F, T)
  BY <1>2
<1> DEFINE Proper == (SUBSET T) \ {T}
           i(u) == CHOOSE it : IsSum(it, F, u)
           h == [u \in Proper |-> i(u)[u]]
           g == [s \in SUBSET T |-> IF s = {} THEN 0 ELSE F[Chosen(s)] + h[s \ {Chosen(s)}]]
<1>6. \A u \in Proper : u \in SUBSET S /\ IsSum(i(u), F, u) /\ IsFiniteSet(u)
  <2> SUFFICES ASSUME NEW u \in Proper
               PROVE  u \in SUBSET S /\ IsSum(i(u), F, u) /\ IsFiniteSet(u)
    OBVIOUS
  <2>1. u \in SUBSET S /\ u \notin B
    BY <1>4, <1>5
  <2>2. \E it : IsSum(it, F, u)
    BY <1>2, <2>1
  <2>3. IsFiniteSet(u)
    BY <2>1, FS_Subset
  <2> QED BY <2>1, <2>2, <2>3
<1> HIDE DEF i
<1>7. ASSUME NEW u \in Proper
      PROVE  h[u] = IF u = {} THEN 0 ELSE F[Chosen(u)] + h[u \ {Chosen(u)}]
  <2>1. h[u] = i(u)[u] /\ IsSum(i(u), F, u)
    BY <1>6
  <2>2. CASE u = {}
    BY <2>1, <2>2, SumUnfold
  <2>3. CASE u # {}
    <3>1. PICK x \in u : x = Chosen(u)
      BY <2>3, ChosenIn
    <3>2. PICK v \in Proper : v = u \ {x} /\ v \in SUBSET u
      OBVIOUS
    <3>3. i(u)[u] = F[x] + i(u)[v]
      BY <2>1, <2>3, <3>1, <3>2, SumUnfold
    <3>4. i(u)[v] = i(v)[v]
      BY <1>6, <2>1, <3>2, SumUnique
    <3>5. h[v] = i(v)[v]
      BY <3>2
    <3> QED BY <2>1, <2>3, <3>1, <3>2, <3>3, <3>4, <3>5
  <2> QED BY <2>2, <2>3
<1> HIDE DEF h
<1>8. ASSUME NEW u \in Proper PROVE g[u] = h[u]
  BY <1>7
<1>9. ASSUME NEW s \in SUBSET T
      PROVE  g[s] = IF s = {} THEN 0 ELSE F[Chosen(s)] + g[s \ {Chosen(s)}]
  <2>1. CASE s = {}
    BY <2>1
  <2>2. CASE s # {}
    <3>1. PICK x \in s : x = Chosen(s)
      BY <2>2, ChosenIn
    <3>2. PICK v \in Proper : v = s \ {x}
      OBVIOUS
    <3>3. g[s] = F[x] + h[v]
      BY <2>2, <3>1, <3>2
    <3> QED BY <1>8, <2>2, <3>1, <3>2, <3>3
  <2> QED BY <2>1, <2>2
<1>10. PICK f : f = g
  OBVIOUS
<1>11. f = [s \in SUBSET T |-> f[s]]
  BY <1>10
<1>12. IsSum(f, F, T)
  <2>1. \A s \in SUBSET T : f[s] = IF s = {} THEN 0 ELSE F[Chosen(s)] + f[s \ {Chosen(s)}]
    BY <1>9, <1>10
  <2> HIDE DEF g
  <2> QED BY <1>11, <2>1 DEF IsSum
<1> QED BY <1>5, <1>12

\* The library's fold is such a sum.
LEMMA SumIs ==
  ASSUME NEW F, NEW S, IsFiniteSet(S)
  PROVE  \E it : IsSum(it, F, S) /\ SumOf(F, S) = it[S]
<1> DEFINE it == CHOOSE i : IsSum(i, F, S)
<1>1. IsSum(it, F, S)
  BY SumExists
<1>2. SumOf(F, S) = it[S]
  BY DEF SumOf, MapThenSumSet, MapThenFoldSet, IsSum, Chosen
<1> QED BY <1>1, <1>2

\* Sums of natural numbers are natural numbers, and any element may be taken out.
LEMMA SumExchange ==
  ASSUME NEW S, IsFiniteSet(S), NEW F, \A x \in S : F[x] \in Nat, NEW it, IsSum(it, F, S)
  PROVE  \A s \in SUBSET S : it[s] \in Nat /\ \A x \in s : it[s] = F[x] + it[s \ {x}]
<1> DEFINE Fine(s) == it[s] \in Nat /\ \A x \in s : it[s] = F[x] + it[s \ {x}]
<1>1. SUFFICES ASSUME ~\A s \in SUBSET S : Fine(s) PROVE FALSE
  OBVIOUS
<1>2. PICK B : B = {s \in SUBSET S : ~Fine(s)}
  OBVIOUS
<1>3. B \in SUBSET SUBSET S /\ B # {}
  BY <1>1, <1>2
<1>4. PICK s \in B : \A u \in SUBSET s : u \in B => u = s
  BY <1>3, Minimal
<1>5. s \in SUBSET S /\ ~Fine(s)
  BY <1>2
<1>6. \A u \in SUBSET s : u # s => Fine(u)
  BY <1>2, <1>4, <1>5
<1>7. s # {}
  <2>1. it[{}] = 0
    BY SumUnfold
  <2> QED BY <1>5, <2>1
<1>8. PICK c \in s : c = Chosen(s)
  BY <1>7, ChosenIn
<1>9. it[s] = F[c] + it[s \ {c}] /\ F[c] \in Nat
  <2>1. it[s] = F[Chosen(s)] + it[s \ {Chosen(s)}]
    BY <1>5, <1>7, SumUnfold
  <2> QED BY <1>5, <1>8, <2>1
<1>10. it[s \ {c}] \in Nat
  BY <1>6
<1>11. ASSUME NEW x \in s, x # c PROVE it[s] = F[x] + it[s \ {x}]
  <2>1. PICK u \in SUBSET s : u = s \ {c, x} /\ u # s /\ u = (s \ {c}) \ {x} /\ u = (s \ {x}) \ {c}
    OBVIOUS
  <2>2. it[s \ {c}] = F[x] + it[u]
    <3>1. Fine(s \ {c}) /\ x \in s \ {c}
      BY <1>6, <1>11
    <3> QED BY <2>1, <3>1
  <2>3. it[s \ {x}] = F[c] + it[u]
    <3>1. Fine(s \ {x}) /\ c \in s \ {x}
      BY <1>6, <1>11
    <3> QED BY <2>1, <3>1
  <2>4. it[u] \in Nat /\ F[x] \in Nat
    BY <1>5, <1>6, <2>1
  <2> QED BY <1>9, <2>2, <2>3, <2>4
<1>12. it[s] \in Nat
  BY <1>9, <1>10
<1>13. \A x \in s : it[s] = F[x] + it[s \ {x}]
  BY <1>9, <1>11
<1> QED BY <1>5, <1>12, <1>13

\* The sum over no rows.
LEMMA SumEmpty ==
  ASSUME NEW F
  PROVE  SumOf(F, {}) = 0
<1>1. PICK it : IsSum(it, F, {}) /\ SumOf(F, {}) = it[{}]
  BY SumIs, FS_EmptySet
<1> QED BY <1>1, SumUnfold

\* The sum of natural numbers.
LEMMA SumNat ==
  ASSUME NEW S, IsFiniteSet(S), NEW F, \A x \in S : F[x] \in Nat
  PROVE  SumOf(F, S) \in Nat
<1>1. PICK it : IsSum(it, F, S) /\ SumOf(F, S) = it[S]
  BY SumIs
<1> QED BY <1>1, SumExchange

\* The sum depends on the summed rows only.
LEMMA SumSame ==
  ASSUME NEW S, IsFiniteSet(S), NEW F, NEW G, \A x \in S : F[x] = G[x]
  PROVE  SumOf(F, S) = SumOf(G, S)
<1>1. PICK i : IsSum(i, F, S) /\ SumOf(F, S) = i[S]
  BY SumIs
<1>2. PICK j : IsSum(j, G, S) /\ SumOf(G, S) = j[S]
  BY SumIs
<1>3. S \in (SUBSET S) \cap (SUBSET S)
  OBVIOUS
<1> QED BY <1>1, <1>2, <1>3, SumUnique

\* One row more adds its amount.
LEMMA SumAdd ==
  ASSUME NEW S, IsFiniteSet(S), NEW x, x \notin S, NEW F, \A y \in S \cup {x} : F[y] \in Nat
  PROVE  SumOf(F, S \cup {x}) = SumOf(F, S) + F[x]
<1>1. PICK T : T = S \cup {x}
  OBVIOUS
<1>2. IsFiniteSet(T) /\ S \in SUBSET T /\ T \in SUBSET T /\ S = T \ {x} /\ x \in T
  BY <1>1, FS_AddElement
<1>3. PICK i : IsSum(i, F, T) /\ SumOf(F, T) = i[T]
  BY <1>2, SumIs
<1>4. PICK j : IsSum(j, F, S) /\ SumOf(F, S) = j[S]
  BY SumIs
<1>5. i[T] = F[x] + i[S] /\ i[S] \in Nat
  <2>1. \A y \in T : F[y] \in Nat
    BY <1>1
  <2>2. \A s \in SUBSET T : i[s] \in Nat /\ \A y \in s : i[s] = F[y] + i[s \ {y}]
    BY <1>2, <1>3, <2>1, SumExchange
  <2> QED BY <1>2, <2>2
<1>6. i[S] = j[S]
  BY <1>2, <1>3, <1>4, SumUnique
<1>7. F[x] \in Nat
  OBVIOUS
<1> QED BY <1>1, <1>3, <1>4, <1>5, <1>6, <1>7
=============================================================================
