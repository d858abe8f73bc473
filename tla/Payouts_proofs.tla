--------------------------- MODULE Payouts_proofs ---------------------------
(***************************************************************************)
(* Drivers' money: the commission rules and the money people move, both    *)
(* composed with the maker-checker service, and the payouts.               *)
(***************************************************************************)
EXTENDS Payouts, FinanceActions, CommissionRules, Approvals_proofs

-----------------------------------------------------------------------------
(* Commission rules.  RateAsApproved says nothing of a rule that waits for  *)
(* its checker, which is where the rate comes from, nor of the operators'   *)
(* loaded rows: that they are drafts is what makes a stale write harmless.  *)

CommissionKeys == {"rule"} \X Rules

RuleType ==
  [st : {"none", "draft", "pending", "active", "archived"}, pct : Rates \cup {0},
   of : Requests \cup {Nobody}, open : BOOLEAN]

CommissionTyped ==
  /\ rule \in [Rules -> RuleType]
  /\ editor \in [Editors -> [pc : {"idle", "create", "edit", "discard", "submit"},
                             i : Rules \cup {NoEditor.i}, row : RuleType]]
  /\ asked \in [Requests -> Rates \cup {0}]
  /\ acting \in [Requests -> [on : BOOLEAN, closes : SUBSET Rules]]

LoadedDrafts ==
  \A e \in Editors :
    editor[e].pc \in {"edit", "discard", "submit"} => editor[e].i \in Rules /\ editor[e].row.st = "draft"

\* A waiting rule carries the rate its request was raised with.
WaitsFor(i, r) == req[r].st # "none" /\ req[r].key = <<"rule", i>> /\ asked[r] = rule[i].pct

PendingNamed ==
  \A i \in Rules : rule[i].st = "pending" => rule[i].of \in Requests /\ WaitsFor(i, rule[i].of)

\* An executor under way has the lock of the rule that waits for its request.
ActingHolds ==
  \A r \in Requests : acting[r].on =>
    runner[r] = "run" /\ rule[RuleOf(r)].st = "pending" /\ rule[RuleOf(r)].of = r

CommissionInv ==
  /\ ServiceInv(CommissionKeys) /\ CommissionTyped
  /\ LoadedDrafts /\ PendingNamed /\ ActingHolds /\ RateAsApproved

\* Nothing is drafted at first; the seeded rules are in force without a request.
LEMMA CommissionInitOK == ApprovalInit /\ CommissionInit => CommissionInv
<1> SUFFICES ASSUME ApprovalInit, CommissionInit PROVE CommissionInv
  OBVIOUS
<1>1. ServiceInv(CommissionKeys)
  BY ServiceInit
<1>2. NoRow \in RuleType /\ NoRow.st = "none" /\ [NoRow EXCEPT !.st = "active"] \in RuleType
      /\ [NoRow EXCEPT !.st = "active"].st = "active"
  BY DEF NoRow, RuleType
<1>3. /\ rule = [i \in Rules |-> IF i \in Seeded THEN [NoRow EXCEPT !.st = "active"] ELSE NoRow]
      /\ editor = [e \in Editors |-> NoEditor]
      /\ asked = [r \in Requests |-> 0] /\ acting = [r \in Requests |-> NotActing]
  BY DEF CommissionInit
<1>4. rule \in [Rules -> RuleType] /\ \A i \in Rules : rule[i].st = IF i \in Seeded THEN "active" ELSE "none"
  BY <1>2, <1>3
<1>5. /\ NoEditor.pc = "idle"
      /\ NoEditor \in [pc : {"idle", "create", "edit", "discard", "submit"},
                       i : Rules \cup {NoEditor.i}, row : RuleType]
  BY <1>2 DEF NoEditor
<1>6. NotActing \in [on : BOOLEAN, closes : SUBSET Rules]
  BY DEF NotActing
<1>7. ~NotActing.on
  BY Zenon DEF NotActing
<1>8. CommissionTyped
  BY <1>3, <1>4, <1>5, <1>6 DEF CommissionTyped
<1>9. LoadedDrafts
  BY <1>3, <1>5 DEF LoadedDrafts
<1>10. PendingNamed
  BY <1>4 DEF PendingNamed
<1>11. ActingHolds
  BY <1>3, <1>7 DEF ActingHolds
<1>12. RateAsApproved
  BY <1>4 DEF RateAsApproved
<1> QED BY <1>1, <1>8, <1>9, <1>10, <1>11, <1>12 DEF CommissionInv

\* Requests keep the rate they were raised with, so a rule in force keeps its approval.
LEMMA RatesKept ==
  ASSUME CommissionInv, ServiceStep(CommissionKeys) \/ UNCHANGED approvalVars,
         \A r \in Requests : req[r].st # "none" => asked'[r] = asked[r],
         \A i \in Rules : rule'[i].st \in {"active", "archived"} =>
           \/ rule[i].st \in {"active", "archived"} /\ rule'[i].pct = rule[i].pct
           \/ \E r \in Requests : ran'[r] = 1 /\ req'[r].key = <<"rule", i>> /\ asked'[r] = rule'[i].pct
  PROVE  ServiceInv(CommissionKeys)' /\ RateAsApproved'
<1>1. ServiceInv(CommissionKeys)'
  BY ServiceKept DEF CommissionInv
<1>2. ASSUME NEW i \in Rules \ Seeded, rule'[i].st \in {"active", "archived"}
      PROVE  \E r \in Requests : ran'[r] = 1 /\ req'[r].key = <<"rule", i>> /\ asked'[r] = rule'[i].pct
  <2>1. CASE rule[i].st \in {"active", "archived"} /\ rule'[i].pct = rule[i].pct
    <3>1. PICK r \in Requests : ran[r] = 1 /\ req[r].key = <<"rule", i>> /\ asked[r] = rule[i].pct
      BY <2>1 DEF CommissionInv, RateAsApproved
    <3>2. ran'[r] = 1 /\ req'[r].key = <<"rule", i>>
      BY <3>1, EffectsLast DEF CommissionInv
    <3>3. asked'[r] = asked[r]
      BY <3>1 DEF CommissionInv, ServiceInv, RunnersFollow
    <3> QED BY <2>1, <3>1, <3>2, <3>3
  <2> QED BY <1>2, <2>1
<1> QED BY <1>1, <1>2 DEF RateAsApproved

\* A rule that goes on waiting still carries its request's rate.
LEMMA PendingKept ==
  ASSUME CommissionInv, ServiceStep(CommissionKeys) \/ UNCHANGED approvalVars,
         \A r \in Requests : req[r].st # "none" => asked'[r] = asked[r],
         \A i \in Rules : rule'[i].st = "pending" =>
           \/ rule[i].st = "pending" /\ rule'[i].of = rule[i].of /\ rule'[i].pct = rule[i].pct
           \/ rule'[i].of \in Requests /\ WaitsFor(i, rule[i].of)'
  PROVE  PendingNamed'
<1> SUFFICES ASSUME NEW i \in Rules, rule'[i].st = "pending"
             PROVE  rule'[i].of \in Requests /\ WaitsFor(i, rule[i].of)'
  BY DEF PendingNamed
<1>1. CASE rule[i].st = "pending" /\ rule'[i].of = rule[i].of /\ rule'[i].pct = rule[i].pct
  <2>1. PICK r \in Requests : r = rule[i].of /\ WaitsFor(i, r)
    BY <1>1 DEF CommissionInv, PendingNamed
  <2>2. req'[r].st # "none" /\ req'[r].key = req[r].key /\ asked'[r] = asked[r]
    BY <2>1, RaisedStay DEF CommissionInv, WaitsFor
  <2> QED BY <1>1, <2>1, <2>2 DEF WaitsFor
<1> QED BY <1>1

\* An executor under way goes on holding its rule.
LEMMA ActingKept ==
  ASSUME CommissionInv, ServiceStep(CommissionKeys) \/ UNCHANGED approvalVars,
         \A r \in Requests : acting'[r].on =>
           /\ runner'[r] = "run" /\ req[r].st # "none"
           /\ rule'[RuleOf(r)].st = "pending" /\ rule'[RuleOf(r)].of = r
  PROVE  ActingHolds'
<1> SUFFICES ASSUME NEW r \in Requests, acting'[r].on
             PROVE  runner'[r] = "run" /\ rule'[RuleOf(r)'].st = "pending" /\ rule'[RuleOf(r)'].of = r
  BY DEF ActingHolds
<1>1. req'[r].key = req[r].key
  BY RaisedStay DEF CommissionInv
<1> QED BY <1>1 DEF RuleOf

\* A request that is running was raised for one of the rules.
LEMMA RunningRule ==
  ASSUME CommissionInv, NEW r \in Requests, req[r].st # "none"
  PROVE  RuleOf(r) \in Rules /\ req[r].key = <<"rule", RuleOf(r)>>
<1>1. req[r].key \in CommissionKeys
  BY DEF CommissionInv, ServiceInv, KeysRaised
<1> QED BY <1>1 DEF CommissionKeys, RuleOf

\* What an executor under way relies on.
LEMMA ActingNow ==
  ASSUME CommissionInv, NEW r \in Requests, acting[r].on
  PROVE  /\ runner[r] = "run" /\ req[r].st = "approved" /\ RuleOf(r) \in Rules
         /\ rule[RuleOf(r)].st = "pending" /\ rule[RuleOf(r)].of = r
         /\ RowLocked(RuleOf(r))
<1>1. runner[r] = "run" /\ rule[RuleOf(r)].st = "pending" /\ rule[RuleOf(r)].of = r
  BY DEF CommissionInv, ActingHolds
<1>2. req[r].st = "approved"
  BY <1>1 DEF CommissionInv, ServiceInv, RunnersFollow
<1>3. RuleOf(r) \in Rules
  BY <1>2, RunningRule
<1> QED BY <1>1, <1>2, <1>3 DEF RowLocked

\* The operators' writes: a row nobody locks becomes a draft, or nothing.
LEMMA RuleWritten ==
  ASSUME CommissionInv, NEW i \in Rules, NEW row \in RuleType, row.st \in {"none", "draft"}, ~RowLocked(i),
         rule' = [rule EXCEPT ![i] = row], CommissionTyped', LoadedDrafts',
         UNCHANGED approvalVars, UNCHANGED <<asked, acting>>
  PROVE  CommissionInv'
<1>1. rule'[i] = row /\ \A j \in Rules \ {i} : rule'[j] = rule[j]
  BY DEF CommissionInv, CommissionTyped
<1>2. ServiceInv(CommissionKeys)' /\ RateAsApproved'
  BY <1>1, RatesKept
<1>3. PendingNamed'
  BY <1>1, PendingKept
<1>4. UNCHANGED runner
  BY DEF approvalVars
<1>5. \A r \in Requests : acting'[r].on =>
        /\ runner'[r] = "run" /\ req[r].st # "none"
        /\ rule'[RuleOf(r)].st = "pending" /\ rule'[RuleOf(r)].of = r
  BY <1>1, <1>4, ActingNow
<1>6. ActingHolds'
  BY <1>5, ActingKept
<1> QED BY <1>2, <1>3, <1>6 DEF CommissionInv

\* Loading, drafting, editing and discarding.
LEMMA EditorSteps ==
  ASSUME CommissionInv, NEW e \in Editors,
         \/ DraftChecked(e) \/ create_rule_draft(e) \/ update_rule_draft(e) \/ discard_draft(e)
         \/ \E i \in Rules, pc \in {"edit", "discard", "submit"} : Loads(e, i, pc)
  PROVE  CommissionInv'
<1> DEFINE EditorType == [pc : {"idle", "create", "edit", "discard", "submit"},
                          i : Rules \cup {NoEditor.i}, row : RuleType]
<1>0. /\ rule \in [Rules -> RuleType] /\ editor \in [Editors -> EditorType]
      /\ asked \in [Requests -> Rates \cup {0}]
      /\ acting \in [Requests -> [on : BOOLEAN, closes : SUBSET Rules]]
  BY DEF CommissionInv, CommissionTyped
<1>1. UNCHANGED approvalVars /\ UNCHANGED <<asked, acting>>
  BY DEF DraftChecked, create_rule_draft, update_rule_draft, discard_draft, Loads
<1>2. NoRow \in RuleType /\ NoRow.st = "none" /\ NoEditor.pc = "idle" /\ NoEditor \in EditorType
  <2>1. NoRow \in RuleType /\ NoRow.st = "none"
    BY DEF NoRow, RuleType
  <2> QED BY <2>1 DEF NoEditor
<1>3. ASSUME NEW new \in EditorType, editor' = [editor EXCEPT ![e] = new],
             new.pc \in {"edit", "discard", "submit"} => new.i \in Rules /\ new.row.st = "draft",
             rule' \in [Rules -> RuleType]
      PROVE  CommissionTyped' /\ LoadedDrafts'
  <2>1. editor'[e] = new /\ \A f \in Editors \ {e} : editor'[f] = editor[f]
    BY <1>0, <1>3
  <2>2. LoadedDrafts'
    BY <1>3, <2>1 DEF CommissionInv, LoadedDrafts
  <2>3. editor' \in [Editors -> EditorType]
    BY <1>0, <1>3
  <2> QED BY <1>0, <1>1, <1>3, <2>2, <2>3 DEF CommissionTyped
<1>4. ASSUME UNCHANGED rule, CommissionTyped', LoadedDrafts' PROVE CommissionInv'
  <2>1. ServiceInv(CommissionKeys)' /\ RateAsApproved' /\ PendingNamed'
    BY <1>1, <1>4, RatesKept, PendingKept
  <2>2. ActingHolds'
    BY <1>1, <1>4 DEF CommissionInv, ActingHolds, RuleOf, approvalVars
  <2> QED BY <1>4, <2>1, <2>2 DEF CommissionInv
<1>5. CASE DraftChecked(e)
  <2> DEFINE new == [editor[e] EXCEPT !.pc = "create"]
  <2>1. editor' = [editor EXCEPT ![e] = new] /\ UNCHANGED rule
    BY <1>5 DEF DraftChecked
  <2>2. new \in EditorType /\ new.pc = "create"
    BY <1>0
  <2> HIDE DEF new, EditorType
  <2> QED BY <1>0, <1>3, <1>4, <2>1, <2>2
<1>6. CASE create_rule_draft(e)
  <2>1. PICK i \in Rules, pct \in Rates :
          rule[i].st = "none" /\ rule' = [rule EXCEPT ![i] = [NoRow EXCEPT !.st = "draft", !.pct = pct]]
    BY <1>6 DEF create_rule_draft
  <2>2. editor' = [editor EXCEPT ![e] = NoEditor]
    BY <1>6 DEF create_rule_draft
  <2>3. PICK row \in RuleType : row = [NoRow EXCEPT !.st = "draft", !.pct = pct] /\ row.st = "draft"
    <3>1. /\ [NoRow EXCEPT !.st = "draft", !.pct = pct] \in RuleType
          /\ [NoRow EXCEPT !.st = "draft", !.pct = pct].st = "draft"
      BY DEF NoRow, RuleType
    <3> QED BY <3>1
  <2>4. rule' \in [Rules -> RuleType] /\ rule' = [rule EXCEPT ![i] = row]
    BY <1>0, <2>1, <2>3
  <2>5. CommissionTyped' /\ LoadedDrafts'
    BY <1>2, <1>3, <2>2, <2>4
  <2>6. ~RowLocked(i)
    BY <2>1, ActingNow DEF RowLocked
  <2> QED BY <1>1, <2>3, <2>4, <2>5, <2>6, RuleWritten
<1>7. CASE update_rule_draft(e) \/ discard_draft(e)
  <2>1. editor[e].pc \in {"edit", "discard"} /\ ~RowLocked(editor[e].i) /\ editor' = [editor EXCEPT ![e] = NoEditor]
    BY <1>7 DEF update_rule_draft, discard_draft
  <2>2. PICK i \in Rules : i = editor[e].i
    BY <2>1 DEF CommissionInv, LoadedDrafts
  <2>3. editor[e].row \in RuleType /\ editor[e].row.st = "draft"
    BY <1>0, <2>1 DEF CommissionInv, LoadedDrafts
  <2>4. PICK row \in RuleType : rule' = [rule EXCEPT ![i] = row] /\ row.st \in {"none", "draft"}
    <3>1. CASE discard_draft(e)
      BY <1>2, <2>2, <3>1 DEF discard_draft
    <3>2. CASE update_rule_draft(e)
      <4>1. PICK pct \in Rates : rule' = [rule EXCEPT ![i] = [editor[e].row EXCEPT !.pct = pct]]
        BY <2>2, <3>2 DEF update_rule_draft
      <4>2. [editor[e].row EXCEPT !.pct = pct] \in RuleType /\ [editor[e].row EXCEPT !.pct = pct].st = "draft"
        BY <2>3 DEF RuleType
      <4> QED BY <4>1, <4>2
    <3> QED BY <1>7, <3>1, <3>2
  <2>5. rule' \in [Rules -> RuleType]
    BY <1>0, <2>4
  <2>6. CommissionTyped' /\ LoadedDrafts'
    BY <1>2, <1>3, <2>1, <2>5
  <2> QED BY <1>1, <2>1, <2>2, <2>4, <2>6, RuleWritten
<1>8. ASSUME NEW i \in Rules, NEW pc \in {"edit", "discard", "submit"}, Loads(e, i, pc) PROVE CommissionInv'
  <2> DEFINE new == [pc |-> pc, i |-> i, row |-> rule[i]]
  <2>1. editor' = [editor EXCEPT ![e] = new] /\ UNCHANGED rule /\ rule[i].st = "draft"
    BY <1>8 DEF Loads
  <2>2. new \in EditorType /\ new.i = i /\ new.row = rule[i]
    BY <1>0
  <2> HIDE DEF new, EditorType
  <2> QED BY <1>0, <1>3, <1>4, <2>1, <2>2
<1> QED BY <1>5, <1>6, <1>7, <1>8
\* Submitting: the request is raised with the loaded rate and the rule waits for it, or the rule's
\* key is held and nothing is written.
LEMMA SubmitOK ==
  ASSUME CommissionInv, NEW e \in Editors, NEW o \in Makers, submit(e, o)
  PROVE  CommissionInv'
<1> DEFINE EditorType == [pc : {"idle", "create", "edit", "discard", "submit"},
                          i : Rules \cup {NoEditor.i}, row : RuleType]
<1>0. /\ rule \in [Rules -> RuleType] /\ editor \in [Editors -> EditorType]
      /\ asked \in [Requests -> Rates \cup {0}] /\ ServiceInv(CommissionKeys)
      /\ acting \in [Requests -> [on : BOOLEAN, closes : SUBSET Rules]]
  BY DEF CommissionInv, CommissionTyped
<1>1. editor[e].pc = "submit" /\ editor' = [editor EXCEPT ![e] = NoEditor] /\ UNCHANGED acting
  BY DEF submit
<1>2. PICK i \in Rules : i = editor[e].i
  BY <1>1 DEF CommissionInv, LoadedDrafts
<1>3. PICK old \in RuleType : old = editor[e].row
  BY <1>0
<1>4. PICK r \in Requests :
        /\ require_approval_or_execute(o, <<"rule", i>>, TRUE, r)
        /\ IF Existing(<<"rule", i>>) # {}
           THEN UNCHANGED <<rule, asked>>
           ELSE /\ ~RowLocked(i)
                /\ asked' = [asked EXCEPT ![r] = old.pct]
                /\ rule' = [rule EXCEPT ![i] = [old EXCEPT !.st = "pending", !.of = r]]
  BY <1>2, <1>3 DEF submit
<1>5. <<"rule", i>> \in CommissionKeys
  BY DEF CommissionKeys
<1>6. ServiceStep(CommissionKeys)
  BY <1>4, <1>5, ApprovalConstants DEF ServiceStep, Raises
<1>7. UNCHANGED runner
  BY <1>0, <1>4, RaisesFresh
<1>8. NoEditor.pc = "idle" /\ NoEditor \in EditorType
  BY DEF NoEditor, NoRow, RuleType
<1>9. editor' \in [Editors -> EditorType] /\ LoadedDrafts'
  <2>1. editor'[e] = NoEditor /\ \A f \in Editors \ {e} : editor'[f] = editor[f]
    BY <1>0, <1>1
  <2> QED BY <1>0, <1>1, <1>8, <2>1 DEF CommissionInv, LoadedDrafts
<1>10. \A s \in Requests : acting'[s].on => runner'[s] = "run" /\ req[s].st # "none"
  BY <1>1, <1>7, ActingNow
<1>11. CASE Existing(<<"rule", i>>) # {}
  <2>1. UNCHANGED <<rule, asked>>
    BY <1>4, <1>11
  <2>2. ServiceInv(CommissionKeys)' /\ RateAsApproved' /\ PendingNamed'
    BY <1>6, <2>1, RatesKept, PendingKept
  <2>3. ActingHolds'
    BY <1>1, <1>6, <1>10, <2>1, ActingNow, ActingKept
  <2>4. CommissionTyped'
    BY <1>0, <1>1, <1>9, <2>1 DEF CommissionTyped
  <2> QED BY <1>9, <2>2, <2>3, <2>4 DEF CommissionInv
<1>12. CASE Existing(<<"rule", i>>) = {}
  <2>1. /\ ~RowLocked(i) /\ asked' = [asked EXCEPT ![r] = old.pct]
        /\ rule' = [rule EXCEPT ![i] = [old EXCEPT !.st = "pending", !.of = r]]
    BY <1>4, <1>12
  <2>2. PICK row \in RuleType :
          /\ row = [old EXCEPT !.st = "pending", !.of = r]
          /\ row.st = "pending" /\ row.of = r /\ row.pct = old.pct
    <3>1. [old EXCEPT !.st = "pending", !.of = r] \in RuleType
      BY DEF RuleType
    <3>2. /\ [old EXCEPT !.st = "pending", !.of = r].st = "pending"
          /\ [old EXCEPT !.st = "pending", !.of = r].of = r
          /\ [old EXCEPT !.st = "pending", !.of = r].pct = old.pct
      BY DEF RuleType
    <3> QED BY <3>1, <3>2
  <2>3. rule'[i] = row /\ \A j \in Rules \ {i} : rule'[j] = rule[j]
    BY <1>0, <2>1, <2>2
  <2>4. req[r].st = "none" /\ req'[r].st = "requested" /\ req'[r].key = <<"rule", i>>
    <3>1. /\ r \in Fresh
          /\ req' = [req EXCEPT ![r] = [st |-> "requested", key |-> <<"rule", i>>, within |-> FALSE,
                                        maker |-> o, checker |-> Nobody]]
      BY <1>4, <1>12 DEF require_approval_or_execute
    <3>2. req \in [Requests -> RequestType(CommissionKeys)]
      BY DEF CommissionInv, ServiceInv, ServiceTypes
    <3> QED BY <3>1, <3>2 DEF Fresh
  <2>5. asked'[r] = old.pct /\ \A s \in Requests : req[s].st # "none" => asked'[s] = asked[s]
    BY <1>0, <2>1, <2>4
  <2>6. WaitsFor(i, rule[i].of)'
    BY <2>2, <2>3, <2>4, <2>5 DEF WaitsFor
  <2>7. ServiceInv(CommissionKeys)' /\ RateAsApproved'
    BY <1>6, <2>2, <2>3, <2>5, RatesKept
  <2>8. PendingNamed'
    <3>1. \A j \in Rules : rule'[j].st = "pending" =>
            \/ rule[j].st = "pending" /\ rule'[j].of = rule[j].of /\ rule'[j].pct = rule[j].pct
            \/ rule'[j].of \in Requests /\ WaitsFor(j, rule[j].of)'
      BY <2>2, <2>3, <2>6
    <3> QED BY <1>6, <2>5, <3>1, PendingKept
  <2>9. ActingHolds'
    <3>1. \A s \in Requests : acting'[s].on =>
            rule'[RuleOf(s)].st = "pending" /\ rule'[RuleOf(s)].of = s
      BY <1>1, <2>1, <2>3, ActingNow
    <3> QED BY <1>6, <1>10, <3>1, ActingKept
  <2>10. CommissionTyped'
    <3>1. rule' \in [Rules -> RuleType]
      BY <1>0, <2>1, <2>2
    <3>2. old.pct \in Rates \cup {0}
      BY DEF RuleType
    <3>3. asked' \in [Requests -> Rates \cup {0}]
      BY <1>0, <2>1, <3>2
    <3> QED BY <1>0, <1>1, <1>9, <3>1, <3>3 DEF CommissionTyped
  <2> QED BY <1>9, <2>7, <2>8, <2>9, <2>10 DEF CommissionInv
<1> QED BY <1>11, <1>12

\* A step of the service and the executors: the operators and the payloads are as before.
LEMMA ServiceSide ==
  ASSUME CommissionInv, ServiceStep(CommissionKeys) \/ UNCHANGED approvalVars, UNCHANGED <<editor, asked>>,
         rule' \in [Rules -> RuleType],
         acting' \in [Requests -> [on : BOOLEAN, closes : SUBSET Rules]],
         \A i \in Rules : rule'[i].st \in {"active", "archived"} =>
           \/ rule[i].st \in {"active", "archived"} /\ rule'[i].pct = rule[i].pct
           \/ \E r \in Requests : ran'[r] = 1 /\ req'[r].key = <<"rule", i>> /\ asked'[r] = rule'[i].pct,
         \A i \in Rules : rule'[i].st = "pending" =>
           rule[i].st = "pending" /\ rule'[i].of = rule[i].of /\ rule'[i].pct = rule[i].pct,
         \A r \in Requests : acting'[r].on =>
           /\ runner'[r] = "run" /\ req[r].st # "none"
           /\ rule'[RuleOf(r)].st = "pending" /\ rule'[RuleOf(r)].of = r
  PROVE  CommissionInv'
<1>1. ServiceInv(CommissionKeys)' /\ RateAsApproved'
  BY RatesKept
<1>2. PendingNamed'
  BY PendingKept
<1>3. ActingHolds'
  BY ActingKept
<1>4. CommissionTyped' /\ LoadedDrafts'
  BY DEF CommissionInv, CommissionTyped, LoadedDrafts
<1> QED BY <1>1, <1>2, <1>3, <1>4 DEF CommissionInv

\* Approval, the recording of an outcome, and closed requests.
LEMMA RuleDecided ==
  ASSUME CommissionInv, NEW r \in Requests,
         \/ \E o \in Operators : approve(r, o) /\ UNCHANGED commissionVars
         \/ \E o \in Operators : (reject(r, o) \/ cancel(r, o)) /\ _request_closed(r)
         \/ expire_stale(r) /\ _request_closed(r)
         \/ _finish(r) /\ UNCHANGED commissionVars
  PROVE  CommissionInv'
<1>0. /\ rule \in [Rules -> RuleType] /\ ServiceInv(CommissionKeys)
      /\ acting \in [Requests -> [on : BOOLEAN, closes : SUBSET Rules]]
      /\ runner \in [Requests -> {"none", "run", "ran", "refused"}]
  BY DEF CommissionInv, CommissionTyped, ServiceInv, ServiceTypes
<1>1. ServiceStep(CommissionKeys)
  BY DEF ServiceStep, Decides, RunnerMoves
<1>2. UNCHANGED <<editor, asked, acting>>
  BY DEF commissionVars, _request_closed
<1>3. \A s \in Requests : acting'[s].on => acting[s].on /\ runner'[s] = "run" /\ req[s].st # "none"
  <2>1. \A s \in Requests : acting[s].on => runner[s] = "run" /\ req[s].st = "approved"
    BY ActingNow
  <2>2. \/ UNCHANGED runner
        \/ req[r].st = "requested" /\ runner' = [runner EXCEPT ![r] = "run"]
        \/ runner[r] \in {"ran", "refused"} /\ runner' = [runner EXCEPT ![r] = "none"]
    BY DEF approve, reject, cancel, expire_stale, Closed, _finish
  <2> QED BY <1>0, <1>2, <2>1, <2>2
<1>4. CASE UNCHANGED rule
  BY <1>0, <1>1, <1>2, <1>3, <1>4, ActingNow, ServiceSide
<1>5. ASSUME req[r].st = "requested", _request_closed(r) PROVE CommissionInv'
  <2>1. PICK i \in Rules : i = RuleOf(r)
    BY <1>5, RunningRule
  <2> DEFINE st == IF rule[i].st = "pending" /\ rule[i].of = r THEN "draft" ELSE rule[i].st
             row == [rule[i] EXCEPT !.st = st]
  <2>2. rule' = [rule EXCEPT ![i] = row]
    BY <1>5, <2>1 DEF _request_closed
  <2>3. st = rule[i].st \/ (st = "draft" /\ rule[i].st = "pending" /\ rule[i].of = r)
    OBVIOUS
  <2> HIDE DEF st
  <2>4. row \in RuleType /\ row.st = st /\ row.of = rule[i].of /\ row.pct = rule[i].pct
    BY <1>0, <2>3 DEF RuleType
  <2> HIDE DEF row
  <2>5. rule'[i] = row /\ (\A j \in Rules \ {i} : rule'[j] = rule[j]) /\ rule' \in [Rules -> RuleType]
    BY <1>0, <2>2, <2>4
  <2>6. \A s \in Requests : acting'[s].on => rule'[RuleOf(s)].st = "pending" /\ rule'[RuleOf(s)].of = s
    <3> SUFFICES ASSUME NEW s \in Requests, acting'[s].on
                 PROVE  rule'[RuleOf(s)].st = "pending" /\ rule'[RuleOf(s)].of = s
      OBVIOUS
    <3>1. /\ RuleOf(s) \in Rules /\ rule[RuleOf(s)].st = "pending" /\ rule[RuleOf(s)].of = s
          /\ req[s].st = "approved"
      BY <1>3, ActingNow
    <3>2. s # r
      BY <1>5, <3>1
    <3> QED BY <2>3, <2>4, <2>5, <3>1, <3>2
  <2>7. \A j \in Rules : rule'[j].st \in {"active", "archived"} =>
          rule[j].st \in {"active", "archived"} /\ rule'[j].pct = rule[j].pct
    BY <2>3, <2>4, <2>5
  <2>8. \A j \in Rules : rule'[j].st = "pending" =>
          rule[j].st = "pending" /\ rule'[j].of = rule[j].of /\ rule'[j].pct = rule[j].pct
    BY <2>3, <2>4, <2>5
  <2> QED BY <1>0, <1>1, <1>2, <1>3, <2>5, <2>6, <2>7, <2>8, ServiceSide
<1> QED BY <1>4, <1>5 DEF commissionVars, reject, cancel, expire_stale

\* The executor: it takes the rule's lock, activates the rule, refuses, or is killed.
LEMMA RuleExecuted ==
  ASSUME CommissionInv, NEW r \in Requests, ActivationStarts(r) \/ activate_rule(r) \/ ActivationDies(r)
  PROVE  CommissionInv'
<1>0. /\ rule \in [Rules -> RuleType] /\ ServiceInv(CommissionKeys)
      /\ acting \in [Requests -> [on : BOOLEAN, closes : SUBSET Rules]]
      /\ runner \in [Requests -> {"none", "run", "ran", "refused"}]
  BY DEF CommissionInv, CommissionTyped, ServiceInv, ServiceTypes
<1>1. ServiceStep(CommissionKeys) \/ UNCHANGED approvalVars
  BY DEF ActivationStarts, activate_rule, ActivationDies, ServiceStep, RunnerMoves
<1>2. UNCHANGED <<editor, asked>>
  BY DEF ActivationStarts, activate_rule, ActivationDies
<1>3. \A s \in Requests : acting[s].on =>
        /\ runner[s] = "run" /\ req[s].st # "none" /\ RuleOf(s) \in Rules
        /\ rule[RuleOf(s)].st = "pending" /\ rule[RuleOf(s)].of = s
  BY ActingNow
<1>4. NotActing \in [on : BOOLEAN, closes : SUBSET Rules]
  BY DEF NotActing
<1>5. ~NotActing.on
  BY Zenon DEF NotActing
<1>6. CASE ActivationStarts(r) /\ Refuses(r) /\ UNCHANGED acting
  <2>1. UNCHANGED <<rule, acting>> /\ ~acting[r].on
    BY <1>6 DEF ActivationStarts
  <2>2. \A s \in Requests \ {r} : runner'[s] = runner[s]
    BY <1>0, <1>6 DEF Refuses
  <2> QED BY <1>0, <1>1, <1>2, <1>3, <2>1, <2>2, ServiceSide
<1>7. CASE ActivationStarts(r) /\ UNCHANGED approvalVars
  <2>1. /\ runner[r] = "run" /\ UNCHANGED rule /\ UNCHANGED runner
        /\ \/ /\ rule[RuleOf(r)].st = "pending" /\ rule[RuleOf(r)].of = r
              /\ acting' = [acting EXCEPT ![r] = [on |-> TRUE, closes |-> OpenSiblings(RuleOf(r))]]
           \/ UNCHANGED acting
    BY <1>7 DEF ActivationStarts, approvalVars
  <2>2. req[r].st # "none"
    BY <1>0, <2>1 DEF ServiceInv, RunnersFollow
  <2>3. OpenSiblings(RuleOf(r)) \subseteq Rules
    BY DEF OpenSiblings
  <2>4. acting' \in [Requests -> [on : BOOLEAN, closes : SUBSET Rules]]
    <3>1. PICK closes \in SUBSET Rules : closes = OpenSiblings(RuleOf(r))
      BY <2>3
    <3>2. [on |-> TRUE, closes |-> closes] \in [on : BOOLEAN, closes : SUBSET Rules]
      OBVIOUS
    <3> QED BY <1>0, <2>1, <3>1, <3>2
  <2>5. \A s \in Requests \ {r} : acting'[s] = acting[s]
    BY <1>0, <2>1
  <2>6. \A s \in Requests : acting'[s].on =>
          /\ runner'[s] = "run" /\ req[s].st # "none"
          /\ rule'[RuleOf(s)].st = "pending" /\ rule'[RuleOf(s)].of = s
    BY <1>3, <2>1, <2>2, <2>5
  <2> QED BY <1>0, <1>1, <1>2, <2>1, <2>4, <2>6, ServiceSide
<1>8. CASE ActivationDies(r)
  <2>1. UNCHANGED rule /\ acting' = [acting EXCEPT ![r] = NotActing] /\ runner' = [runner EXCEPT ![r] = "none"]
    BY <1>8 DEF ActivationDies, RunnerDies
  <2>2. /\ acting' \in [Requests -> [on : BOOLEAN, closes : SUBSET Rules]]
        /\ acting'[r] = NotActing
        /\ \A s \in Requests \ {r} : acting'[s] = acting[s] /\ runner'[s] = runner[s]
    BY <1>0, <1>4, <2>1
  <2> QED BY <1>0, <1>1, <1>2, <1>3, <1>5, <2>1, <2>2, ServiceSide
<1>9. CASE activate_rule(r)
  <2>1. runner[r] = "run" /\ acting[r].on /\ Executes(r) /\ acting' = [acting EXCEPT ![r] = NotActing]
    BY <1>9 DEF activate_rule
  <2>2. PICK i \in Rules : i = RuleOf(r)
    BY <1>3, <2>1
  <2>3. rule[i].st = "pending" /\ rule[i].of = r /\ req[r].key = <<"rule", i>> /\ asked[r] = rule[i].pct
    <3>1. rule[i].st = "pending" /\ rule[i].of = r
      BY <1>3, <2>1, <2>2
    <3>2. WaitsFor(i, r)
      BY <3>1 DEF CommissionInv, PendingNamed
    <3> QED BY <3>1, <3>2 DEF WaitsFor
  <2>4. PICK closed \in SUBSET OpenSiblings(i) :
          rule' = [j \in Rules |-> IF j = i THEN [rule[j] EXCEPT !.st = "active"]
                                   ELSE IF j \in closed THEN [rule[j] EXCEPT !.st = "archived", !.open = FALSE]
                                   ELSE rule[j]]
    <3> DEFINE closed == acting[r].closes \cap OpenSiblings(i)
    <3>1. closed \in SUBSET OpenSiblings(i)
      OBVIOUS
    <3>2. rule' = [j \in Rules |-> IF j = i THEN [rule[j] EXCEPT !.st = "active"]
                                   ELSE IF j \in closed THEN [rule[j] EXCEPT !.st = "archived", !.open = FALSE]
                                   ELSE rule[j]]
      BY <1>9, <2>2 DEF activate_rule
    <3> HIDE DEF closed
    <3> QED BY <3>1, <3>2
  <2>5. \A j \in closed : rule[j].st \in {"active", "archived"}
    BY <2>4 DEF OpenSiblings
  <2>6. rule' \in [Rules -> RuleType]
    <3>1. \A j \in Rules : [rule[j] EXCEPT !.st = "active"] \in RuleType
      BY <1>0 DEF RuleType
    <3>2. \A j \in Rules : [rule[j] EXCEPT !.st = "archived", !.open = FALSE] \in RuleType
      BY <1>0 DEF RuleType
    <3> QED BY <1>0, <2>4, <3>1, <3>2
  <2>7. /\ rule'[i].st = "active" /\ rule'[i].pct = rule[i].pct
        /\ \A j \in Rules \ {i} :
             \/ rule'[j] = rule[j]
             \/ /\ rule[j].st \in {"active", "archived"} /\ rule'[j].st = "archived"
                /\ rule'[j].pct = rule[j].pct
    BY <1>0, <2>4, <2>5 DEF RuleType
  <2>8. ran'[r] = 1 /\ req'[r].key = req[r].key
    BY <1>0, <2>1, RunnerHolds
  <2>9. /\ acting' \in [Requests -> [on : BOOLEAN, closes : SUBSET Rules]]
        /\ acting'[r] = NotActing
        /\ \A s \in Requests \ {r} : acting'[s] = acting[s] /\ runner'[s] = runner[s]
    BY <1>0, <1>4, <2>1 DEF Executes
  <2>10. \A s \in Requests : acting'[s].on =>
           /\ runner'[s] = "run" /\ req[s].st # "none"
           /\ rule'[RuleOf(s)].st = "pending" /\ rule'[RuleOf(s)].of = s
    <3> SUFFICES ASSUME NEW s \in Requests, acting'[s].on
                 PROVE  /\ runner'[s] = "run" /\ req[s].st # "none"
                        /\ rule'[RuleOf(s)].st = "pending" /\ rule'[RuleOf(s)].of = s
      OBVIOUS
    <3>1. s # r /\ acting[s].on
      BY <1>5, <2>9
    <3>2. /\ runner[s] = "run" /\ req[s].st # "none" /\ RuleOf(s) \in Rules
          /\ rule[RuleOf(s)].st = "pending" /\ rule[RuleOf(s)].of = s
      BY <1>3, <3>1
    <3>3. RuleOf(s) # i
      BY <2>3, <3>1, <3>2
    <3> QED BY <2>7, <2>9, <3>1, <3>2, <3>3
  <2>11. \A j \in Rules : rule'[j].st \in {"active", "archived"} =>
           \/ rule[j].st \in {"active", "archived"} /\ rule'[j].pct = rule[j].pct
           \/ \E s \in Requests : ran'[s] = 1 /\ req'[s].key = <<"rule", j>> /\ asked[s] = rule'[j].pct
    BY <2>3, <2>7, <2>8
  <2>12. \A j \in Rules : rule'[j].st = "pending" =>
           rule[j].st = "pending" /\ rule'[j].of = rule[j].of /\ rule'[j].pct = rule[j].pct
    BY <2>7
  <2> QED BY <1>1, <1>2, <2>6, <2>9, <2>10, <2>11, <2>12, ServiceSide
<1> QED BY <1>6, <1>7, <1>8, <1>9 DEF ActivationStarts

\* Every step of the composition keeps the invariant.
LEMMA CommissionStep == CommissionInv /\ [CommissionNext]_<<approvalVars, commissionVars>> => CommissionInv'
<1> SUFFICES ASSUME CommissionInv, [CommissionNext]_<<approvalVars, commissionVars>> PROVE CommissionInv'
  OBVIOUS
<1>1. CASE UNCHANGED <<approvalVars, commissionVars>>
  <2>1. UNCHANGED approvalVars /\ UNCHANGED <<runner, rule, editor, asked, acting>>
    BY <1>1 DEF approvalVars, commissionVars
  <2>2. rule \in [Rules -> RuleType] /\ acting \in [Requests -> [on : BOOLEAN, closes : SUBSET Rules]]
    BY DEF CommissionInv, CommissionTyped
  <2> QED BY <2>1, <2>2, ActingNow, ServiceSide
<1>2. CASE CommissionNext
  BY <1>2, EditorSteps, SubmitOK, RuleDecided, RuleExecuted DEF CommissionNext
<1> QED BY <1>1, <1>2

\* A driver is never charged a rate that a second person did not approve for that rule, although
\* edits, discards and submissions work on rows loaded earlier and take no lock, for any number of
\* rules, operators, requests and killed executors (activate_rule, update_rule_draft, submit).
THEOREM RatesAsApproved == CommissionSpec => []RateAsApproved
<1>1. ApprovalInit /\ CommissionInit => CommissionInv
  BY CommissionInitOK
<1>2. CommissionInv => RateAsApproved
  BY DEF CommissionInv
<1> QED BY <1>1, <1>2, CommissionStep, PTL DEF CommissionSpec

\* The maker-checker service keeps its promise under the commission rules.
THEOREM CommissionRunsOnce == CommissionSpec => []RunsAtMostOnce
<1>1. ApprovalInit /\ CommissionInit => CommissionInv
  BY CommissionInitOK
<1>2. CommissionInv => RunsAtMostOnce
  BY RunsOnce DEF CommissionInv
<1> QED BY <1>1, <1>2, CommissionStep, PTL DEF CommissionSpec

-----------------------------------------------------------------------------
(* Money moved by people.  What a request takes is a positive amount its    *)
(* key carries, which is what the service's invariant adds here; the debt   *)
(* rows need their types, for subtraction.  The refunds are a finite set of *)
(* rows with amounts, so that their sum grows by each refund's amount.      *)

FinanceKeys == ({"refund", "recovery"} \X {1, 2} \X Sums) \cup ({"credit", "debit"} \X {1} \X Sums)

DebtType == [requested : Nat, forfeited : Nat, recovered : Nat]

RefundsCovered ==
  refunds \subseteq Requests \X Nat /\ IsFiniteSet(refunds) /\ refunded_minor <= Paid

FinanceInv ==
  /\ ServiceInv(FinanceKeys)
  /\ balance \in Nat
  /\ hold[1] \in {"none", "held", "released", "forfeited"} /\ hold[2] \in Nat
  /\ debts \in [Requests -> DebtType]
  /\ BalancesCovered /\ RefundsCovered

\* The sum of the rows' amounts, which is what was refunded.
AmountsOf(S) == MapThenSumSet(LAMBDA e : e[2], S)

\* The amount refunded is the sum over the refund rows, before and after a step.
LEMMA RefundedIs == refunded_minor = AmountsOf(refunds) /\ refunded_minor' = AmountsOf(refunds')
BY DEF refunded_minor, AmountsOf, MapThenSumSet, MapThenFoldSet

\* The library's sum of the amounts is a sum in the sense of the lemmas on sums.
LEMMA AmountsAre ==
  ASSUME NEW S, IsFiniteSet(S)
  PROVE  AmountsOf(S) = SumOf([e \in S |-> e[2]], S)
<1> DEFINE F == [e \in S |-> e[2]]
           P(i) == i = [s \in SUBSET S |->
                          IF s = {} THEN 0
                          ELSE (CHOOSE x \in s : TRUE)[2] + i[s \ {CHOOSE x \in s : TRUE}]]
           it == CHOOSE i : P(i)
<1>2. \A i : IsSum(i, F, S) <=> P(i)
  <2>1. \A s \in SUBSET S : s # {} => F[Chosen(s)] = (CHOOSE x \in s : TRUE)[2]
    BY ChosenIn DEF Chosen
  <2> QED BY <2>1 DEF IsSum, Chosen
<1>3. IsSum(it, F, S)
  <2>1. \E i : IsSum(i, F, S)
    BY SumExists
  <2> HIDE DEF P
  <2>2. \E i : P(i)
    BY <1>2, <2>1
  <2> QED BY <1>2, <2>2
<1>4. AmountsOf(S) = it[S]
  BY DEF AmountsOf, MapThenSumSet, MapThenFoldSet
<1>5. PICK j : IsSum(j, F, S) /\ SumOf(F, S) = j[S]
  BY SumIs
<1>6. it[S] = j[S]
  BY <1>3, <1>5, SumUnique
<1> QED BY <1>4, <1>5, <1>6

\* A refund of what is left at most keeps the sum within what was paid.
LEMMA RefundAdds ==
  ASSUME RefundsCovered, NEW r \in Requests, NEW a \in Nat, a <= refundable_minor,
         refunds' = refunds \cup {<<r, a>>}
  PROVE  RefundsCovered'
<1>1. PICK S : S = refunds /\ S \subseteq Requests \X Nat /\ IsFiniteSet(S)
  BY DEF RefundsCovered
<1>2. PICK e \in Requests \X Nat : e = <<r, a>> /\ e[2] = a
  <2>1. <<r, a>> \in Requests \X Nat /\ <<r, a>>[2] = a
    OBVIOUS
  <2> QED BY <2>1
<1>3. PICK T : T = refunds' /\ T = S \cup {e} /\ T \subseteq Requests \X Nat /\ IsFiniteSet(T)
  BY <1>1, <1>2, FS_AddElement
<1> DEFINE F == [x \in S |-> x[2]]
           G == [x \in T |-> x[2]]
<1>4. (\A x \in S : F[x] = G[x] /\ F[x] \in Nat) /\ (\A x \in T : G[x] \in Nat) /\ G[e] = a
  BY <1>1, <1>2, <1>3
<1>5. refunded_minor = SumOf(F, S) /\ refunded_minor' = SumOf(G, T)
  BY <1>1, <1>3, RefundedIs, AmountsAre
<1> HIDE DEF F, G
<1>6. SumOf(F, S) = SumOf(G, S) /\ SumOf(G, S) \in Nat
  <2>1. SumOf(F, S) = SumOf(G, S)
    BY <1>1, <1>4, SumSame
  <2>2. SumOf(F, S) \in Nat
    BY <1>1, <1>4, SumNat
  <2> QED BY <2>1, <2>2
<1>7. SumOf(G, T) = SumOf(G, S) \/ SumOf(G, T) = SumOf(G, S) + a
  <2>1. CASE e \in S
    BY <1>3, <2>1
  <2>2. CASE e \notin S
    <3>1. \A y \in S \cup {e} : G[y] \in Nat
      BY <1>3, <1>4
    <3>2. SumOf(G, S \cup {e}) = SumOf(G, S) + G[e]
      BY <1>1, <2>2, <3>1, SumAdd
    <3> QED BY <1>3, <1>4, <3>2
  <2> QED BY <2>1, <2>2
<1>8. SumOf(G, T) <= Paid
  <2>1. SumOf(F, S) <= Paid
    BY <1>5 DEF RefundsCovered
  <2>2. a <= Paid - SumOf(F, S)
    BY <1>5 DEF refundable_minor
  <2>3. Paid \in Nat
    BY FinanceConstants
  <2> QED BY <1>6, <1>7, <2>1, <2>2, <2>3
<1> QED BY <1>3, <1>5, <1>8 DEF RefundsCovered

\* Rows that are left alone stay covered.
LEMMA RefundsStay ==
  ASSUME RefundsCovered, UNCHANGED refunds
  PROVE  RefundsCovered'
BY RefundedIs DEF RefundsCovered

\* A balance to start with, no hold and no debt.
LEMMA FinanceInitOK == ApprovalInit /\ FinanceInit => FinanceInv
<1> SUFFICES ASSUME ApprovalInit, FinanceInit PROVE FinanceInv
  OBVIOUS
<1>1. ServiceInv(FinanceKeys)
  BY ServiceInit
<1>2. NoDebt \in DebtType /\ NoDebt.requested = 0 /\ NoDebt.forfeited = 0 /\ NoDebt.recovered = 0
  BY DEF NoDebt, DebtType
<1>3. balance = StartingBalance /\ hold = <<"none", 0>> /\ debts = [r \in Requests |-> NoDebt]
  BY DEF FinanceInit
<1>4. BalancesCovered
  BY <1>2, <1>3, FinanceConstants DEF BalancesCovered, remaining_minor
<1>5. RefundsCovered
  <2>1. refunds = {} /\ IsFiniteSet({})
    BY FS_EmptySet DEF FinanceInit
  <2>2. refunded_minor = 0
    BY <2>1, RefundedIs, AmountsAre, SumEmpty
  <2> QED BY <2>1, <2>2, FinanceConstants DEF RefundsCovered
<1> QED BY <1>1, <1>2, <1>3, <1>4, <1>5, FinanceConstants DEF FinanceInv

\* What is available is never more than the balance, held or not.
LEMMA AvailableBound ==
  ASSUME FinanceInv
  PROVE  available_minor \in Nat /\ available_minor <= balance
BY DEF FinanceInv, available_minor, held_minor

\* A process about to run a request has an amount to move.
LEMMA RunningAmount ==
  ASSUME FinanceInv, NEW r \in Requests, runner[r] = "run"
  PROVE  Amount(r) \in Nat /\ Amount(r) > 0
<1>1. req[r].key \in FinanceKeys
  BY DEF FinanceInv, ServiceInv, RunnersFollow, KeysRaised
<1>2. \A k \in FinanceKeys : k[3] \in Sums
  BY DEF FinanceKeys
<1>3. Amount(r) \in Sums
  BY <1>1, <1>2 DEF Amount
<1>4. PICK a \in Nat \ {0} : a = Amount(r)
  BY <1>3, FinanceConstants
<1>5. a \in Nat /\ a > 0
  OBVIOUS
<1> QED BY <1>4, <1>5

\* Raising, deciding and recording move no money.
LEMMA FinanceServiceSide ==
  ASSUME FinanceInv, ServiceStep(FinanceKeys) \/ UNCHANGED approvalVars,
         UNCHANGED <<balance, hold, debts>>, RefundsCovered'
  PROVE  FinanceInv'
<1>1. ServiceInv(FinanceKeys)'
  BY ServiceKept DEF FinanceInv
<1> QED BY <1>1 DEF FinanceInv, BalancesCovered, remaining_minor

\* A step that moves money: the balance and the debts it leaves are covered.
LEMMA FinanceMoves ==
  ASSUME FinanceInv, ServiceStep(FinanceKeys) \/ UNCHANGED approvalVars, UNCHANGED refunds,
         balance' \in Nat, hold'[1] \in {"none", "held", "released", "forfeited"}, hold'[2] \in Nat,
         debts' \in [Requests -> DebtType],
         \A r \in Requests :
           \/ debts'[r] = debts[r]
           \/ debts'[r].requested >= debts'[r].forfeited + debts'[r].recovered
  PROVE  FinanceInv'
<1>1. ServiceInv(FinanceKeys)'
  BY ServiceKept DEF FinanceInv
<1>2. \A r \in Requests : remaining_minor(r)' >= 0
  <2> SUFFICES ASSUME NEW r \in Requests PROVE remaining_minor(r)' >= 0
    OBVIOUS
  <2>1. PICK d \in DebtType : d = debts'[r]
    OBVIOUS
  <2>2. d.requested \in Nat /\ d.forfeited \in Nat /\ d.recovered \in Nat
    BY DEF DebtType
  <2>3. debts'[r] = debts[r] => d.requested - d.forfeited - d.recovered >= 0
    BY <2>1 DEF FinanceInv, BalancesCovered, remaining_minor
  <2> QED BY <2>1, <2>2, <2>3 DEF remaining_minor
<1>3. RefundsCovered'
  BY RefundsStay DEF FinanceInv
<1> QED BY <1>1, <1>2, <1>3 DEF FinanceInv, BalancesCovered

\* Raising a request.
LEMMA MakersRaise ==
  ASSUME FinanceInv, NEW o \in Makers, admin_refund_trip(o) \/ driver_adjust(o) \/ request_recovery(o)
  PROVE  FinanceInv'
<1>0. o \in Operators /\ \A a \in Sums : decide(a) \in BOOLEAN
  BY ApprovalConstants DEF decide
<1>1. UNCHANGED <<balance, hold, debts>> /\ UNCHANGED refunds
  BY DEF admin_refund_trip, driver_adjust, request_recovery, financeVars
<1>2. \E key \in FinanceKeys, needs_checker \in BOOLEAN, r \in Requests :
        require_approval_or_execute(o, key, needs_checker, r)
  <2>1. CASE admin_refund_trip(o)
    <3>1. PICK k \in {1, 2}, a \in Sums, r \in Requests :
            require_approval_or_execute(o, <<"refund", k, a>>, decide(a), r)
      BY <2>1 DEF admin_refund_trip
    <3>2. <<"refund", k, a>> \in FinanceKeys
      BY DEF FinanceKeys
    <3> QED BY <1>0, <3>1, <3>2
  <2>2. CASE driver_adjust(o)
    <3>1. PICK a \in Sums, r \in Requests :
            \/ require_approval_or_execute(o, <<"credit", 1, a>>, decide(a), r)
            \/ require_approval_or_execute(o, <<"debit", 1, a>>, decide(a), r)
      BY <2>2 DEF driver_adjust
    <3>2. <<"credit", 1, a>> \in FinanceKeys /\ <<"debit", 1, a>> \in FinanceKeys
      BY DEF FinanceKeys
    <3> QED BY <1>0, <3>1, <3>2
  <2>3. CASE request_recovery(o)
    <3>1. PICK a \in Sums, k \in {1, 2}, r \in Requests :
            require_approval_or_execute(o, <<"recovery", k, a>>, TRUE, r)
      BY <2>3 DEF request_recovery
    <3>2. <<"recovery", k, a>> \in FinanceKeys
      BY DEF FinanceKeys
    <3> QED BY <3>1, <3>2
  <2> QED BY <2>1, <2>2, <2>3
<1>3. ServiceStep(FinanceKeys)
  BY <1>0, <1>2 DEF ServiceStep, Raises
<1>4. RefundsCovered'
  BY <1>1, RefundsStay DEF FinanceInv
<1> QED BY <1>1, <1>3, <1>4, FinanceServiceSide

\* The hold: taken, released, or decided with the flag.
LEMMA HoldMoves ==
  ASSUME FinanceInv, hold_for_flag \/ on_decision \/ release_due
  PROVE  FinanceInv'
<1>1. UNCHANGED approvalVars /\ UNCHANGED <<balance, debts, refunds>>
  BY DEF hold_for_flag, on_decision, release_due
<1>2. Lowest(Linked, available_minor) \in Nat
  BY AvailableBound, FinanceConstants DEF Lowest
<1>3. hold'[1] \in {"none", "held", "released", "forfeited"} /\ hold'[2] \in Nat
  <2>1. CASE hold_for_flag
    BY <1>2, <2>1 DEF hold_for_flag
  <2>2. CASE on_decision
    BY <2>2 DEF on_decision, FinanceInv
  <2>3. CASE release_due
    BY <2>3 DEF release_due, FinanceInv
  <2> QED BY <2>1, <2>2, <2>3
<1> QED BY <1>1, <1>3, FinanceMoves DEF FinanceInv

\* The three executors, and the check before a recovery.
LEMMA MoneyExecuted ==
  ASSUME FinanceInv, NEW r \in Requests,
         execute_refund(r) \/ execute_driver_adjustment(r) \/ RecoveryChecks(r) \/ execute_recovery(r)
  PROVE  FinanceInv'
<1>0. runner[r] = "run" /\ Amount(r) \in Nat
  BY RunningAmount DEF execute_refund, execute_driver_adjustment, RecoveryChecks, execute_recovery
<1>1. ServiceStep(FinanceKeys) \/ UNCHANGED approvalVars
  BY DEF execute_refund, execute_driver_adjustment, RecoveryChecks, execute_recovery, ServiceStep, RunnerMoves
<1>2. CASE execute_refund(r) \/ RecoveryChecks(r)
  <2>1. UNCHANGED <<balance, hold, debts>>
    BY <1>2 DEF execute_refund, RecoveryChecks
  <2>2. RefundsCovered /\ (UNCHANGED refunds => RefundsCovered')
    BY RefundsStay DEF FinanceInv
  <2>3. CASE ~UNCHANGED refunds
    <3>1. refunds' = refunds \cup {<<r, Amount(r)>>} /\ Amount(r) <= refundable_minor
      BY <1>2, <2>3 DEF execute_refund, RecoveryChecks, RefundAllowed
    <3>2. RefundsCovered'
      BY <1>0, <2>2, <3>1, RefundAdds
    <3> QED BY <1>1, <2>1, <3>2, FinanceServiceSide
  <2> QED BY <1>1, <2>1, <2>2, <2>3, FinanceServiceSide
<1>3. CASE execute_driver_adjustment(r)
  <2>1. UNCHANGED <<hold, debts, refunds>>
    BY <1>3 DEF execute_driver_adjustment
  <2>2. balance' \in Nat
    BY <1>0, <1>3 DEF execute_driver_adjustment, FinanceInv
  <2> QED BY <1>1, <2>1, <2>2, FinanceMoves DEF FinanceInv
<1>4. CASE execute_recovery(r)
  <2>1. PICK taken \in Nat :
          /\ taken <= Amount(r) \/ taken = 0
          /\ taken <= balance
          /\ balance' = balance - taken
          /\ debts' = [debts EXCEPT ![r] = [requested |-> Amount(r), forfeited |-> taken, recovered |-> 0]]
          /\ hold' = hold \/ hold' = <<"forfeited", hold[2]>>
          /\ UNCHANGED refunds
    <3>0. balance \in Nat /\ hold[2] \in Nat
      BY DEF FinanceInv
    <3>1. CASE hold[1] = "held" /\ hold[2] <= Amount(r) /\ hold[2] <= balance
      <4>1. /\ balance' = balance - hold[2]
            /\ debts' = [debts EXCEPT ![r] = [requested |-> Amount(r), forfeited |-> hold[2], recovered |-> 0]]
            /\ hold' = <<"forfeited", hold[2]>> /\ UNCHANGED refunds
        BY <1>4, <3>1 DEF execute_recovery
      <4> QED BY <3>0, <3>1, <4>1
    <3>2. CASE ~(hold[1] = "held" /\ hold[2] <= Amount(r) /\ hold[2] <= balance)
      <4>1. PICK none \in Nat : none = 0 /\ none <= balance
        BY <3>0
      <4>2. /\ balance' = balance - none
            /\ debts' = [debts EXCEPT ![r] = [requested |-> Amount(r), forfeited |-> none, recovered |-> 0]]
            /\ hold' = hold /\ UNCHANGED refunds
        BY <1>4, <3>2, <4>1 DEF execute_recovery
      <4> QED BY <4>1, <4>2
    <3> QED BY <3>1, <3>2
  <2>2. PICK row \in DebtType :
          /\ row = [requested |-> Amount(r), forfeited |-> taken, recovered |-> 0]
          /\ row.requested >= row.forfeited + row.recovered
    <3>1. [requested |-> Amount(r), forfeited |-> taken, recovered |-> 0] \in DebtType
      BY <1>0 DEF DebtType
    <3> QED BY <1>0, <2>1, <3>1
  <2>3. /\ debts' \in [Requests -> DebtType]
        /\ debts'[r] = row /\ \A s \in Requests \ {r} : debts'[s] = debts[s]
    BY <2>1, <2>2 DEF FinanceInv
  <2>4. balance' \in Nat /\ hold'[1] \in {"none", "held", "released", "forfeited"} /\ hold'[2] \in Nat
    BY <2>1 DEF FinanceInv
  <2> QED BY <1>1, <2>1, <2>2, <2>3, <2>4, FinanceMoves
<1> QED BY <1>2, <1>3, <1>4

\* A payout repays part of a debt.
LEMMA DeductionOK ==
  ASSUME FinanceInv, NEW r \in Requests, apply_deduction(r)
  PROVE  FinanceInv'
<1>0. available_minor \in Nat /\ available_minor <= balance /\ balance \in Nat
  BY AvailableBound DEF FinanceInv
<1>1. PICK d \in DebtType : d = debts[r]
  BY DEF FinanceInv
<1>2. d.requested \in Nat /\ d.forfeited \in Nat /\ d.recovered \in Nat
  BY DEF DebtType
<1>3. PICK left \in Nat : left = d.requested - d.forfeited - d.recovered /\ remaining_minor(r) = left
  BY <1>1, <1>2 DEF apply_deduction, remaining_minor
<1>4. PICK a \in 1 .. Lowest(left, available_minor) :
        /\ balance' = balance - available_minor
        /\ debts' = [debts EXCEPT ![r].recovered = @ + a]
        /\ UNCHANGED approvalVars /\ UNCHANGED <<hold, refunds>>
  BY <1>3 DEF apply_deduction
<1>5. a \in Nat /\ a <= left
  BY <1>0, <1>4 DEF Lowest
<1>6. PICK row \in DebtType :
        /\ row = [d EXCEPT !.recovered = @ + a]
        /\ row.recovered = d.recovered + a /\ row.requested = d.requested /\ row.forfeited = d.forfeited
  <2>1. [d EXCEPT !.recovered = @ + a] \in DebtType
    BY <1>5 DEF DebtType
  <2>2. /\ [d EXCEPT !.recovered = @ + a].recovered = d.recovered + a
        /\ [d EXCEPT !.recovered = @ + a].requested = d.requested
        /\ [d EXCEPT !.recovered = @ + a].forfeited = d.forfeited
    BY DEF DebtType
  <2> QED BY <2>1, <2>2
<1>7. row.requested >= row.forfeited + row.recovered
  BY <1>2, <1>3, <1>5, <1>6
<1>8. debts' = [debts EXCEPT ![r] = row]
  BY <1>1, <1>4, <1>6 DEF FinanceInv
<1>9. /\ debts' \in [Requests -> DebtType]
      /\ debts'[r] = row /\ \A s \in Requests \ {r} : debts'[s] = debts[s]
  BY <1>6, <1>8 DEF FinanceInv
<1>10. balance' \in Nat
  BY <1>0, <1>4
<1> QED BY <1>4, <1>9, <1>10, <1>7, FinanceMoves DEF FinanceInv

\* Every step keeps balances and debts covered.
LEMMA FinanceStep == FinanceInv /\ [FinanceNext]_<<approvalVars, financeVars>> => FinanceInv'
<1> SUFFICES ASSUME FinanceInv, [FinanceNext]_<<approvalVars, financeVars>> PROVE FinanceInv'
  OBVIOUS
<1>1. CASE UNCHANGED <<approvalVars, financeVars>>
  <2>1. UNCHANGED approvalVars /\ UNCHANGED <<balance, hold, debts>> /\ UNCHANGED refunds
    BY <1>1 DEF financeVars
  <2>2. RefundsCovered'
    BY <2>1, RefundsStay DEF FinanceInv
  <2> QED BY <2>1, <2>2, FinanceServiceSide
<1>2. CASE \E o \in Makers : admin_refund_trip(o) \/ driver_adjust(o) \/ request_recovery(o)
  BY <1>2, MakersRaise
<1>3. CASE hold_for_flag \/ on_decision \/ release_due
  BY <1>3, HoldMoves
<1>4. ASSUME NEW r \in Requests,
             \/ execute_refund(r) \/ execute_driver_adjustment(r) \/ RecoveryChecks(r) \/ execute_recovery(r)
             \/ apply_deduction(r)
      PROVE  FinanceInv'
  BY <1>4, MoneyExecuted, DeductionOK
<1>5. ASSUME NEW r \in Requests,
             \/ \E o \in Operators : approve(r, o) \/ reject(r, o) \/ cancel(r, o)
             \/ expire_stale(r) \/ _finish(r) \/ RunnerDies(r),
             UNCHANGED financeVars
      PROVE  FinanceInv'
  <2>1. ServiceStep(FinanceKeys)
    BY <1>5 DEF ServiceStep, Decides, RunnerMoves
  <2>2. UNCHANGED <<balance, hold, debts>> /\ UNCHANGED refunds
    BY <1>5 DEF financeVars
  <2>3. RefundsCovered'
    BY <2>2, RefundsStay DEF FinanceInv
  <2> QED BY <2>1, <2>2, <2>3, FinanceServiceSide
<1> QED BY <1>1, <1>2, <1>3, <1>4, <1>5 DEF FinanceNext

\* However refunds, adjustments, holds, recoveries and deductions that were each allowed when raised
\* interleave, a trip's refunds never add up to more than was paid, no driver's balance goes below
\* zero and no debt is collected beyond what was approved, for any amounts and limits
\* (execute_refund, execute_driver_adjustment, execute_recovery, apply_deduction).
THEOREM MoneyCovered == FinanceSpec => []MoneyStaysCovered
<1>1. ApprovalInit /\ FinanceInit => FinanceInv
  BY FinanceInitOK
<1>2. FinanceInv => MoneyStaysCovered
  BY DEF FinanceInv, RefundsCovered, MoneyStaysCovered
<1> QED BY <1>1, <1>2, FinanceStep, PTL DEF FinanceSpec

\* The maker-checker service keeps its promise under the money people move, whose small amounts
\* pass without a checker (require_approval_or_execute, approve, _finish).
THEOREM FinanceRunsOnce == FinanceSpec => []RunsAtMostOnce
<1>1. ApprovalInit /\ FinanceInit => FinanceInv
  BY FinanceInitOK
<1>2. FinanceInv => RunsAtMostOnce
  BY RunsOnce DEF FinanceInv
<1> QED BY <1>1, <1>2, FinanceStep, PTL DEF FinanceSpec

-----------------------------------------------------------------------------
(* Payouts, where rows stand.  A process works on objects it read earlier   *)
(* and saves them unread, so the invariant follows every object it holds:   *)
(* nobody else moves a row between its release and the trigger's save.      *)

JobType ==
  [pc : {"idle", "read", "flip", "send", "accepted", "saved", "unknown", "refused", "refund"},
   todo : SUBSET Withdrawals, kept : SUBSET Withdrawals, w : Withdrawals \cup {None}]

PayoutTypes ==
  /\ wst \in [Withdrawals -> Statuses]
  /\ ref \in [Withdrawals -> BOOLEAN] /\ audited \in [Withdrawals -> BOOLEAN]
  /\ sent \in [Withdrawals -> Nat]
  /\ opened \subseteq SUBSET Withdrawals
  /\ proc \in [Procs -> JobType]

Sending == {"send", "accepted", "unknown", "refused"}

\* A withdrawal that a process will send, or has sent and not yet saved.
Loaded(p, w) == w \in proc[p].kept \/ (proc[p].pc \in Sending /\ proc[p].w = w)

HandsHold ==
  \A p \in Procs :
    /\ proc[p].pc \in Sending \cup {"flip", "saved", "refund"} => proc[p].w \in Withdrawals
    /\ proc[p].pc \in Sending => proc[p].w \notin proc[p].kept

\* The row lock of _approve_one.
LockHeld ==
  \A p, q \in Procs : proc[p].pc = "flip" =>
    /\ wst[proc[p].w] = "pending"
    /\ proc[q].pc = "flip" /\ proc[q].w = proc[p].w => p = q

LoadedReleased ==
  \A p \in Procs, w \in Withdrawals :
    Loaded(p, w) => wst[w] = "approved" /\ ~ref[w] /\ audited[w]

LoadedOnce ==
  \A p, q \in Procs, w \in Withdrawals : Loaded(p, w) /\ Loaded(q, w) => p = q

SavedNamed == \A p \in Procs : proc[p].pc = "saved" => ref[proc[p].w]

\* Where nothing has been sent yet.
Unsent ==
  /\ \A p \in Procs, w \in Withdrawals :
       w \in proc[p].kept \/ (proc[p].pc \in {"send", "refused"} /\ proc[p].w = w) => sent[w] = 0
  /\ \A w \in Withdrawals :
       /\ wst[w] \in {"none", "pending", "rejected"} => sent[w] = 0 /\ ~ref[w]
       /\ wst[w] = "failed" /\ ~ref[w] => sent[w] = 0
       /\ sent[w] > 0 => audited[w]

TransferInv ==
  /\ PayoutTypes /\ HandsHold /\ LockHeld /\ LoadedReleased /\ LoadedOnce /\ SavedNamed /\ Unsent
  /\ TransferredOnce

(* Payouts, what the ledger holds.  Every refund still to be written is     *)
(* counted with the ones written, against the debits of the attempts.       *)

Purposes == {"withdrawal", "retry", "taken", "refund_failed", "refund_rejected", "refund_reversed"}

Taken(w) == {e \in ledger : e[2] = w /\ e[1] \in {"withdrawal", "retry", "taken"}}
Given(w) == {e \in ledger : e[2] = w /\ e[1] \in {"refund_failed", "refund_rejected", "refund_reversed"}}
Refunders(w) == {p \in Procs : proc[p].pc = "refund" /\ proc[p].w = w}
Owed(w) == Cardinality(Given(w)) + Cardinality(Refunders(w))

LedgerTyped ==
  /\ ledger \subseteq Purposes \X Withdrawals \X Nat /\ IsFiniteSet(ledger)
  /\ \A e \in ledger : wst[e[2]] # "none" /\ (e[1] = "retry" => e[3] <= retry_attempts(e[2]))
  /\ \A p \in Procs : proc[p].pc = "refund" => wst[proc[p].w] # "none"

\* Until the provider's reference is saved no webhook can reach the row.
Withheld(w) ==
  ~ref[w] =>
    /\ wst[w] \in {"pending", "approved", "unresolved"} => Owed(w) + 1 <= Cardinality(Taken(w))
    /\ wst[w] = "failed" => Owed(w) <= Cardinality(Taken(w))

LedgerInv ==
  /\ LedgerTyped
  /\ \A w \in Withdrawals : Withheld(w) /\ (wst[w] = "unresolved" => ~ref[w])

PayoutInv == TransferInv /\ LedgerInv

\* What a process holds after a step.
LEMMA JobWritten ==
  ASSUME PayoutTypes, NEW p \in Procs, NEW job \in JobType, proc' = [proc EXCEPT ![p] = job]
  PROVE  /\ proc' \in [Procs -> JobType] /\ proc'[p] = job
         /\ \A q \in Procs \ {p} : proc'[q] = proc[q]
BY DEF PayoutTypes

\* The record of a process at a given place of its batch.
LEMMA JobFields ==
  ASSUME NEW pc \in {"idle", "read", "flip", "send", "accepted", "saved", "unknown", "refused", "refund"},
         NEW todo \in SUBSET Withdrawals, NEW kept \in SUBSET Withdrawals,
         NEW w \in Withdrawals \cup {None}
  PROVE  /\ Job(pc, todo, kept, w) \in JobType
         /\ Job(pc, todo, kept, w).pc = pc /\ Job(pc, todo, kept, w).kept = kept
         /\ Job(pc, todo, kept, w).w = w
BY DEF Job, JobType

\* A process moves on inside one withdrawal and keeps what it holds.
LEMMA GotoOK ==
  ASSUME PayoutTypes, NEW p \in Procs,
         NEW pc \in {"accepted", "saved", "unknown", "refused", "refund"}, Goto(p, pc)
  PROVE  /\ proc' \in [Procs -> JobType]
         /\ proc'[p].pc = pc /\ proc'[p].kept = proc[p].kept /\ proc'[p].w = proc[p].w
         /\ \A q \in Procs \ {p} : proc'[q] = proc[q]
<1>1. PICK job \in JobType :
        job = [proc[p] EXCEPT !.pc = pc] /\ job.pc = pc /\ job.kept = proc[p].kept /\ job.w = proc[p].w
  <2>1. [proc[p] EXCEPT !.pc = pc] \in JobType
    BY DEF PayoutTypes, JobType
  <2>2. /\ [proc[p] EXCEPT !.pc = pc].pc = pc /\ [proc[p] EXCEPT !.pc = pc].kept = proc[p].kept
        /\ [proc[p] EXCEPT !.pc = pc].w = proc[p].w
    BY DEF PayoutTypes, JobType
  <2> QED BY <2>1, <2>2
<1>2. proc' = [proc EXCEPT ![p] = job]
  BY <1>1 DEF Goto
<1> QED BY <1>1, <1>2, JobWritten

\* A process is done with one withdrawal: it reads the next of its batch or is free.
LEMMA DoneOK ==
  ASSUME PayoutTypes, NEW p \in Procs, Done(p)
  PROVE  /\ proc' \in [Procs -> JobType]
         /\ proc'[p].pc \in {"idle", "read"} /\ proc'[p].kept = proc[p].kept
         /\ \A q \in Procs \ {p} : proc'[q] = proc[q]
<1>1. proc[p].kept \in SUBSET Withdrawals
  BY DEF PayoutTypes, JobType
<1>2. CASE proc[p].kept = {}
  <2>1. Idle \in JobType /\ Idle.pc = "idle" /\ Idle.kept = {}
    BY JobFields DEF Idle
  <2>2. proc' = [proc EXCEPT ![p] = Idle]
    BY <1>2 DEF Done
  <2> QED BY <1>2, <2>1, <2>2, JobWritten
<1>3. CASE proc[p].kept # {}
  <2>1. PICK job \in JobType : job = Job("read", {}, proc[p].kept, None) /\ job.pc = "read" /\ job.kept = proc[p].kept
    BY <1>1, JobFields
  <2>2. proc' = [proc EXCEPT ![p] = job]
    BY <1>3, <2>1 DEF Done
  <2> QED BY <2>1, <2>2, JobWritten
<1> QED BY <1>2, <1>3

\* A step of one process that touches no row and takes on nothing to send.
LEMMA Unloads ==
  ASSUME TransferInv, NEW p \in Procs, UNCHANGED <<wst, ref, audited, sent>>,
         opened' \subseteq SUBSET Withdrawals,
         proc' \in [Procs -> JobType], \A q \in Procs \ {p} : proc'[q] = proc[q],
         proc'[p].pc \in Sending => proc'[p].pc = "send" /\ proc'[p].w \in Withdrawals \ proc'[p].kept,
         proc'[p].pc \notin {"saved", "refund"},
         proc'[p].pc = "flip" =>
           /\ proc'[p].w \in Withdrawals /\ wst[proc'[p].w] = "pending"
           /\ \A q \in Procs : ~(proc[q].pc = "flip" /\ proc[q].w = proc'[p].w),
         \A w \in proc'[p].kept : w \in proc[p].kept,
         proc'[p].pc = "send" => proc'[p].w \in proc[p].kept
  PROVE  TransferInv'
<1>1. \A q \in Procs, w \in Withdrawals : Loaded(q, w)' => Loaded(q, w)
  BY DEF Loaded, Sending
<1>2. PayoutTypes'
  BY DEF TransferInv, PayoutTypes
<1>3. HandsHold'
  BY DEF TransferInv, HandsHold, Sending
<1>4. LockHeld'
  BY DEF TransferInv, LockHeld
<1>5. LoadedReleased' /\ LoadedOnce'
  BY <1>1 DEF TransferInv, LoadedReleased, LoadedOnce
<1>6. SavedNamed' /\ TransferredOnce'
  BY DEF TransferInv, SavedNamed, TransferredOnce
<1>7. Unsent'
  BY DEF TransferInv, Unsent, Sending
<1> QED BY <1>2, <1>3, <1>4, <1>5, <1>6, <1>7 DEF TransferInv

\* A step that moves one row nobody is about to send.
LEMMA RowMoves ==
  ASSUME TransferInv, NEW w \in Withdrawals, NEW st \in Statuses \ {"none"},
         UNCHANGED <<ref, audited, sent, proc>>, opened' \subseteq SUBSET Withdrawals,
         wst' = [wst EXCEPT ![w] = st],
         wst[w] # "approved" \/ ref[w],
         \A p \in Procs : ~(proc[p].pc = "flip" /\ proc[p].w = w),
         st \in {"pending", "rejected"} => wst[w] \in {"none", "pending"},
         st = "failed" => ref[w]
  PROVE  TransferInv'
<1>0. wst'[w] = st /\ (\A v \in Withdrawals \ {w} : wst'[v] = wst[v]) /\ wst' \in [Withdrawals -> Statuses]
  BY DEF TransferInv, PayoutTypes
<1>1. \A p \in Procs : ~Loaded(p, w)
  BY DEF TransferInv, LoadedReleased
<1>2. PayoutTypes' /\ HandsHold' /\ SavedNamed' /\ TransferredOnce'
  BY <1>0 DEF TransferInv, PayoutTypes, HandsHold, SavedNamed, TransferredOnce
<1>3. LockHeld'
  BY <1>0 DEF TransferInv, LockHeld, HandsHold
<1>4. LoadedReleased' /\ LoadedOnce'
  BY <1>0, <1>1 DEF TransferInv, LoadedReleased, LoadedOnce, Loaded
<1>5. Unsent'
  BY <1>0 DEF TransferInv, Unsent
<1> QED BY <1>2, <1>3, <1>4, <1>5 DEF TransferInv

\* A process saves the row in its hand, unread: nobody else will send that row.
LEMMA Saves ==
  ASSUME TransferInv, NEW p \in Procs, NEW w \in Withdrawals, proc[p].w = w,
         NEW st \in {"processed", "unresolved", "failed"},
         proc[p].pc \in {"accepted", "unknown", "refused", "saved"},
         \A q \in Procs : ~(proc[q].pc = "flip" /\ proc[q].w = w),
         UNCHANGED <<audited, sent, opened>>, wst' = [wst EXCEPT ![w] = st],
         ref' = ref \/ ref' = [ref EXCEPT ![w] = TRUE],
         proc' \in [Procs -> JobType], \A q \in Procs \ {p} : proc'[q] = proc[q],
         proc'[p].kept = proc[p].kept,
         \/ proc'[p].pc \in {"idle", "read"} /\ st # "failed"
         \/ proc'[p].pc = "saved" /\ proc'[p].w = w /\ ref' = [ref EXCEPT ![w] = TRUE] /\ st # "failed"
         \/ proc'[p].pc = "refund" /\ proc'[p].w = w /\ proc[p].pc = "refused"
  PROVE  TransferInv'
<1>0. /\ wst'[w] = st /\ (\A v \in Withdrawals \ {w} : wst'[v] = wst[v] /\ ref'[v] = ref[v])
      /\ wst' \in [Withdrawals -> Statuses] /\ ref' \in [Withdrawals -> BOOLEAN]
      /\ \A v \in Withdrawals : ref[v] => ref'[v]
  BY DEF TransferInv, PayoutTypes, Statuses
<1>1. \A q \in Procs : ~Loaded(q, w)'
  <2>1. w \notin proc[p].kept /\ \A q \in Procs \ {p} : ~Loaded(q, w)
    <3>1. CASE proc[p].pc = "saved"
      BY <3>1 DEF TransferInv, SavedNamed, LoadedReleased, Loaded
    <3>2. CASE proc[p].pc # "saved"
      BY <3>2 DEF TransferInv, HandsHold, LoadedOnce, Loaded, Sending
    <3> QED BY <3>1, <3>2
  <2> QED BY <2>1 DEF Loaded, Sending
<1>2. \A q \in Procs, v \in Withdrawals : Loaded(q, v)' => Loaded(q, v)
  BY DEF Loaded, Sending
<1>3. PayoutTypes'
  BY <1>0 DEF TransferInv, PayoutTypes
<1>4. HandsHold'
  BY DEF TransferInv, HandsHold, Sending
<1>5. LockHeld'
  BY <1>0 DEF TransferInv, LockHeld, HandsHold
<1>6. LoadedReleased' /\ LoadedOnce'
  BY <1>0, <1>1, <1>2 DEF TransferInv, LoadedReleased, LoadedOnce
<1>7. SavedNamed' /\ TransferredOnce'
  <2>1. \A q \in Procs : proc[q].pc = "saved" => proc[q].w \in Withdrawals
    BY DEF TransferInv, HandsHold
  <2>2. SavedNamed'
    BY <1>0, <2>1 DEF TransferInv, PayoutTypes, SavedNamed
  <2> QED BY <2>2 DEF TransferInv, TransferredOnce
<1>8. Unsent'
  <2>1. \A q \in Procs, v \in Withdrawals :
          v \in proc'[q].kept \/ (proc'[q].pc \in {"send", "refused"} /\ proc'[q].w = v) => sent'[v] = 0
    BY DEF TransferInv, Unsent
  <2>2. st = "failed" => sent[w] = 0
    BY DEF TransferInv, Unsent
  <2>3. \A v \in Withdrawals :
          /\ wst'[v] \in {"none", "pending", "rejected"} => sent'[v] = 0 /\ ~ref'[v]
          /\ wst'[v] = "failed" /\ ~ref'[v] => sent'[v] = 0
          /\ sent'[v] > 0 => audited'[v]
    BY <1>0, <2>2 DEF TransferInv, Unsent
  <2> QED BY <2>1, <2>3 DEF Unsent
<1> QED BY <1>3, <1>4, <1>5, <1>6, <1>7, <1>8 DEF TransferInv

\* A row is released to the process that will send it: by its flip, or by a retry.
LEMMA Releases ==
  ASSUME TransferInv, NEW p \in Procs, NEW w \in Withdrawals, ~ref[w],
         \/ wst[w] = "pending" /\ proc[p].pc = "flip" /\ proc[p].w = w /\ audited' = [audited EXCEPT ![w] = TRUE]
         \/ wst[w] = "failed" /\ audited[w] /\ audited' = audited,
         UNCHANGED <<ref, sent, opened>>, wst' = [wst EXCEPT ![w] = "approved"],
         proc' \in [Procs -> JobType], \A q \in Procs \ {p} : proc'[q] = proc[q],
         \/ proc'[p].pc = "read" /\ proc'[p].kept = proc[p].kept \cup {w}
         \/ proc'[p].pc = "send" /\ proc'[p].w = w /\ proc'[p].kept = {}
  PROVE  TransferInv'
<1>0. /\ wst'[w] = "approved" /\ audited'[w]
      /\ (\A v \in Withdrawals \ {w} : wst'[v] = wst[v] /\ audited'[v] = audited[v])
      /\ wst' \in [Withdrawals -> Statuses] /\ audited' \in [Withdrawals -> BOOLEAN]
  BY DEF TransferInv, PayoutTypes, Statuses
<1>1. sent[w] = 0 /\ \A q \in Procs : ~Loaded(q, w)
  BY DEF TransferInv, Unsent, LoadedReleased
<1>2. \A q \in Procs, v \in Withdrawals : Loaded(q, v)' => Loaded(q, v) \/ (q = p /\ v = w)
  BY DEF Loaded, Sending
<1>3. PayoutTypes'
  BY <1>0 DEF TransferInv, PayoutTypes
<1>4. HandsHold'
  BY DEF TransferInv, HandsHold, Sending
<1>5. LockHeld'
  BY <1>0 DEF TransferInv, LockHeld, HandsHold
<1>6. LoadedReleased' /\ LoadedOnce'
  BY <1>0, <1>1, <1>2 DEF TransferInv, LoadedReleased, LoadedOnce
<1>7. SavedNamed' /\ TransferredOnce'
  BY DEF TransferInv, SavedNamed, TransferredOnce
<1>8. Unsent'
  BY <1>0, <1>1 DEF TransferInv, Unsent
<1> QED BY <1>3, <1>4, <1>5, <1>6, <1>7, <1>8 DEF TransferInv

\* The call of the provider: nothing of this withdrawal was sent before.
LEMMA Sends ==
  ASSUME TransferInv, NEW p \in Procs, initiate_upi_payout(p)
  PROVE  TransferInv'
<1>0. PICK w \in Withdrawals : w = proc[p].w /\ proc[p].pc = "send"
  BY DEF initiate_upi_payout, TransferInv, HandsHold, Sending
<1>1. PICK pc \in {"accepted", "refused", "unknown"} :
        /\ Goto(p, pc)
        /\ (sent' = [sent EXCEPT ![w] = @ + 1] /\ pc # "refused") \/ sent' = sent
        /\ UNCHANGED <<wst, ref, audited, opened>>
  BY <1>0 DEF initiate_upi_payout, Accepted
<1>2. /\ proc' \in [Procs -> JobType]
      /\ proc'[p].pc = pc /\ proc'[p].kept = proc[p].kept /\ proc'[p].w = w
      /\ \A q \in Procs \ {p} : proc'[q] = proc[q]
  BY <1>0, <1>1, GotoOK DEF TransferInv
<1>3. sent[w] = 0 /\ audited[w] /\ wst[w] = "approved" /\ w \notin proc[p].kept
  BY <1>0 DEF TransferInv, Unsent, LoadedReleased, Loaded, Sending, HandsHold
<1>4. \A q \in Procs, v \in Withdrawals : Loaded(q, v)' => Loaded(q, v)
  BY <1>0, <1>2 DEF Loaded, Sending
<1>5. \A q \in Procs \ {p} : ~Loaded(q, w)
  BY <1>0 DEF TransferInv, LoadedOnce, Loaded, Sending
<1>6. sent' \in [Withdrawals -> Nat] /\ sent'[w] <= 1 /\ \A v \in Withdrawals \ {w} : sent'[v] = sent[v]
  BY <1>1, <1>3 DEF TransferInv, PayoutTypes
<1>7. PayoutTypes'
  BY <1>1, <1>2, <1>6 DEF TransferInv, PayoutTypes
<1>8. HandsHold'
  BY <1>0, <1>2 DEF TransferInv, HandsHold, Sending
<1>9. LockHeld'
  BY <1>1, <1>2 DEF TransferInv, LockHeld
<1>10. LoadedReleased' /\ LoadedOnce'
  BY <1>1, <1>4 DEF TransferInv, LoadedReleased, LoadedOnce
<1>11. SavedNamed' /\ TransferredOnce'
  BY <1>1, <1>2, <1>6 DEF TransferInv, SavedNamed, TransferredOnce
<1>12. Unsent'
  <2>1. pc = "refused" => sent'[w] = 0
    BY <1>1, <1>3
  <2>2. \A q \in Procs, v \in Withdrawals :
          v \in proc'[q].kept \/ (proc'[q].pc \in {"send", "refused"} /\ proc'[q].w = v) => sent'[v] = 0
    BY <1>1, <1>2, <1>3, <1>5, <1>6, <2>1 DEF TransferInv, Unsent, Loaded, Sending
  <2>3. \A v \in Withdrawals :
          /\ wst'[v] \in {"none", "pending", "rejected"} => sent'[v] = 0 /\ ~ref'[v]
          /\ wst'[v] = "failed" /\ ~ref'[v] => sent'[v] = 0
          /\ sent'[v] > 0 => audited'[v]
    BY <1>1, <1>3, <1>6 DEF TransferInv, Unsent
  <2> QED BY <2>2, <2>3 DEF Unsent
<1> QED BY <1>7, <1>8, <1>9, <1>10, <1>11, <1>12 DEF TransferInv

\* The steps of a process before it sends anything, and the end of one.
LEMMA ReadsOK ==
  ASSUME TransferInv, NEW p \in Procs,
         execute_payout(p) \/ ReadRow(p) \/ NextTrigger(p) \/ refund_failed_withdrawal(p) \/ Crash(p)
  PROVE  TransferInv'
<1>0. PayoutTypes
  BY DEF TransferInv
<1>1. proc[p] \in JobType /\ proc[p].kept \in SUBSET Withdrawals /\ proc[p].todo \in SUBSET Withdrawals
  BY <1>0 DEF PayoutTypes, JobType
<1>2. Idle \in JobType /\ Idle.pc = "idle" /\ Idle.kept = {}
  BY JobFields DEF Idle
<1>3. UNCHANGED <<wst, ref, audited, sent>> /\ opened' \subseteq SUBSET Withdrawals
  BY <1>0 DEF execute_payout, ReadRow, NextTrigger, refund_failed_withdrawal, Crash, PayoutTypes
<1>4. CASE execute_payout(p)
  <2>1. PICK ids \in opened : proc' = [proc EXCEPT ![p] = Job("read", ids, {}, None)]
    BY <1>4 DEF execute_payout
  <2>2. PICK job \in JobType : job = Job("read", ids, {}, None) /\ job.pc = "read" /\ job.kept = {}
    <3>1. ids \in SUBSET Withdrawals
      BY <1>0 DEF PayoutTypes
    <3> QED BY <3>1, JobFields
  <2>3. proc' = [proc EXCEPT ![p] = job]
    BY <2>1, <2>2
  <2>4. /\ proc' \in [Procs -> JobType] /\ proc'[p] = job
        /\ \A q \in Procs \ {p} : proc'[q] = proc[q]
    BY <1>0, <2>3, JobWritten
  <2> QED BY <1>3, <2>2, <2>4, Unloads DEF Sending
<1>5. CASE ReadRow(p)
  <2>1. PICK w \in proc[p].todo :
          /\ ~WithdrawalLocked(w)
          /\ \/ wst[w] = "pending" /\ proc' = [proc EXCEPT ![p] = Job("flip", @.todo, @.kept, w)]
             \/ proc' = [proc EXCEPT ![p] = Job("read", @.todo \ {w}, @.kept, None)]
    BY <1>5 DEF ReadRow
  <2>2. w \in Withdrawals /\ \A q \in Procs : ~(proc[q].pc = "flip" /\ proc[q].w = w)
    BY <1>1, <2>1 DEF WithdrawalLocked
  <2>3. CASE wst[w] = "pending" /\ proc' = [proc EXCEPT ![p] = Job("flip", @.todo, @.kept, w)]
    <3>1. PICK job \in JobType :
            /\ job = Job("flip", proc[p].todo, proc[p].kept, w)
            /\ job.pc = "flip" /\ job.kept = proc[p].kept /\ job.w = w
      BY <1>1, <2>2, JobFields
    <3>2. proc' = [proc EXCEPT ![p] = job]
      BY <2>3, <3>1
    <3>3. /\ proc' \in [Procs -> JobType] /\ proc'[p] = job
          /\ \A q \in Procs \ {p} : proc'[q] = proc[q]
      BY <1>0, <3>2, JobWritten
    <3> QED BY <1>3, <2>2, <2>3, <3>1, <3>3, Unloads DEF Sending
  <2>4. CASE proc' = [proc EXCEPT ![p] = Job("read", @.todo \ {w}, @.kept, None)]
    <3>1. PICK job \in JobType :
            /\ job = Job("read", proc[p].todo \ {w}, proc[p].kept, None)
            /\ job.pc = "read" /\ job.kept = proc[p].kept
      BY <1>1, JobFields
    <3>2. proc' = [proc EXCEPT ![p] = job]
      BY <2>4, <3>1
    <3>3. /\ proc' \in [Procs -> JobType] /\ proc'[p] = job
          /\ \A q \in Procs \ {p} : proc'[q] = proc[q]
      BY <1>0, <3>2, JobWritten
    <3> QED BY <1>3, <3>1, <3>3, Unloads DEF Sending
  <2> QED BY <2>1, <2>3, <2>4
<1>6. CASE NextTrigger(p) /\ \E w \in proc[p].kept : proc' = [proc EXCEPT ![p] = Job("send", {}, @.kept \ {w}, w)]
  <2>1. PICK w \in proc[p].kept : proc' = [proc EXCEPT ![p] = Job("send", {}, @.kept \ {w}, w)]
    BY <1>6
  <2>2. PICK job \in JobType :
          /\ job = Job("send", {}, proc[p].kept \ {w}, w)
          /\ job.pc = "send" /\ job.kept = proc[p].kept \ {w} /\ job.w = w
    BY <1>1, JobFields
  <2>3. proc' = [proc EXCEPT ![p] = job]
    BY <2>1, <2>2
  <2>4. /\ proc' \in [Procs -> JobType] /\ proc'[p] = job
        /\ \A q \in Procs \ {p} : proc'[q] = proc[q]
    BY <1>0, <2>3, JobWritten
  <2> QED BY <1>1, <1>3, <2>2, <2>4, Unloads DEF Sending
<1>7. CASE proc' = [proc EXCEPT ![p] = Idle]
  <2>1. /\ proc' \in [Procs -> JobType] /\ proc'[p] = Idle
        /\ \A q \in Procs \ {p} : proc'[q] = proc[q]
    BY <1>0, <1>2, <1>7, JobWritten
  <2> QED BY <1>2, <1>3, <2>1, Unloads DEF Sending
<1>8. CASE refund_failed_withdrawal(p)
  <2>1. /\ proc' \in [Procs -> JobType]
        /\ proc'[p].pc \in {"idle", "read"} /\ proc'[p].kept = proc[p].kept
        /\ \A q \in Procs \ {p} : proc'[q] = proc[q]
    BY <1>0, <1>8, DoneOK DEF refund_failed_withdrawal
  <2> QED BY <1>3, <2>1, Unloads DEF Sending
<1> QED BY <1>4, <1>5, <1>6, <1>7, <1>8 DEF NextTrigger, Crash

\* The releases: a flip under the lock, and a retry of a payout the provider does not hold.
LEMMA ReleasesOK ==
  ASSUME TransferInv, NEW p \in Procs, FlipRow(p) \/ \E w \in Withdrawals : retry_failed(p, w)
  PROVE  TransferInv'
<1>0. PayoutTypes
  BY DEF TransferInv
<1>1. proc[p] \in JobType /\ proc[p].kept \in SUBSET Withdrawals /\ proc[p].todo \in SUBSET Withdrawals
  BY <1>0 DEF PayoutTypes, JobType
<1>2. CASE FlipRow(p)
  <2>1. PICK w \in Withdrawals : w = proc[p].w /\ proc[p].pc = "flip" /\ wst[w] = "pending"
    BY <1>2 DEF FlipRow, TransferInv, HandsHold, LockHeld
  <2>2. /\ wst' = [wst EXCEPT ![w] = "approved"] /\ audited' = [audited EXCEPT ![w] = TRUE]
        /\ proc' = [proc EXCEPT ![p] = Job("read", @.todo \ {w}, @.kept \cup {w}, None)]
        /\ UNCHANGED <<ref, sent, opened>>
    BY <1>2, <2>1 DEF FlipRow
  <2>3. PICK job \in JobType :
          /\ job = Job("read", proc[p].todo \ {w}, proc[p].kept \cup {w}, None)
          /\ job.pc = "read" /\ job.kept = proc[p].kept \cup {w}
    <3>1. proc[p].todo \ {w} \in SUBSET Withdrawals /\ proc[p].kept \cup {w} \in SUBSET Withdrawals
      BY <1>1
    <3> QED BY <3>1, JobFields
  <2>4. proc' = [proc EXCEPT ![p] = job]
    BY <2>2, <2>3
  <2>5. /\ proc' \in [Procs -> JobType] /\ proc'[p] = job
        /\ \A q \in Procs \ {p} : proc'[q] = proc[q]
    BY <1>0, <2>4, JobWritten
  <2>6. ~ref[w]
    BY <2>1 DEF TransferInv, Unsent
  <2> QED BY <2>1, <2>2, <2>3, <2>5, <2>6, Releases
<1>3. ASSUME NEW w \in Withdrawals, retry_failed(p, w) PROVE TransferInv'
  <2>1. /\ wst[w] = "failed" /\ audited[w] /\ ~ref[w]
        /\ wst' = [wst EXCEPT ![w] = "approved"] /\ UNCHANGED <<ref, audited, sent, opened>>
        /\ proc' = [proc EXCEPT ![p] = Job("send", {}, {}, w)]
    BY <1>3 DEF retry_failed
  <2>2. PICK job \in JobType : job = Job("send", {}, {}, w) /\ job.pc = "send" /\ job.kept = {} /\ job.w = w
    BY JobFields
  <2>3. proc' = [proc EXCEPT ![p] = job]
    BY <2>1, <2>2
  <2>4. /\ proc' \in [Procs -> JobType] /\ proc'[p] = job
        /\ \A q \in Procs \ {p} : proc'[q] = proc[q]
    BY <1>0, <2>3, JobWritten
  <2> QED BY <2>1, <2>2, <2>4, Releases
<1> QED BY <1>2, <1>3

\* The four saves.
LEMMA SavesOK ==
  ASSUME TransferInv, NEW p \in Procs,
         SaveReference(p) \/ SaveProcessed(p) \/ SaveUnresolved(p) \/ SaveFailed(p)
  PROVE  TransferInv'
<1>0. PICK w \in Withdrawals : w = proc[p].w
  BY DEF SaveReference, SaveProcessed, SaveUnresolved, SaveFailed, TransferInv, HandsHold, Sending
<1>1. /\ UNCHANGED <<audited, sent, opened>> /\ PayoutTypes
      /\ \A q \in Procs : ~(proc[q].pc = "flip" /\ proc[q].w = w)
  BY <1>0 DEF SaveReference, SaveProcessed, SaveUnresolved, SaveFailed, WithdrawalLocked, TransferInv
<1>2. CASE SaveReference(p)
  <2>1. /\ proc[p].pc = "accepted" /\ Goto(p, "saved")
        /\ wst' = [wst EXCEPT ![w] = "processed"] /\ ref' = [ref EXCEPT ![w] = TRUE]
    BY <1>0, <1>2 DEF SaveReference, SaveStatus
  <2> QED BY <1>0, <1>1, <2>1, GotoOK, Saves
<1>3. CASE SaveProcessed(p)
  <2>1. proc[p].pc = "saved" /\ Done(p) /\ wst' = [wst EXCEPT ![w] = "processed"] /\ ref' = ref
    BY <1>0, <1>3 DEF SaveProcessed, SaveStatus
  <2> QED BY <1>0, <1>1, <2>1, DoneOK, Saves
<1>4. CASE SaveUnresolved(p)
  <2>1. proc[p].pc = "unknown" /\ Done(p) /\ wst' = [wst EXCEPT ![w] = "unresolved"] /\ ref' = ref
    BY <1>0, <1>4 DEF SaveUnresolved, SaveStatus
  <2> QED BY <1>0, <1>1, <2>1, DoneOK, Saves
<1>5. CASE SaveFailed(p)
  <2>1. proc[p].pc = "refused" /\ Goto(p, "refund") /\ wst' = [wst EXCEPT ![w] = "failed"] /\ ref' = ref
    BY <1>0, <1>5 DEF SaveFailed, SaveStatus
  <2> QED BY <1>0, <1>1, <2>1, GotoOK, Saves
<1> QED BY <1>2, <1>3, <1>4, <1>5

\* New rows, rejections, the provider's webhooks and resolved conflicts: none moves a row that a
\* process is about to send.
LEMMA RowsOK ==
  ASSUME TransferInv,
         \/ driver_withdrawal_request \/ run_country
         \/ \E w \in Withdrawals :
              reject_one(w) \/ resolve_paid(w) \/ payout_success(w) \/ payout_failed(w) \/ payout_reversed(w)
  PROVE  TransferInv'
<1>0. /\ UNCHANGED <<ref, audited, sent, proc>>
      /\ wst \in [Withdrawals -> Statuses] /\ opened \subseteq SUBSET Withdrawals
  BY DEF driver_withdrawal_request, run_country, reject_one, resolve_paid, payout_success, payout_failed,
         payout_reversed, TransferInv, PayoutTypes
<1>1. ASSUME NEW w \in Withdrawals, NEW a, NewRow(w, a), opened' \subseteq SUBSET Withdrawals
      PROVE  TransferInv'
  <2>1. wst[w] = "none" /\ wst' = [wst EXCEPT ![w] = "pending"]
    BY <1>1 DEF NewRow
  <2>2. \A p \in Procs : ~(proc[p].pc = "flip" /\ proc[p].w = w)
    BY <2>1 DEF TransferInv, LockHeld
  <2> QED BY <1>0, <1>1, <2>1, <2>2, RowMoves DEF Statuses
<1>2. CASE driver_withdrawal_request
  BY <1>0, <1>1, <1>2 DEF driver_withdrawal_request
<1>3. CASE run_country
  <2>1. CASE \E w \in Withdrawals : NewRow(w, wallet) /\ opened' = opened \cup {{w}}
    <3>1. PICK w \in Withdrawals : NewRow(w, wallet) /\ opened' = opened \cup {{w}}
      BY <2>1
    <3>2. opened' \subseteq SUBSET Withdrawals
      BY <1>0, <3>1
    <3> QED BY <1>1, <3>1, <3>2
  <2>2. CASE UNCHANGED <<wst, opened>>
    BY <1>0, <2>2 DEF TransferInv, PayoutTypes, HandsHold, LockHeld, LoadedReleased, LoadedOnce, Loaded,
                      SavedNamed, Unsent, TransferredOnce
  <2> QED BY <1>3, <2>1, <2>2 DEF run_country
<1>4. ASSUME NEW w \in Withdrawals,
             reject_one(w) \/ resolve_paid(w) \/ payout_success(w) \/ payout_failed(w) \/ payout_reversed(w)
      PROVE  TransferInv'
  <2>0. opened' \subseteq SUBSET Withdrawals /\ \A p \in Procs : ~(proc[p].pc = "flip" /\ proc[p].w = w)
    BY <1>0, <1>4 DEF reject_one, resolve_paid, payout_success, payout_failed, payout_reversed, Delivered,
                      WithdrawalLocked
  <2>1. CASE reject_one(w)
    <3>1. wst[w] = "pending" /\ wst' = [wst EXCEPT ![w] = "rejected"]
      BY <2>1 DEF reject_one
    <3> QED BY <1>0, <2>0, <3>1, RowMoves DEF Statuses
  <2>2. CASE resolve_paid(w)
    <3>1. wst[w] = "conflict" /\ wst' = [wst EXCEPT ![w] = "completed"]
      BY <2>2 DEF resolve_paid
    <3> QED BY <1>0, <2>0, <3>1, RowMoves DEF Statuses
  <2>3. CASE payout_success(w) \/ payout_failed(w) \/ payout_reversed(w)
    <3>1. PICK st \in {"conflict", "completed", "failed", "reversed"} :
            ref[w] /\ wst' = [wst EXCEPT ![w] = st]
      BY <2>3 DEF payout_success, payout_failed, payout_reversed, reverse_paid_payout, reverse_conflict, Delivered
    <3> QED BY <1>0, <2>0, <3>1, RowMoves DEF Statuses
  <2> QED BY <1>4, <2>1, <2>2, <2>3
<1> QED BY <1>2, <1>3, <1>4

\* Every step keeps what a process holds with that process.
LEMMA TransferStep ==
  ASSUME TransferInv, [PayoutNext]_payoutVars
  PROVE  TransferInv'
<1>1. ASSUME UNCHANGED <<wst, ref, audited, sent, proc>>, opened' \subseteq SUBSET Withdrawals
      PROVE  TransferInv'
  BY <1>1 DEF TransferInv, PayoutTypes, HandsHold, LockHeld, LoadedReleased, LoadedOnce, Loaded,
              SavedNamed, Unsent, TransferredOnce
<1>0. opened \subseteq SUBSET Withdrawals
  BY DEF TransferInv, PayoutTypes
<1>2. CASE UNCHANGED payoutVars
  BY <1>0, <1>1, <1>2 DEF payoutVars
<1>3. CASE \E w \in Withdrawals :
             approve_one(w) \/ BankPays(w) \/ BankPaysLate(w) \/ BankFails(w) \/ BankReturns(w)
  <2>1. PICK w \in Withdrawals :
             approve_one(w) \/ BankPays(w) \/ BankPaysLate(w) \/ BankFails(w) \/ BankReturns(w)
    BY <1>3
  <2>2. UNCHANGED <<wst, ref, audited, sent, proc>> /\ opened' \subseteq SUBSET Withdrawals
    BY <1>0, <2>1 DEF approve_one, BankPays, BankPaysLate, BankFails, BankReturns, Reports
  <2> QED BY <1>1, <2>2
<1>4. CASE \E ids \in SUBSET Withdrawals : bulk_approve(ids)
  BY <1>0, <1>1, <1>4 DEF bulk_approve
<1>5. CASE \E p \in Procs : ProcessStep(p) \/ \E w \in Withdrawals : retry_failed(p, w)
  BY <1>5, ReadsOK, ReleasesOK, SavesOK, Sends DEF ProcessStep
<1> QED BY <1>2, <1>3, <1>4, <1>5, RowsOK DEF PayoutNext

\* No row, no process and no transfer at first.
LEMMA TransferInitOK == ASSUME PayoutInit PROVE TransferInv
<1>1. Idle \in JobType /\ Idle.pc = "idle" /\ Idle.kept = {}
  BY JobFields DEF Idle
<1>2. /\ wst = [w \in Withdrawals |-> "none"] /\ ref = [w \in Withdrawals |-> FALSE]
      /\ audited = [w \in Withdrawals |-> FALSE] /\ opened = {}
      /\ proc = [p \in Procs |-> Idle] /\ sent = [w \in Withdrawals |-> 0]
  BY DEF PayoutInit
<1>3. PayoutTypes
  BY <1>1, <1>2 DEF PayoutTypes, Statuses
<1>4. HandsHold /\ LockHeld /\ LoadedReleased /\ LoadedOnce /\ SavedNamed
  BY <1>1, <1>2 DEF HandsHold, LockHeld, LoadedReleased, LoadedOnce, SavedNamed, Loaded, Sending
<1>5. Unsent /\ TransferredOnce
  BY <1>1, <1>2 DEF Unsent, TransferredOnce
<1> QED BY <1>3, <1>4, <1>5 DEF TransferInv

\* The counts are finite.
LEMMA CountsFinite ==
  ASSUME LedgerTyped
  PROVE  /\ \A w : IsFiniteSet(Taken(w)) /\ IsFiniteSet(Given(w)) /\ IsFiniteSet(Refunders(w))
         /\ \A w : Cardinality(Taken(w)) \in Nat /\ Cardinality(Given(w)) \in Nat /\ Cardinality(Refunders(w)) \in Nat
<1> SUFFICES ASSUME NEW w
             PROVE  /\ IsFiniteSet(Taken(w)) /\ IsFiniteSet(Given(w)) /\ IsFiniteSet(Refunders(w))
                    /\ Cardinality(Taken(w)) \in Nat /\ Cardinality(Given(w)) \in Nat
                    /\ Cardinality(Refunders(w)) \in Nat
  OBVIOUS
<1>1. Taken(w) \subseteq ledger /\ Given(w) \subseteq ledger /\ Refunders(w) \subseteq Procs
  BY DEF Taken, Given, Refunders
<1>2. IsFiniteSet(ledger) /\ IsFiniteSet(Procs)
  BY PayoutConstants DEF LedgerTyped
<1>3. IsFiniteSet(Taken(w)) /\ IsFiniteSet(Given(w)) /\ IsFiniteSet(Refunders(w))
  BY <1>1, <1>2, FS_Subset
<1> QED BY <1>3, FS_CardinalityType

\* Fewer refunds to come owe no more.
LEMMA RefundersFewer ==
  ASSUME LedgerTyped, NEW w, Refunders(w)' \subseteq Refunders(w)
  PROVE  Cardinality(Refunders(w)') \in Nat /\ Cardinality(Refunders(w)') <= Cardinality(Refunders(w))
<1>1. IsFiniteSet(Refunders(w)) /\ Cardinality(Refunders(w)) \in Nat
  BY CountsFinite
<1>2. IsFiniteSet(Refunders(w)') /\ Cardinality(Refunders(w)') <= Cardinality(Refunders(w))
  BY <1>1, FS_Subset
<1> QED BY <1>2, FS_CardinalityType

\* A row of the ledger counts for its own withdrawal only.
LEMMA RowWritten ==
  ASSUME LedgerTyped, NEW w \in Withdrawals, NEW purpose \in Purposes, NEW n \in Nat,
         ledger' = ledger \cup {<<purpose, w, n>>}
  PROVE  /\ IsFiniteSet(ledger')
         /\ \A v \in Withdrawals \ {w} : Taken(v)' = Taken(v) /\ Given(v)' = Given(v) /\ retry_attempts(v)' = retry_attempts(v)
         /\ retry_attempts(w) \in Nat /\ retry_attempts(w)' >= retry_attempts(w)
         /\ purpose = "retry" /\ <<purpose, w, n>> \notin ledger => retry_attempts(w)' = retry_attempts(w) + 1
<1>1. PICK key : key = <<purpose, w, n>> /\ key[1] = purpose /\ key[2] = w
  <2>1. <<purpose, w, n>>[1] = purpose /\ <<purpose, w, n>>[2] = w
    OBVIOUS
  <2> QED BY <2>1, Zenon
<1>2. ledger' = ledger \cup {key}
  BY <1>1
<1>3. IsFiniteSet(ledger) /\ IsFiniteSet(ledger')
  BY <1>2, FS_AddElement DEF LedgerTyped
<1>4. ASSUME NEW v \in Withdrawals \ {w}
      PROVE  Taken(v)' = Taken(v) /\ Given(v)' = Given(v) /\ retry_attempts(v)' = retry_attempts(v)
  <2>1. Taken(v)' = Taken(v) /\ Given(v)' = Given(v)
    BY <1>1, <1>2, <1>4 DEF Taken, Given
  <2>2. {e \in ledger' : e[1] = "retry" /\ e[2] = v} = {e \in ledger : e[1] = "retry" /\ e[2] = v}
    BY <1>1, <1>2, <1>4
  <2> QED BY <2>1, <2>2 DEF retry_attempts
<1>5. PICK old, new : old = {e \in ledger : e[1] = "retry" /\ e[2] = w} /\ new = {e \in ledger' : e[1] = "retry" /\ e[2] = w}
  OBVIOUS
<1>6. retry_attempts(w) = Cardinality(old) /\ retry_attempts(w)' = Cardinality(new)
  BY <1>5 DEF retry_attempts
<1>7. old \subseteq ledger /\ new \subseteq ledger' /\ old \subseteq new
      /\ (purpose = "retry" => new = old \cup {key})
  BY <1>1, <1>2, <1>5
<1>8. IsFiniteSet(old) /\ IsFiniteSet(new)
  BY <1>3, <1>7, FS_Subset
<1>9. Cardinality(old) \in Nat /\ Cardinality(old) <= Cardinality(new)
  BY <1>7, <1>8, FS_Subset, FS_CardinalityType
<1>10. Cardinality(new) \in Nat
  BY <1>8, FS_CardinalityType
<1>11. purpose = "retry" /\ key \notin ledger => Cardinality(new) = Cardinality(old) + 1
  BY <1>7, <1>8, FS_AddElement
<1> QED BY <1>1, <1>3, <1>4, <1>6, <1>9, <1>10, <1>11

\* A debit written for the first time, and a credit.
LEMMA DebitCounted ==
  ASSUME LedgerTyped, NEW w \in Withdrawals, NEW purpose \in {"withdrawal", "retry", "taken"}, NEW n \in Nat,
         <<purpose, w, n>> \notin ledger, ledger' = ledger \cup {<<purpose, w, n>>}
  PROVE  Given(w)' = Given(w) /\ Cardinality(Taken(w)') = Cardinality(Taken(w)) + 1
<1>1. PICK key : key = <<purpose, w, n>> /\ key[1] = purpose /\ key[2] = w
  <2>1. <<purpose, w, n>>[1] = purpose /\ <<purpose, w, n>>[2] = w
    OBVIOUS
  <2> QED BY <2>1, Zenon
<1>2. Given(w)' = Given(w) /\ Taken(w)' = Taken(w) \cup {key} /\ key \notin Taken(w)
  BY <1>1 DEF Given, Taken
<1> QED BY <1>2, CountsFinite, FS_AddElement

\* A refund in the ledger adds at most one to what the withdrawal was given back.
LEMMA CreditCounted ==
  ASSUME LedgerTyped, NEW w \in Withdrawals, NEW n \in Nat,
         NEW purpose \in {"refund_failed", "refund_rejected", "refund_reversed"},
         ledger' = ledger \cup {<<purpose, w, n>>}
  PROVE  /\ Taken(w)' = Taken(w)
         /\ Cardinality(Given(w)') \in Nat /\ Cardinality(Given(w)') <= Cardinality(Given(w)) + 1
<1>1. PICK key : key = <<purpose, w, n>> /\ key[1] = purpose /\ key[2] = w
  <2>1. <<purpose, w, n>>[1] = purpose /\ <<purpose, w, n>>[2] = w
    OBVIOUS
  <2> QED BY <2>1, Zenon
<1>2. Taken(w)' = Taken(w) /\ Given(w)' = Given(w) \cup {key}
  BY <1>1 DEF Given, Taken
<1>3. Cardinality(Given(w) \cup {key}) <= Cardinality(Given(w)) + 1 /\ Cardinality(Given(w) \cup {key}) \in Nat
  <2>1. PICK S : S = Given(w)
    OBVIOUS
  <2>2. IsFiniteSet(S) /\ Cardinality(S) \in Nat
    BY <2>1, CountsFinite
  <2>3. Cardinality(S \cup {key}) = IF key \in S THEN Cardinality(S) ELSE Cardinality(S) + 1
    BY <2>2, FS_AddElement
  <2> QED BY <2>1, <2>2, <2>3
<1> QED BY <1>2, <1>3

\* The rows of other withdrawals, when their refunds to come are no more than before.
LEMMA OthersWithheld ==
  ASSUME LedgerInv, NEW w \in Withdrawals, wst'[w] = wst[w], ref'[w] = ref[w],
         Taken(w)' = Taken(w), Given(w)' = Given(w), Refunders(w)' \subseteq Refunders(w)
  PROVE  Withheld(w)'
<1>1. /\ Cardinality(Taken(w)) \in Nat /\ Cardinality(Given(w)) \in Nat
      /\ Cardinality(Refunders(w)) \in Nat
  BY CountsFinite DEF LedgerInv
<1>2. Cardinality(Refunders(w)') \in Nat /\ Cardinality(Refunders(w)') <= Cardinality(Refunders(w))
  BY RefundersFewer DEF LedgerInv
<1>3. Withheld(w)
  BY DEF LedgerInv
<1>4. Owed(w)' <= Owed(w) /\ Owed(w) \in Nat /\ Owed(w)' \in Nat
  BY <1>1, <1>2 DEF Owed
<1>5. Cardinality(Taken(w)') = Cardinality(Taken(w))
  OBVIOUS
<1> QED BY <1>1, <1>3, <1>4, <1>5 DEF Withheld

\* A step that writes no row and starts no refund.
LEMMA LedgerKept ==
  ASSUME PayoutInv, TransferInv', UNCHANGED ledger,
         \A v \in Withdrawals : wst[v] # "none" => wst'[v] # "none",
         \A q \in Procs : proc'[q].pc = "refund" => proc'[q] = proc[q],
         \A v \in Withdrawals : ~ref'[v] =>
           /\ ~ref[v]
           /\ wst'[v] \in {"pending", "approved", "unresolved"} => wst[v] \in {"pending", "approved", "unresolved"}
           /\ wst'[v] = "failed" => wst[v] = "failed",
         \A v \in Withdrawals : wst'[v] = "unresolved" => ~ref'[v]
  PROVE  LedgerInv'
<1>0. LedgerTyped /\ \A v \in Withdrawals : Withheld(v)
  BY DEF PayoutInv, LedgerInv
<1>1. \A v : Taken(v)' = Taken(v) /\ Given(v)' = Given(v) /\ retry_attempts(v)' = retry_attempts(v)
  BY DEF Taken, Given, retry_attempts
<1>2. \A v : Refunders(v)' \subseteq Refunders(v)
  BY DEF Refunders
<1>3. LedgerTyped'
  <2>1. \A q \in Procs : proc'[q].pc = "refund" => wst'[proc'[q].w] # "none"
    BY <1>0 DEF LedgerTyped, TransferInv, HandsHold
  <2>2. \A e \in ledger : e[2] \in Withdrawals
    BY <1>0 DEF LedgerTyped
  <2> QED BY <1>0, <1>1, <2>1, <2>2 DEF LedgerTyped
<1>4. ASSUME NEW v \in Withdrawals PROVE Withheld(v)'
  <2>1. /\ Cardinality(Taken(v)) \in Nat /\ Cardinality(Given(v)) \in Nat
        /\ Cardinality(Refunders(v)) \in Nat
    BY <1>0, CountsFinite
  <2>2. Cardinality(Refunders(v)') \in Nat /\ Cardinality(Refunders(v)') <= Cardinality(Refunders(v))
    BY <1>0, <1>2, RefundersFewer
  <2>3. Owed(v)' <= Owed(v) /\ Owed(v) \in Nat /\ Owed(v)' \in Nat
    BY <1>1, <2>1, <2>2 DEF Owed
  <2>4. Cardinality(Taken(v)') = Cardinality(Taken(v))
    BY <1>1
  <2>5. Withheld(v)
    BY <1>0
  <2> QED BY <2>1, <2>3, <2>4, <2>5 DEF Withheld
<1> QED BY <1>3, <1>4 DEF LedgerInv

\* A step that writes one row, and accounts for that withdrawal itself.
LEMMA LedgerWrites ==
  ASSUME PayoutInv, TransferInv', NEW w \in Withdrawals, NEW purpose \in Purposes, NEW n \in Nat,
         ledger' = ledger \cup {<<purpose, w, n>>},
         purpose = "retry" => n <= retry_attempts(w)',
         \A v \in Withdrawals \ {w} : wst'[v] = wst[v], UNCHANGED ref,
         \A q \in Procs : proc'[q].pc = "refund" => proc'[q] = proc[q],
         wst'[w] \notin {"none", "unresolved"} \/ (wst[w] # "none" /\ wst'[w] = wst[w]),
         Withheld(w)'
  PROVE  LedgerInv'
<1>0. LedgerTyped /\ \A v \in Withdrawals : Withheld(v) /\ (wst[v] = "unresolved" => ~ref[v])
  BY DEF PayoutInv, LedgerInv
<1>1. \A v \in Withdrawals \ {w} : Taken(v)' = Taken(v) /\ Given(v)' = Given(v) /\ retry_attempts(v)' = retry_attempts(v)
  BY <1>0, RowWritten
<1>2. IsFiniteSet(ledger') /\ retry_attempts(w) \in Nat /\ retry_attempts(w)' >= retry_attempts(w)
  BY <1>0, RowWritten
<1>3. \A v : Refunders(v)' \subseteq Refunders(v)
  BY DEF Refunders
<1>4. \A v \in Withdrawals : Withheld(v)'
  BY <1>1, <1>3, OthersWithheld DEF PayoutInv
<1>5. LedgerTyped'
  <2>1. \A v \in Withdrawals : wst[v] # "none" => wst'[v] # "none"
    OBVIOUS
  <2>2. wst'[w] # "none"
    OBVIOUS
  <2>3. \A q \in Procs : proc'[q].pc = "refund" => wst'[proc'[q].w] # "none"
    BY <1>0, <2>1 DEF LedgerTyped, TransferInv, HandsHold
  <2>4. ASSUME NEW e \in ledger
        PROVE  /\ e \in Purposes \X Withdrawals \X Nat
               /\ wst'[e[2]] # "none" /\ (e[1] = "retry" => e[3] <= retry_attempts(e[2])')
    <3>1. /\ e \in Purposes \X Withdrawals \X Nat /\ e[2] \in Withdrawals /\ e[3] \in Nat
          /\ wst[e[2]] # "none" /\ (e[1] = "retry" => e[3] <= retry_attempts(e[2]))
      BY <1>0 DEF LedgerTyped
    <3>2. CASE e[2] = w
      <4>1. retry_attempts(w)' \in Nat
        <5>1. IsFiniteSet({d \in ledger' : d[1] = "retry" /\ d[2] = w})
          BY <1>2, FS_Subset
        <5> QED BY <5>1, FS_CardinalityType DEF retry_attempts
      <4>2. e[1] = "retry" => e[3] <= retry_attempts(w)'
        BY <1>2, <3>1, <3>2, <4>1
      <4> QED BY <2>1, <3>1, <3>2, <4>2
    <3>3. CASE e[2] # w
      <4>1. PICK v \in Withdrawals \ {w} : v = e[2]
        BY <3>1, <3>3
      <4> QED BY <1>1, <2>1, <3>1, <4>1
    <3> QED BY <3>2, <3>3
  <2>5. PICK key : key = <<purpose, w, n>> /\ key[1] = purpose /\ key[2] = w /\ key[3] = n
    <3>1. <<purpose, w, n>>[1] = purpose /\ <<purpose, w, n>>[2] = w /\ <<purpose, w, n>>[3] = n
      OBVIOUS
    <3> QED BY <3>1, Zenon
  <2>6. key \in Purposes \X Withdrawals \X Nat
    BY <2>5
  <2>7. wst'[key[2]] # "none" /\ (key[1] = "retry" => key[3] <= retry_attempts(key[2])')
    BY <2>2, <2>5
  <2>8. \A e \in ledger' : e \in ledger \/ e = key
    BY <2>5
  <2>9. ledger' \subseteq Purposes \X Withdrawals \X Nat
    BY <2>4, <2>6, <2>8
  <2>10. \A e \in ledger' : wst'[e[2]] # "none" /\ (e[1] = "retry" => e[3] <= retry_attempts(e[2])')
    BY <2>4, <2>7, <2>8
  <2> QED BY <1>2, <2>3, <2>9, <2>10 DEF LedgerTyped
<1>6. \A v \in Withdrawals : wst'[v] = "unresolved" => ~ref'[v]
  BY <1>0
<1> QED BY <1>4, <1>5, <1>6 DEF LedgerInv

\* The attempts made so far are a number, and the next one has no row yet.
LEMMA NextAttempt ==
  ASSUME LedgerTyped, NEW w \in Withdrawals
  PROVE  retry_attempts(w) \in Nat /\ <<"retry", w, retry_attempts(w) + 1>> \notin ledger
<1>1. retry_attempts(w) \in Nat
  <2>1. IsFiniteSet({e \in ledger : e[1] = "retry" /\ e[2] = w})
    BY FS_Subset DEF LedgerTyped
  <2> QED BY <2>1, FS_CardinalityType DEF retry_attempts
<1>2. PICK n \in Nat : n = retry_attempts(w)
  BY <1>1
<1>3. ASSUME <<"retry", w, n + 1>> \in ledger PROVE FALSE
  <2>1. PICK e \in ledger : e[1] = "retry" /\ e[2] = w /\ e[3] = n + 1
    BY <1>3
  <2>2. e[3] <= retry_attempts(w)
    BY <2>1 DEF LedgerTyped
  <2> QED BY <1>2, <2>1, <2>2
<1> QED BY <1>2, <1>3

\* New rows and retries: the debit comes with the row, or with the release.
LEMMA DebitsOK ==
  ASSUME PayoutInv, TransferInv',
         \/ \E w \in Withdrawals : \E a : NewRow(w, a) /\ UNCHANGED <<ref, proc>>
         \/ \E p \in Procs, w \in Withdrawals : retry_failed(p, w)
  PROVE  LedgerInv'
<1>0. LedgerTyped /\ wst \in [Withdrawals -> Statuses] /\ proc \in [Procs -> JobType]
  BY DEF PayoutInv, LedgerInv, TransferInv, PayoutTypes
<1>1. ASSUME NEW w \in Withdrawals, NEW a, NewRow(w, a), UNCHANGED <<ref, proc>> PROVE LedgerInv'
  <2>1. wst[w] = "none" /\ wst' = [wst EXCEPT ![w] = "pending"] /\ ledger' = ledger \cup {<<"withdrawal", w, 0>>}
    BY <1>1 DEF NewRow, Debit
  <2>2. wst'[w] = "pending" /\ \A v \in Withdrawals \ {w} : wst'[v] = wst[v]
    BY <1>0, <2>1
  <2>3. Given(w) = {} /\ Refunders(w) = {} /\ Refunders(w)' = {}
    BY <1>0, <1>1, <2>1 DEF LedgerTyped, Given, Refunders
  <2>4. <<"withdrawal", w, 0>> \notin ledger
    <3>1. \A e \in ledger : e[2] # w
      BY <1>0, <2>1 DEF LedgerTyped
    <3> QED BY <3>1
  <2>5. Given(w)' = Given(w) /\ Cardinality(Taken(w)') = Cardinality(Taken(w)) + 1
    BY <1>0, <2>1, <2>4, DebitCounted
  <2>6. Cardinality(Taken(w)) \in Nat
    BY <1>0, CountsFinite
  <2>7. Owed(w)' = 0
    BY <2>3, <2>5, FS_EmptySet DEF Owed
  <2>8. Withheld(w)'
    BY <2>2, <2>5, <2>6, <2>7 DEF Withheld
  <2> QED BY <1>1, <2>1, <2>2, <2>8, LedgerWrites DEF Purposes
<1>2. ASSUME NEW p \in Procs, NEW w \in Withdrawals, retry_failed(p, w) PROVE LedgerInv'
  <2>1. /\ wst[w] = "failed" /\ ~ref[w] /\ proc[p].pc = "idle" /\ UNCHANGED ref
        /\ wst' = [wst EXCEPT ![w] = "approved"]
        /\ ledger' = ledger \cup {<<"retry", w, retry_attempts(w) + 1>>}
        /\ proc' = [proc EXCEPT ![p] = Job("send", {}, {}, w)]
    BY <1>2 DEF retry_failed, Debit
  <2>2. wst'[w] = "approved" /\ \A v \in Withdrawals \ {w} : wst'[v] = wst[v]
    BY <1>0, <2>1
  <2>3. \A q \in Procs : proc'[q].pc = "refund" => proc'[q] = proc[q]
    BY <1>0, <2>1 DEF Job
  <2>4. PICK n \in Nat : n = retry_attempts(w) + 1 /\ <<"retry", w, n>> \notin ledger
    <3>1. retry_attempts(w) \in Nat /\ <<"retry", w, retry_attempts(w) + 1>> \notin ledger
      BY <1>0, NextAttempt
    <3>2. PICK n \in Nat : n = retry_attempts(w) + 1
      BY <3>1
    <3> QED BY <3>1, <3>2
  <2>5. ledger' = ledger \cup {<<"retry", w, n>>}
    BY <2>1, <2>4
  <2>6. Given(w)' = Given(w) /\ Cardinality(Taken(w)') = Cardinality(Taken(w)) + 1
    BY <1>0, <2>4, <2>5, DebitCounted
  <2>7. retry_attempts(w)' = retry_attempts(w) + 1
    <3>1. PICK purpose \in Purposes : purpose = "retry"
      BY DEF Purposes
    <3>2. <<purpose, w, n>> \notin ledger /\ ledger' = ledger \cup {<<purpose, w, n>>}
      BY <2>4, <2>5, <3>1
    <3> QED BY <1>0, <3>1, <3>2, RowWritten
  <2>8. Refunders(w)' \subseteq Refunders(w)
    BY <2>3 DEF Refunders
  <2>9. /\ Cardinality(Taken(w)) \in Nat /\ Cardinality(Given(w)) \in Nat /\ Cardinality(Refunders(w)) \in Nat
        /\ Cardinality(Refunders(w)') \in Nat /\ Cardinality(Refunders(w)') <= Cardinality(Refunders(w))
    BY <1>0, <2>8, CountsFinite, RefundersFewer
  <2>10. Owed(w) <= Cardinality(Taken(w))
    BY <2>1 DEF PayoutInv, LedgerInv, Withheld
  <2>11. Owed(w)' + 1 <= Cardinality(Taken(w)')
    BY <2>6, <2>9, <2>10 DEF Owed
  <2>12. Withheld(w)'
    BY <2>2, <2>11 DEF Withheld
  <2>13. n <= retry_attempts(w)'
    BY <2>4, <2>7
  <2> QED BY <2>1, <2>2, <2>3, <2>5, <2>12, <2>13, LedgerWrites DEF Purposes
<1> QED BY <1>1, <1>2

\* Credits that leave the row where no promise of this invariant is about it, and resolutions.
LEMMA CreditsOK ==
  ASSUME PayoutInv, TransferInv', NEW w \in Withdrawals,
         reject_one(w) \/ resolve_paid(w) \/ payout_success(w) \/ payout_failed(w) \/ payout_reversed(w)
  PROVE  LedgerInv'
<1>0. /\ LedgerTyped /\ wst \in [Withdrawals -> Statuses] /\ UNCHANGED <<ref, proc>>
      /\ \A v \in Withdrawals : wst[v] = "unresolved" => ~ref[v]
  BY DEF PayoutInv, LedgerInv, TransferInv, PayoutTypes, reject_one, resolve_paid, payout_success, payout_failed,
         payout_reversed
<1>1. PICK st \in {"rejected", "completed", "conflict", "failed", "reversed"} :
        wst' = [wst EXCEPT ![w] = st] /\ (st = "failed" => ref[w])
  BY DEF reject_one, resolve_paid, payout_success, payout_failed, payout_reversed, reverse_paid_payout,
         reverse_conflict, Delivered
<1>2. wst'[w] = st /\ \A v \in Withdrawals \ {w} : wst'[v] = wst[v]
  BY <1>0, <1>1
<1>3. Withheld(w)'
  BY <1>0, <1>1, <1>2 DEF Withheld
<1>4. retry_attempts(w) \in Nat
  BY <1>0, NextAttempt
<1>5. ledger' = ledger \/ \E purpose \in Purposes \ {"retry"}, n \in Nat : ledger' = ledger \cup {<<purpose, w, n>>}
  <2>1. ASSUME NEW key, Credit(w, key) PROVE ledger' = ledger \cup {key}
    BY <2>1 DEF Credit
  <2>2. CASE reject_one(w)
    BY <2>1, <2>2 DEF reject_one, Purposes
  <2>3. CASE resolve_paid(w)
    BY <2>3 DEF resolve_paid, Debit, Purposes
  <2>4. CASE payout_success(w)
    BY <2>4 DEF payout_success
  <2>5. CASE payout_failed(w)
    BY <1>4, <2>1, <2>5 DEF payout_failed, failed_refund_reference, Purposes
  <2>6. CASE payout_reversed(w)
    <3>1. CASE reverse_paid_payout(w)
      BY <2>1, <3>1 DEF reverse_paid_payout, Purposes
    <3>2. CASE reverse_conflict(w)
      BY <3>2 DEF reverse_conflict
    <3>3. CASE Credit(w, failed_refund_reference(w))
      BY <1>4, <2>1, <3>3 DEF failed_refund_reference, Purposes
    <3> QED BY <2>6, <3>1, <3>2, <3>3 DEF payout_reversed
  <2> QED BY <2>2, <2>3, <2>4, <2>5, <2>6
<1>6. CASE ledger' = ledger
  BY <1>0, <1>1, <1>2, <1>6, LedgerKept
<1>7. CASE \E purpose \in Purposes \ {"retry"}, n \in Nat : ledger' = ledger \cup {<<purpose, w, n>>}
  BY <1>0, <1>1, <1>2, <1>3, <1>7, LedgerWrites
<1> QED BY <1>5, <1>6, <1>7

\* A refusal saved as failed: its refund is to come.
LEMMA RefusalOwes ==
  ASSUME PayoutInv, TransferInv', NEW p \in Procs, SaveFailed(p)
  PROVE  LedgerInv'
<1>0. /\ LedgerTyped /\ PayoutTypes /\ wst \in [Withdrawals -> Statuses]
      /\ \A v \in Withdrawals : Withheld(v) /\ (wst[v] = "unresolved" => ~ref[v])
  BY DEF PayoutInv, LedgerInv, TransferInv, PayoutTypes
<1>1. PICK w \in Withdrawals : w = proc[p].w /\ proc[p].pc = "refused" /\ wst[w] = "approved" /\ ~ref[w]
  BY DEF SaveFailed, PayoutInv, TransferInv, HandsHold, LoadedReleased, Loaded, Sending
<1>2. wst' = [wst EXCEPT ![w] = "failed"] /\ Goto(p, "refund") /\ UNCHANGED <<ledger, ref>>
  BY <1>1 DEF SaveFailed, SaveStatus
<1>3. wst'[w] = "failed" /\ \A v \in Withdrawals \ {w} : wst'[v] = wst[v]
  BY <1>0, <1>2
<1>4. proc'[p].pc = "refund" /\ proc'[p].w = w /\ \A q \in Procs \ {p} : proc'[q] = proc[q]
  BY <1>0, <1>1, <1>2, GotoOK
<1>5. \A v : Taken(v)' = Taken(v) /\ Given(v)' = Given(v) /\ retry_attempts(v)' = retry_attempts(v)
  BY <1>2 DEF Taken, Given, retry_attempts
<1>6. \A v \in Withdrawals \ {w} : Refunders(v)' \subseteq Refunders(v)
  BY <1>4 DEF Refunders
<1>7. \A v \in Withdrawals \ {w} : Withheld(v)'
  BY <1>2, <1>3, <1>5, <1>6, OthersWithheld DEF PayoutInv
<1>8. Withheld(w)'
  <2>1. PICK R : R = Refunders(w) /\ IsFiniteSet(R) /\ Cardinality(R) \in Nat
    BY <1>0, CountsFinite
  <2>2. Refunders(w)' = R \cup {p}
    BY <1>1, <1>4, <2>1 DEF Refunders
  <2>3. Cardinality(R \cup {p}) = IF p \in R THEN Cardinality(R) ELSE Cardinality(R) + 1
    BY <2>1, FS_AddElement
  <2>4. /\ Cardinality(Refunders(w)') \in Nat
        /\ Cardinality(Refunders(w)') <= Cardinality(Refunders(w)) + 1
    BY <2>1, <2>2, <2>3
  <2>5. Owed(w) + 1 <= Cardinality(Taken(w))
    BY <1>0, <1>1 DEF Withheld
  <2>6. Cardinality(Taken(w)) \in Nat /\ Cardinality(Given(w)) \in Nat /\ Cardinality(Refunders(w)) \in Nat
    BY <1>0, CountsFinite
  <2>7. Owed(w)' <= Cardinality(Taken(w)')
    BY <1>5, <2>4, <2>5, <2>6 DEF Owed
  <2> QED BY <1>3, <2>7 DEF Withheld
<1>9. LedgerTyped'
  <2>1. \A q \in Procs : proc'[q].pc = "refund" => wst'[proc'[q].w] # "none"
    BY <1>0, <1>3, <1>4 DEF LedgerTyped, TransferInv, HandsHold
  <2>2. \A e \in ledger : e[2] \in Withdrawals /\ wst'[e[2]] # "none"
    BY <1>0, <1>3 DEF LedgerTyped
  <2> QED BY <1>0, <1>2, <1>5, <2>1, <2>2 DEF LedgerTyped
<1>10. \A v \in Withdrawals : wst'[v] = "unresolved" => ~ref'[v]
  BY <1>0, <1>2, <1>3
<1> QED BY <1>7, <1>8, <1>9, <1>10 DEF LedgerInv

\* A refund that was to come is written, under the key of whichever attempt is latest by then.
LEMMA RefundOK ==
  ASSUME PayoutInv, TransferInv', NEW p \in Procs, refund_failed_withdrawal(p)
  PROVE  LedgerInv'
<1>0. LedgerTyped /\ PayoutTypes /\ \A v \in Withdrawals : Withheld(v)
  BY DEF PayoutInv, LedgerInv, TransferInv
<1>1. PICK w \in Withdrawals : w = proc[p].w /\ proc[p].pc = "refund" /\ wst[w] # "none"
  BY <1>0 DEF refund_failed_withdrawal, PayoutInv, TransferInv, HandsHold, LedgerTyped
<1>2. PICK n \in Nat : n = retry_attempts(w)
  BY <1>0, NextAttempt
<1>3. UNCHANGED <<wst, ref>> /\ Done(p) /\ ledger' = ledger \cup {<<"refund_failed", w, n>>}
  BY <1>1, <1>2 DEF refund_failed_withdrawal, Credit, failed_refund_reference
<1>4. proc'[p].pc # "refund" /\ \A q \in Procs \ {p} : proc'[q] = proc[q]
  BY <1>0, <1>3, DoneOK
<1>5. Withheld(w)'
  <2>1. PICK R : R = Refunders(w) /\ IsFiniteSet(R) /\ Cardinality(R) \in Nat
    BY <1>0, CountsFinite
  <2>2. p \in R /\ Refunders(w)' = R \ {p}
    BY <1>1, <1>4, <2>1 DEF Refunders
  <2>3. IsFiniteSet(R \ {p}) /\ Cardinality(R \ {p}) = Cardinality(R) - 1
    BY <2>1, <2>2, FS_RemoveElement
  <2>4. Cardinality(R \ {p}) \in Nat
    BY <2>3, FS_CardinalityType
  <2>5. Cardinality(Refunders(w)') \in Nat /\ Cardinality(Refunders(w)') = Cardinality(Refunders(w)) - 1
    BY <2>1, <2>2, <2>3, <2>4
  <2>6. /\ Taken(w)' = Taken(w)
        /\ Cardinality(Given(w)') \in Nat /\ Cardinality(Given(w)') <= Cardinality(Given(w)) + 1
    BY <1>0, <1>3, CreditCounted
  <2>7. Cardinality(Taken(w)) \in Nat /\ Cardinality(Given(w)) \in Nat /\ Cardinality(Refunders(w)) \in Nat
    BY <1>0, CountsFinite
  <2>8. Owed(w)' <= Owed(w) /\ Owed(w)' \in Nat /\ Owed(w) \in Nat
    BY <2>5, <2>6, <2>7 DEF Owed
  <2>9. Withheld(w) /\ Cardinality(Taken(w)') = Cardinality(Taken(w))
    BY <1>0, <2>6
  <2> QED BY <1>3, <2>7, <2>8, <2>9 DEF Withheld
<1>6. \A q \in Procs : proc'[q].pc = "refund" => proc'[q] = proc[q]
  BY <1>4
<1> QED BY <1>1, <1>3, <1>5, <1>6, LedgerWrites DEF Purposes

\* The other steps of a process write no row.
LEMMA QuietSteps ==
  ASSUME PayoutInv, TransferInv', NEW p \in Procs,
         \/ execute_payout(p) \/ ReadRow(p) \/ FlipRow(p) \/ NextTrigger(p) \/ initiate_upi_payout(p)
         \/ SaveReference(p) \/ SaveProcessed(p) \/ SaveUnresolved(p) \/ Crash(p)
  PROVE  LedgerInv'
<1>0. /\ PayoutTypes /\ wst \in [Withdrawals -> Statuses] /\ ref \in [Withdrawals -> BOOLEAN]
      /\ proc \in [Procs -> JobType]
      /\ \A v \in Withdrawals : wst[v] = "unresolved" => ~ref[v]
  BY DEF PayoutInv, LedgerInv, TransferInv, PayoutTypes
<1>1. UNCHANGED ledger
  BY DEF execute_payout, ReadRow, FlipRow, NextTrigger, initiate_upi_payout, SaveReference, SaveProcessed,
         SaveUnresolved, Crash
<1>2. \A q \in Procs : proc'[q].pc = "refund" => proc'[q] = proc[q]
  <2>1. CASE execute_payout(p) \/ ReadRow(p) \/ FlipRow(p) \/ NextTrigger(p) \/ Crash(p)
    BY <1>0, <2>1 DEF execute_payout, ReadRow, FlipRow, NextTrigger, Crash, Idle, Job
  <2>2. CASE initiate_upi_payout(p) \/ SaveReference(p)
    <3>1. PICK pc \in {"accepted", "refused", "unknown", "saved"} : Goto(p, pc)
      BY <2>2 DEF initiate_upi_payout, SaveReference
    <3> QED BY <1>0, <3>1, GotoOK
  <2>3. CASE SaveProcessed(p) \/ SaveUnresolved(p)
    BY <1>0, <2>3, DoneOK DEF SaveProcessed, SaveUnresolved
  <2> QED BY <2>1, <2>2, <2>3
<1>3. CASE execute_payout(p) \/ ReadRow(p) \/ NextTrigger(p) \/ initiate_upi_payout(p) \/ Crash(p)
  <2>1. UNCHANGED <<wst, ref>>
    BY <1>3 DEF execute_payout, ReadRow, NextTrigger, initiate_upi_payout, Crash
  <2> QED BY <1>0, <1>1, <1>2, <2>1, LedgerKept
<1>4. CASE FlipRow(p)
  <2>1. PICK w \in Withdrawals : w = proc[p].w /\ wst[w] = "pending"
    BY <1>4 DEF FlipRow, PayoutInv, TransferInv, HandsHold, LockHeld
  <2>2. wst' = [wst EXCEPT ![w] = "approved"] /\ ref' = ref
    BY <1>4, <2>1 DEF FlipRow
  <2>3. wst'[w] = "approved" /\ \A v \in Withdrawals \ {w} : wst'[v] = wst[v]
    BY <1>0, <2>2
  <2> QED BY <1>0, <1>1, <1>2, <2>1, <2>2, <2>3, LedgerKept
<1>5. CASE SaveReference(p) \/ SaveProcessed(p)
  <2>1. PICK w \in Withdrawals : w = proc[p].w /\ (SaveProcessed(p) => ref[w])
    BY <1>5 DEF SaveReference, SaveProcessed, PayoutInv, TransferInv, HandsHold, SavedNamed, Sending
  <2>2. /\ wst' = [wst EXCEPT ![w] = "processed"]
        /\ ref' = ref \/ ref' = [ref EXCEPT ![w] = TRUE]
    BY <1>5, <2>1 DEF SaveReference, SaveProcessed, SaveStatus
  <2>3. /\ wst'[w] = "processed"
        /\ \A v \in Withdrawals \ {w} : wst'[v] = wst[v] /\ ref'[v] = ref[v]
    BY <1>0, <2>2
  <2>4. ~ref'[w] => ~ref[w]
    BY <1>0, <2>2
  <2> QED BY <1>0, <1>1, <1>2, <2>3, <2>4, LedgerKept
<1>6. CASE SaveUnresolved(p)
  <2>1. PICK w \in Withdrawals : w = proc[p].w /\ wst[w] = "approved" /\ ~ref[w]
    BY <1>6 DEF SaveUnresolved, PayoutInv, TransferInv, HandsHold, LoadedReleased, Loaded, Sending
  <2>2. wst' = [wst EXCEPT ![w] = "unresolved"] /\ ref' = ref
    BY <1>6, <2>1 DEF SaveUnresolved, SaveStatus
  <2>3. wst'[w] = "unresolved" /\ \A v \in Withdrawals \ {w} : wst'[v] = wst[v]
    BY <1>0, <2>2
  <2> QED BY <1>0, <1>1, <1>2, <2>1, <2>2, <2>3, LedgerKept
<1> QED BY <1>3, <1>4, <1>5, <1>6

\* Every step keeps the accounts of every withdrawal.
LEMMA PayoutStep == PayoutInv /\ [PayoutNext]_payoutVars => PayoutInv'
<1> SUFFICES ASSUME PayoutInv, [PayoutNext]_payoutVars PROVE PayoutInv'
  OBVIOUS
<1>1. TransferInv'
  BY TransferStep DEF PayoutInv
<1> SUFFICES LedgerInv'
  BY <1>1 DEF PayoutInv
<1>0. \A v \in Withdrawals : wst[v] = "unresolved" => ~ref[v]
  BY DEF PayoutInv, LedgerInv
<1>2. ASSUME UNCHANGED <<wst, ref, ledger, proc>> PROVE LedgerInv'
  BY <1>0, <1>1, <1>2, LedgerKept
<1>3. CASE UNCHANGED payoutVars
  BY <1>2, <1>3 DEF payoutVars, PayoutInv
<1>4. CASE \E w \in Withdrawals :
             approve_one(w) \/ BankPays(w) \/ BankPaysLate(w) \/ BankFails(w) \/ BankReturns(w)
  BY <1>2, <1>4 DEF approve_one, BankPays, BankPaysLate, BankFails, BankReturns, Reports
<1>5. CASE \E ids \in SUBSET Withdrawals : bulk_approve(ids)
  BY <1>2, <1>5 DEF bulk_approve
<1>6. CASE driver_withdrawal_request \/ run_country
  <2>1. UNCHANGED <<ref, proc>>
    BY <1>6 DEF driver_withdrawal_request, run_country
  <2>2. CASE \E w \in Withdrawals : \E a : NewRow(w, a)
    BY <1>1, <2>1, <2>2, DebitsOK
  <2>3. CASE UNCHANGED <<wst, ledger>>
    BY <1>2, <2>1, <2>3
  <2> QED BY <1>6, <2>2, <2>3 DEF driver_withdrawal_request, run_country
<1>7. CASE \E p \in Procs : ProcessStep(p) \/ \E w \in Withdrawals : retry_failed(p, w)
  BY <1>1, <1>7, QuietSteps, RefundOK, RefusalOwes, DebitsOK DEF ProcessStep
<1>8. CASE \E w \in Withdrawals :
             reject_one(w) \/ resolve_paid(w) \/ payout_success(w) \/ payout_failed(w) \/ payout_reversed(w)
  BY <1>1, <1>8, CreditsOK
<1> QED BY <1>3, <1>4, <1>5, <1>6, <1>7, <1>8 DEF PayoutNext

\* Nothing is owed at first.
LEMMA PayoutInitOK == PayoutInit => PayoutInv
<1> SUFFICES ASSUME PayoutInit PROVE PayoutInv
  OBVIOUS
<1>1. TransferInv
  BY TransferInitOK
<1>2. ledger = {} /\ wst = [w \in Withdrawals |-> "none"] /\ proc = [p \in Procs |-> Idle]
  BY DEF PayoutInit
<1>3. Idle.pc = "idle"
  BY JobFields DEF Idle
<1>4. LedgerTyped
  BY <1>2, <1>3, FS_EmptySet DEF LedgerTyped
<1>5. \A w \in Withdrawals : Withheld(w) /\ (wst[w] = "unresolved" => ~ref[w])
  BY <1>2 DEF Withheld
<1> QED BY <1>1, <1>4, <1>5 DEF PayoutInv, LedgerInv

\* The invariant, always.
LEMMA PayoutInvAlways == PayoutSpec => []PayoutInv
BY PayoutInitOK, PayoutStep, PTL DEF PayoutSpec

\* However single, bulk and weekly releases overlap, webhooks arrive late, processes die and failed
\* payouts are retried, the provider never accepts two transfers for one withdrawal
\* (_approve_one's row lock, retry_failed's refusals).
THEOREM TransfersOnce == PayoutSpec => []TransferredOnce
<1>1. PayoutInv => TransferredOnce
  BY DEF PayoutInv, TransferInv
<1> QED BY <1>1, PayoutInvAlways, PTL

\* Nothing is sent that a checker did not release, and what was sent is never rejected and refunded
\* as if it were pending (reject_one against _approve_one).
THEOREM OnlyReleasedSent == PayoutSpec => []OnlyReleasedIsSent
<1>1. PayoutInv => OnlyReleasedIsSent
  BY DEF PayoutInv, TransferInv, Unsent, OnlyReleasedIsSent, PayoutTypes
<1> QED BY <1>1, PayoutInvAlways, PTL

\* A payout whose answer was lost stays withheld: refunds of earlier attempts, however late, never
\* outnumber the debits by which those attempts were paid for (refund_failed_withdrawal's keys,
\* retry_failed's debit, trigger_payout_creation's unresolved branch).
THEOREM UnresolvedWithheld == PayoutSpec => []UnresolvedStaysWithheld
<1>1. PayoutInv => UnresolvedStaysWithheld
  <2> SUFFICES ASSUME PayoutInv, NEW w \in Withdrawals, wst[w] = "unresolved"
               PROVE  NetDebits(w) >= 1
    BY DEF UnresolvedStaysWithheld
  <2>1. Owed(w) + 1 <= Cardinality(Taken(w))
    BY DEF PayoutInv, LedgerInv, Withheld
  <2>2. Cardinality(Taken(w)) \in Nat /\ Cardinality(Given(w)) \in Nat /\ Cardinality(Refunders(w)) \in Nat
    BY CountsFinite DEF PayoutInv, LedgerInv
  <2>3. NetDebits(w) = Cardinality(Taken(w)) - Cardinality(Given(w))
    BY DEF NetDebits, Rows, Taken, Given
  <2> QED BY <2>1, <2>2, <2>3 DEF Owed
<1> QED BY <1>1, PayoutInvAlways, PTL
=============================================================================
