--------------------------- MODULE CommissionRules ---------------------------
(* Commission rules of one scope (country, city and vehicle class): drafted, *)
(* edited, discarded and submitted by operators, and activated by the        *)
(* maker-checker service.  Editing, discarding and submitting take no lock:  *)
(* each checks the status of a row it loaded earlier and then writes or      *)
(* deletes the whole row.                                                    *)
EXTENDS Approvals

CONSTANTS Rules,   \* CommissionRule rows
          Seeded,  \* those in force already (apply_commission_ruling)
          Editors, \* operators' requests being handled
          Rates    \* percentages

ASSUME CommissionConstants == IsFiniteSet(Rules) /\ IsFiniteSet(Editors) /\ Seeded \subseteq Rules

VARIABLES rule,   \* CommissionRule rows; `of` is approval_request_id
          editor, \* each handler: what it does next, and the row it loaded
          asked,  \* the percentage in each request's payload
          acting  \* executors under way, and the open siblings each has read
commissionVars == <<rule, editor, asked, acting>>

NoRow == [st |-> "none", pct |-> 0, of |-> Nobody, open |-> TRUE]
NoEditor == [pc |-> "idle", i |-> CHOOSE i \in Rules : TRUE, row |-> NoRow]

NotActing == [on |-> FALSE, closes |-> {}]

CommissionInit ==
  /\ rule = [i \in Rules |-> IF i \in Seeded THEN [NoRow EXCEPT !.st = "active"] ELSE NoRow]
  /\ editor = [e \in Editors |-> NoEditor]
  /\ asked = [r \in Requests |-> 0]
  /\ acting = [r \in Requests |-> NotActing]

RuleOf(r) == req[r].key[2]

\* activate_rule locks its row; everyone else's write of it waits.
RowLocked(i) == \E r \in Requests : acting[r].on /\ RuleOf(r) = i

-----------------------------------------------------------------------------
(* The operators.                                                           *)

_open_draft == \E i \in Rules : rule[i].st \in {"draft", "pending"}

\* One open draft per scope, by a read that locks nothing ...
DraftChecked(e) ==
  /\ editor[e].pc = "idle" /\ ~_open_draft
  /\ editor' = [editor EXCEPT ![e].pc = "create"]
  /\ UNCHANGED <<approvalVars, rule, asked, acting>>

\* ... and the insert.
create_rule_draft(e) ==
  /\ editor[e].pc = "create"
  /\ \E i \in Rules, p \in Rates :
       /\ rule[i].st = "none"
       /\ rule' = [rule EXCEPT ![i] = [NoRow EXCEPT !.st = "draft", !.pct = p]]
  /\ editor' = [editor EXCEPT ![e] = NoEditor]
  /\ UNCHANGED <<approvalVars, asked, acting>>

\* The view loads the rule; only a draft goes on.
Loads(e, i, pc) ==
  /\ editor[e].pc = "idle" /\ rule[i].st = "draft"
  /\ editor' = [editor EXCEPT ![e] = [pc |-> pc, i |-> i, row |-> rule[i]]]
  /\ UNCHANGED <<approvalVars, rule, asked, acting>>

\* Mutant: only the percentage is saved.
update_rule_draft_column(e) ==
  /\ editor[e].pc = "edit" /\ ~RowLocked(editor[e].i)
  /\ \E p \in Rates : rule' = [rule EXCEPT ![editor[e].i].pct = p]
  /\ editor' = [editor EXCEPT ![e] = NoEditor]
  /\ UNCHANGED <<approvalVars, asked, acting>>

\* Every column is saved, as loaded; a row deleted meanwhile is inserted again.
update_rule_draft(e) ==
  /\ editor[e].pc = "edit" /\ ~RowLocked(editor[e].i)
  /\ \E p \in Rates : rule' = [rule EXCEPT ![editor[e].i] = [editor[e].row EXCEPT !.pct = p]]
  /\ editor' = [editor EXCEPT ![e] = NoEditor]
  /\ UNCHANGED <<approvalVars, asked, acting>>

discard_draft(e) ==
  /\ editor[e].pc = "discard" /\ ~RowLocked(editor[e].i)
  /\ rule' = [rule EXCEPT ![editor[e].i] = NoRow]
  /\ editor' = [editor EXCEPT ![e] = NoEditor]
  /\ UNCHANGED <<approvalVars, asked, acting>>

\* The request and the saved row commit together; if the rule's key is held already the row is left.
submit(e, o) ==
  LET i == editor[e].i
      row == editor[e].row
      key == <<"rule", i>> IN
    /\ editor[e].pc = "submit"
    /\ \E r \in Requests :
         /\ require_approval_or_execute(o, key, TRUE, r)
         /\ IF Existing(key) # {}
            THEN UNCHANGED <<rule, asked>>
            ELSE /\ ~RowLocked(i)
                 /\ asked' = [asked EXCEPT ![r] = row.pct]
                 /\ rule' = [rule EXCEPT ![i] = [row EXCEPT !.st = "pending", !.of = r]]
    /\ editor' = [editor EXCEPT ![e] = NoEditor]
    /\ UNCHANGED acting

-----------------------------------------------------------------------------
(* The maker-checker service.                                               *)

\* Rejected, withdrawn or expired: back to draft, if the rule still waits for this request.
_request_closed(r) ==
  LET i == RuleOf(r) IN
    /\ rule' = [rule EXCEPT ![i].st = IF @ = "pending" /\ rule[i].of = r THEN "draft" ELSE @]
    /\ UNCHANGED <<editor, asked, acting>>

OpenSiblings(i) == {j \in Rules \ {i} : rule[j].st \in {"active", "archived"} /\ rule[j].open}

\* activate_rule locks the row, checks it, and reads the rules it will close.  A cap or a later
\* predecessor refuses the activation too.
ActivationStarts(r) ==
  LET i == RuleOf(r)
      waiting == rule[i].st = "pending" /\ rule[i].of = r IN
    /\ runner[r] = "run" /\ ~acting[r].on /\ ~RowLocked(i)
    /\ \/ /\ waiting /\ UNCHANGED approvalVars
          /\ acting' = [acting EXCEPT ![r] = [on |-> TRUE, closes |-> OpenSiblings(i)]]
       \/ Refuses(r) /\ UNCHANGED acting
    /\ UNCHANGED <<rule, editor, asked>>

\* A sibling closed meanwhile no longer matches; one opened meanwhile was not read.
activate_rule(r) ==
  LET closes(j) == j \in acting[r].closes \cap OpenSiblings(RuleOf(r)) IN
    /\ runner[r] = "run" /\ acting[r].on /\ Executes(r)
    /\ rule' = [j \in Rules |->
                  IF j = RuleOf(r) THEN [rule[j] EXCEPT !.st = "active"]
                  ELSE IF closes(j) THEN [rule[j] EXCEPT !.st = "archived", !.open = FALSE]
                  ELSE rule[j]]
    /\ acting' = [acting EXCEPT ![r] = NotActing]
    /\ UNCHANGED <<editor, asked>>

\* A killed process takes its transaction and its lock with it.
ActivationDies(r) ==
  /\ RunnerDies(r)
  /\ acting' = [acting EXCEPT ![r] = NotActing]
  /\ UNCHANGED <<rule, editor, asked>>

-----------------------------------------------------------------------------
CommissionNext ==
  \/ \E e \in Editors :
       \/ DraftChecked(e) \/ create_rule_draft(e) \/ update_rule_draft(e) \/ discard_draft(e)
       \/ \E o \in Makers : submit(e, o)
       \/ \E i \in Rules, pc \in {"edit", "discard", "submit"} : Loads(e, i, pc)
  \/ \E r \in Requests :
       \/ \E o \in Operators : approve(r, o) /\ UNCHANGED commissionVars
       \/ \E o \in Operators : (reject(r, o) \/ cancel(r, o)) /\ _request_closed(r)
       \/ expire_stale(r) /\ _request_closed(r)
       \/ ActivationStarts(r) \/ activate_rule(r) \/ ActivationDies(r)
       \/ _finish(r) /\ UNCHANGED commissionVars

CommissionSpec ==
  ApprovalInit /\ CommissionInit /\ [][CommissionNext]_<<approvalVars, commissionVars>>

CommissionTypeOK ==
  LET Row == [st : {"none", "draft", "pending", "active", "archived"}, pct : Rates \cup {0},
              of : Requests \cup {Nobody}, open : BOOLEAN] IN
    /\ rule \in [Rules -> Row]
    /\ editor \in [Editors -> [pc : {"idle", "create", "edit", "discard", "submit"}, i : Rules, row : Row]]
    /\ asked \in [Requests -> Rates \cup {0}]
    /\ acting \in [Requests -> [on : BOOLEAN, closes : SUBSET Rules]]

\* Drivers are charged only a rate that a second person approved for that rule.  Edits, discards and
\* submissions work on rows loaded before the request was raised, so a stale one can land on a rule
\* that waits for its checker; it may cost the request, never change the rate it activates.
RateAsApproved ==
  \A i \in Rules \ Seeded :
    rule[i].st \in {"active", "archived"} =>
      \E r \in Requests : ran[r] = 1 /\ req[r].key = <<"rule", i>> /\ asked[r] = rule[i].pct
=============================================================================
