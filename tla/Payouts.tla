------------------------------ MODULE Payouts ------------------------------
(* Withdrawals of one driver, from the request to the bank's last word.     *)
(* A request debits the wallet at once.  An approved maker-checker request  *)
(* releases one withdrawal or a batch: every row is flipped under its lock, *)
(* and then trigger_payout_creation works on the objects it kept, saving    *)
(* them without looking at the rows again, while webhooks of the same       *)
(* payout commit in between.  Only payouts on the one rail there is (INR)   *)
(* are modelled: a payout without a rail is parked and nothing moves.       *)
(* The seven-day block, holds and fees refuse or shrink a request and are   *)
(* left to the choice of whether a request comes and of its amount.         *)
EXTENDS Integers, FiniteSets, FiniteSetsExt

CONSTANTS Withdrawals, \* ids of WithdrawalRequest rows
          Procs,       \* web or Celery processes running a trigger
          Opening,     \* the driver's settlement balance at the start
          Amounts,     \* what the driver may ask for
          MaxRetries,  \* bound: human retries per withdrawal
          MaxFaults,   \* bound: processes killed and transfers reported both failed and paid
          MaxReports,  \* bound: what the provider reports of all transfers together
          None         \* no row

ASSUME PayoutConstants ==
  /\ IsFiniteSet(Withdrawals) /\ Withdrawals # {} /\ IsFiniteSet(Procs)
  /\ Opening \in Nat \ {0} /\ Amounts \subseteq Nat \ {0}
  /\ MaxRetries \in Nat /\ MaxFaults \in Nat /\ MaxReports \in Nat

VARIABLES wst,     \* WithdrawalRequest.status; "none" before the row exists
          amount,  \* amount_minor
          ref,     \* payout_reference_id is saved
          audited, \* the withdrawal_approved audit row exists
          wallet,  \* balance_minor of the driver's wallet
          ledger,  \* WalletTransaction rows: <<purpose, withdrawal, attempt>>
          opened,  \* open payout requests, each the set of ids it names
          ranWeek, \* this week's PayoutRun row exists
          proc,    \* what each process is doing
          bank,    \* everything the provider has reported of a withdrawal's transfer
          sent,    \* how many transfers of a withdrawal the provider accepted
          faults
payoutVars == <<wst, amount, ref, audited, wallet, ledger, opened, ranWeek, proc, bank, sent, faults>>

Statuses == {"none", "pending", "approved", "processed", "completed", "failed",
             "rejected", "unresolved", "conflict", "reversed"}
OPEN_STATUSES == {"pending", "approved", "processed", "unresolved", "conflict"}
REFUNDED_STATUSES == {"failed", "rejected"}

\* A process: the ids still to flip, the objects kept for the trigger, the row in hand.
Job(pc, todo, kept, w) == [pc |-> pc, todo |-> todo, kept |-> kept, w |-> w]
Idle == Job("idle", {}, {}, None)

\* A row is locked while a process is between reading and flipping it.
WithdrawalLocked(w) == \E p \in Procs : proc[p].pc = "flip" /\ proc[p].w = w

has_open_conflict == \E w \in Withdrawals : wst[w] = "conflict"

retry_attempts(w) == Cardinality({e \in ledger : e[1] = "retry" /\ e[2] = w})

\* Every refund of a failed attempt has the key of the attempt that is latest when it is written.
failed_refund_reference(w) == <<"refund_failed", w, retry_attempts(w)>>

\* A keyed wallet credit: written once, whoever comes first.
Credit(w, key) ==
  IF key \in ledger
  THEN UNCHANGED <<wallet, ledger>>
  ELSE /\ ledger' = ledger \cup {key}
       /\ wallet' = wallet + amount[w]

Debit(a, key) ==
  /\ ledger' = ledger \cup {key}
  /\ wallet' = wallet - a

PayoutInit ==
  /\ wst = [w \in Withdrawals |-> "none"]
  /\ amount = [w \in Withdrawals |-> 0]
  /\ ref = [w \in Withdrawals |-> FALSE]
  /\ audited = [w \in Withdrawals |-> FALSE]
  /\ wallet = Opening
  /\ ledger = {}
  /\ opened = {}
  /\ ranWeek = FALSE
  /\ proc = [p \in Procs |-> Idle]
  /\ bank = [w \in Withdrawals |-> {}]
  /\ sent = [w \in Withdrawals |-> 0]
  /\ faults = 0

-----------------------------------------------------------------------------
(* Requests.                                                                *)

NewRow(w, a) ==
  /\ wst[w] = "none"
  /\ wst' = [wst EXCEPT ![w] = "pending"]
  /\ amount' = [amount EXCEPT ![w] = a]
  /\ Debit(a, <<"withdrawal", w, 0>>)

\* The conflict is looked up just before the wallet lock; the amount must fit the locked balance.
driver_withdrawal_request ==
  /\ ~has_open_conflict
  /\ \E w \in Withdrawals, a \in Amounts : a <= wallet /\ NewRow(w, a)
  /\ UNCHANGED <<ref, audited, opened, ranWeek, proc, bank, sent, faults>>

\* The weekly run takes the whole balance of a driver with no open payout and opens one request.
run_country ==
  /\ ~ranWeek
  /\ ranWeek' = TRUE
  /\ \/ /\ \A w \in Withdrawals : wst[w] \notin OPEN_STATUSES
        /\ wallet > 0
        /\ \E w \in Withdrawals : NewRow(w, wallet) /\ opened' = opened \cup {{w}}
     \/ /\ wallet <= 0 \/ \E w \in Withdrawals : wst[w] \in OPEN_STATUSES
        /\ UNCHANGED <<wst, amount, wallet, ledger, opened>>
  /\ UNCHANGED <<ref, audited, proc, bank, sent, faults>>

\* The maker's half: only pending rows are named; a single request is refused during a conflict.
approve_one(w) ==
  /\ wst[w] = "pending" /\ ~has_open_conflict
  /\ {w} \notin opened
  /\ opened' = opened \cup {{w}}
  /\ UNCHANGED <<wst, amount, ref, audited, wallet, ledger, ranWeek, proc, bank, sent, faults>>

bulk_approve(ids) ==
  /\ Cardinality(ids) > 1 /\ ids \notin opened
  /\ \A w \in ids : wst[w] = "pending"
  /\ opened' = opened \cup {ids}
  /\ UNCHANGED <<wst, amount, ref, audited, wallet, ledger, ranWeek, proc, bank, sent, faults>>

\* Mutant: an approved row can still be rejected.
reject_one_approved(w) ==
  /\ ~WithdrawalLocked(w) /\ wst[w] \in {"pending", "approved"}
  /\ wst' = [wst EXCEPT ![w] = "rejected"]
  /\ Credit(w, <<"refund_rejected", w, 0>>)
  /\ UNCHANGED <<amount, ref, audited, opened, ranWeek, proc, bank, sent, faults>>

\* Rejecting one pending withdrawal (or one row of a bulk rejection) returns the money once.
reject_one(w) ==
  /\ ~WithdrawalLocked(w) /\ wst[w] = "pending"
  /\ wst' = [wst EXCEPT ![w] = "rejected"]
  /\ Credit(w, <<"refund_rejected", w, 0>>)
  /\ UNCHANGED <<amount, ref, audited, opened, ranWeek, proc, bank, sent, faults>>

-----------------------------------------------------------------------------
(* Release: execute_payout flips every row it can, then sends each in turn. *)

execute_payout(p) ==
  /\ proc[p].pc = "idle"
  /\ \E ids \in opened :
       /\ opened' = opened \ {ids}
       /\ proc' = [proc EXCEPT ![p] = Job("read", ids, {}, None)]
  /\ UNCHANGED <<wst, amount, ref, audited, wallet, ledger, ranWeek, bank, sent, faults>>

\* _approve_one under the row lock: still pending, and no other payout in conflict; a driver with
\* no payout destination on file is passed over as well.
ReadRow(p) ==
  /\ proc[p].pc = "read"
  /\ \E w \in proc[p].todo :
       /\ ~WithdrawalLocked(w)
       /\ \/ /\ wst[w] = "pending" /\ ~has_open_conflict
             /\ proc' = [proc EXCEPT ![p] = Job("flip", @.todo, @.kept, w)]
          \/ proc' = [proc EXCEPT ![p] = Job("read", @.todo \ {w}, @.kept, None)]
  /\ UNCHANGED <<wst, amount, ref, audited, wallet, ledger, opened, ranWeek, bank, sent, faults>>

FlipRow(p) ==
  /\ proc[p].pc = "flip"
  /\ LET w == proc[p].w IN
       /\ wst' = [wst EXCEPT ![w] = "approved"]
       /\ audited' = [audited EXCEPT ![w] = TRUE]
       /\ proc' = [proc EXCEPT ![p] = Job("read", @.todo \ {w}, @.kept \cup {w}, None)]
  /\ UNCHANGED <<amount, ref, wallet, ledger, opened, ranWeek, bank, sent, faults>>

\* Every row is flipped: take the next kept object, or end.
NextTrigger(p) ==
  /\ proc[p].pc = "read" /\ proc[p].todo = {}
  /\ \/ \E w \in proc[p].kept : proc' = [proc EXCEPT ![p] = Job("send", {}, @.kept \ {w}, w)]
     \/ proc[p].kept = {} /\ proc' = [proc EXCEPT ![p] = Idle]
  /\ UNCHANGED <<wst, amount, ref, audited, wallet, ledger, opened, ranWeek, bank, sent, faults>>

\* Mutant: a payout the provider already holds can be sent again.
retry_failed_with_reference(p, w) ==
  /\ proc[p].pc = "idle" /\ ~WithdrawalLocked(w)
  /\ wst[w] = "failed" /\ audited[w]
  /\ wallet >= amount[w] /\ retry_attempts(w) < MaxRetries
  /\ Debit(amount[w], <<"retry", w, retry_attempts(w) + 1>>)
  /\ wst' = [wst EXCEPT ![w] = "approved"]
  /\ proc' = [proc EXCEPT ![p] = Job("send", {}, {}, w)]
  /\ UNCHANGED <<amount, ref, audited, opened, ranWeek, bank, sent, faults>>

\* A person sends a failed payout again: the wallet is debited anew and no new approval is needed.
retry_failed(p, w) ==
  /\ proc[p].pc = "idle" /\ ~WithdrawalLocked(w)
  /\ wst[w] = "failed" /\ audited[w] /\ ~ref[w]
  /\ wallet >= amount[w] /\ retry_attempts(w) < MaxRetries
  /\ Debit(amount[w], <<"retry", w, retry_attempts(w) + 1>>)
  /\ wst' = [wst EXCEPT ![w] = "approved"]
  /\ proc' = [proc EXCEPT ![p] = Job("send", {}, {}, w)]
  /\ UNCHANGED <<amount, ref, audited, opened, ranWeek, bank, sent, faults>>

(* trigger_payout_creation, on an object read earlier.                      *)
Goto(p, pc) == proc' = [proc EXCEPT ![p].pc = pc]
Done(p) == proc' = [proc EXCEPT ![p] = IF @.kept = {} THEN Idle ELSE Job("read", {}, @.kept, None)]

Accepted(w) ==
  /\ bank' = [bank EXCEPT ![w] = @ \cup {"accepted"}]
  /\ sent' = [sent EXCEPT ![w] = @ + 1]

\* initiate_upi_payout: the provider accepts; refuses for certain (or there is no usable UPI id);
\* or the answer is lost, whatever it was.
initiate_upi_payout(p) ==
  /\ proc[p].pc = "send"
  /\ LET w == proc[p].w IN
       \/ Accepted(w) /\ Goto(p, "accepted")
       \/ UNCHANGED <<bank, sent>> /\ Goto(p, "refused")
       \/ (Accepted(w) \/ UNCHANGED <<bank, sent>>) /\ Goto(p, "unknown")
  /\ UNCHANGED <<wst, amount, ref, audited, wallet, ledger, opened, ranWeek, faults>>

SaveStatus(p, st) == wst' = [wst EXCEPT ![proc[p].w] = st]

\* The reference and the status are saved together...
SaveReference(p) ==
  /\ proc[p].pc = "accepted" /\ ~WithdrawalLocked(proc[p].w)
  /\ ref' = [ref EXCEPT ![proc[p].w] = TRUE]
  /\ SaveStatus(p, "processed")
  /\ Goto(p, "saved")
  /\ UNCHANGED <<amount, audited, wallet, ledger, opened, ranWeek, bank, sent, faults>>

\* ... and the caller saves the status a second time, without reading the row.
SaveProcessed(p) ==
  /\ proc[p].pc = "saved" /\ ~WithdrawalLocked(proc[p].w)
  /\ SaveStatus(p, "processed")
  /\ Done(p)
  /\ UNCHANGED <<amount, ref, audited, wallet, ledger, opened, ranWeek, bank, sent, faults>>

\* Mutant: a lost answer is refunded like a refusal.
SaveUnresolved_refunded(p) ==
  /\ proc[p].pc = "unknown" /\ ~WithdrawalLocked(proc[p].w)
  /\ SaveStatus(p, "unresolved")
  /\ Credit(proc[p].w, failed_refund_reference(proc[p].w))
  /\ Done(p)
  /\ UNCHANGED <<amount, ref, audited, opened, ranWeek, bank, sent, faults>>

SaveUnresolved(p) ==
  /\ proc[p].pc = "unknown" /\ ~WithdrawalLocked(proc[p].w)
  /\ SaveStatus(p, "unresolved")
  /\ Done(p)
  /\ UNCHANGED <<amount, ref, audited, wallet, ledger, opened, ranWeek, bank, sent, faults>>

SaveFailed(p) ==
  /\ proc[p].pc = "refused" /\ ~WithdrawalLocked(proc[p].w)
  /\ SaveStatus(p, "failed")
  /\ Goto(p, "refund")
  /\ UNCHANGED <<amount, ref, audited, wallet, ledger, opened, ranWeek, bank, sent, faults>>

refund_failed_withdrawal(p) ==
  /\ proc[p].pc = "refund"
  /\ Credit(proc[p].w, failed_refund_reference(proc[p].w))
  /\ Done(p)
  /\ UNCHANGED <<wst, amount, ref, audited, opened, ranWeek, bank, sent, faults>>

\* A process is killed: nothing it kept is ever sent or refunded by another.
Crash(p) ==
  /\ proc[p].pc # "idle" /\ faults < MaxFaults
  /\ proc' = [proc EXCEPT ![p] = Idle]
  /\ faults' = faults + 1
  /\ UNCHANGED <<wst, amount, ref, audited, wallet, ledger, opened, ranWeek, bank, sent>>

-----------------------------------------------------------------------------
(* The provider, and its webhooks: late, repeated and in any order.         *)

ReportBound ==
  Cardinality({e \in Withdrawals \X {"paid", "failed", "returned"} : e[2] \in bank[e[1]]}) < MaxReports

Reports(w, what) ==
  /\ ReportBound
  /\ bank' = [bank EXCEPT ![w] = @ \cup {what}]
  /\ UNCHANGED <<wst, amount, ref, audited, wallet, ledger, opened, ranWeek, proc, sent>>

BankPays(w) == bank[w] = {"accepted"} /\ Reports(w, "paid") /\ UNCHANGED faults
BankFails(w) == bank[w] = {"accepted"} /\ Reports(w, "failed") /\ UNCHANGED faults
BankReturns(w) ==
  /\ "paid" \in bank[w] /\ "returned" \notin bank[w]
  /\ Reports(w, "returned") /\ UNCHANGED faults
\* A transfer reported failed turns out paid after all.
BankPaysLate(w) ==
  /\ bank[w] = {"accepted", "failed"} /\ faults < MaxFaults
  /\ Reports(w, "paid") /\ faults' = faults + 1

\* A webhook finds its withdrawal by the saved reference only.
Delivered(w, what) == what \in bank[w] /\ ref[w] /\ ~WithdrawalLocked(w)

payout_success(w) ==
  /\ Delivered(w, "paid")
  /\ wst[w] \notin {"completed", "reversed", "conflict"}
  /\ wst' = [wst EXCEPT ![w] = IF @ \in REFUNDED_STATUSES THEN "conflict" ELSE "completed"]
  /\ UNCHANGED <<amount, ref, audited, wallet, ledger, opened, ranWeek, proc, bank, sent, faults>>

payout_failed(w) ==
  /\ Delivered(w, "failed")
  /\ wst[w] \notin {"completed", "failed", "conflict", "reversed"}
  /\ wst' = [wst EXCEPT ![w] = "failed"]
  /\ Credit(w, failed_refund_reference(w))
  /\ UNCHANGED <<amount, ref, audited, opened, ranWeek, proc, bank, sent, faults>>

\* reverse_paid_payout: the credit's unique key decides; a second report changes nothing.
reverse_paid_payout(w) ==
  /\ wst[w] = "completed"
  /\ <<"refund_reversed", w, 0>> \notin ledger
  /\ wst' = [wst EXCEPT ![w] = "reversed"]
  /\ Credit(w, <<"refund_reversed", w, 0>>)

\* reverse_conflict: the money came back and the refund already made stands.
reverse_conflict(w) ==
  /\ wst[w] = "conflict"
  /\ wst' = [wst EXCEPT ![w] = "failed"]
  /\ UNCHANGED <<wallet, ledger>>

payout_reversed(w) ==
  /\ Delivered(w, "returned")
  /\ \/ reverse_paid_payout(w)
     \/ reverse_conflict(w)
     \/ /\ wst[w] \notin {"completed", "conflict", "failed", "reversed"}
        /\ wst' = [wst EXCEPT ![w] = "failed"]
        /\ Credit(w, failed_refund_reference(w))
  /\ UNCHANGED <<amount, ref, audited, opened, ranWeek, proc, bank, sent, faults>>

\* Finance resolves a conflict: the refund is taken back, below zero if need be.
resolve_paid(w) ==
  /\ ~WithdrawalLocked(w) /\ wst[w] = "conflict"
  /\ Debit(amount[w], <<"taken", w, 0>>)
  /\ wst' = [wst EXCEPT ![w] = "completed"]
  /\ UNCHANGED <<amount, ref, audited, opened, ranWeek, proc, bank, sent, faults>>

-----------------------------------------------------------------------------
ProcessStep(p) ==
  \/ execute_payout(p) \/ ReadRow(p) \/ FlipRow(p) \/ NextTrigger(p)
  \/ initiate_upi_payout(p) \/ SaveReference(p) \/ SaveProcessed(p)
  \/ SaveUnresolved(p) \/ SaveFailed(p) \/ refund_failed_withdrawal(p)
  \/ Crash(p)

PayoutNext ==
  \/ \E p \in Procs : ProcessStep(p) \/ \E w \in Withdrawals : retry_failed(p, w)
  \/ \E w \in Withdrawals :
       \/ approve_one(w) \/ reject_one(w) \/ resolve_paid(w)
       \/ BankPays(w) \/ BankPaysLate(w) \/ BankFails(w) \/ BankReturns(w)
       \/ payout_success(w) \/ payout_failed(w) \/ payout_reversed(w)
  \/ \E ids \in SUBSET Withdrawals : bulk_approve(ids)
  \/ driver_withdrawal_request \/ run_country

PayoutSpec == PayoutInit /\ [][PayoutNext]_payoutVars

-----------------------------------------------------------------------------
(* What the ledger says of one withdrawal: how often its amount has been    *)
(* taken from the wallet and not given back.                                *)
Rows(w, purposes) == Cardinality({e \in ledger : e[2] = w /\ e[1] \in purposes})
NetDebits(w) ==
  Rows(w, {"withdrawal", "retry", "taken"})
    - Rows(w, {"refund_failed", "refund_rejected", "refund_reversed"})

\* However single, bulk and weekly releases overlap, and however often a failed payout is retried,
\* the provider never accepts two transfers for one withdrawal (_approve_one's row lock and
\* retry_failed's refusals).
TransferredOnce == \A w \in Withdrawals : sent[w] <= 1

\* Nothing is sent that a checker did not release, and a withdrawal whose transfer was accepted can
\* no longer be rejected and refunded as pending (reject_one against _approve_one).
OnlyReleasedIsSent ==
  \A w \in Withdrawals :
    sent[w] > 0 => audited[w] /\ wst[w] \notin {"none", "pending", "rejected"}

\* When the provider's answer was lost the amount stays withheld: no refund of an earlier attempt
\* still under way, and no webhook, gives it back (trigger_payout_creation's unresolved branch).
UnresolvedStaysWithheld ==
  \A w \in Withdrawals : wst[w] = "unresolved" => NetDebits(w) >= 1

\* What payout_conflict.py promises: a payout is never recorded as paid while its refund stands.
NeverPaidAndRefunded ==
  \A w \in Withdrawals :
    wst[w] = "completed" /\ "returned" \notin bank[w] => NetDebits(w) >= 1

=============================================================================
