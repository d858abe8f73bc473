--------------------------- MODULE FinanceActions ---------------------------
(* Money that people move through the maker-checker service: refunds of a   *)
(* paid trip, adjustments of a driver's balance, and the recovery of a      *)
(* reward linked to a confirmed fraud flag, with the hold kept on it until  *)
(* then.  Small amounts are within the maker's limit and run at once; the   *)
(* rest wait, and what was true when a request was raised is checked again  *)
(* when it runs.  A client key names one amount, so the amount is part of   *)
(* the idempotency key here.                                                *)
EXTENDS Approvals, Integers, FiniteSetsExt

CONSTANTS Paid,       \* what the rider paid for the trip
          MakerLimit, \* the active policy's maker_limit
          Sums,       \* amounts an operator may enter
          Linked,     \* the reward linked to the flag
          StartingBalance

ASSUME FinanceConstants ==
  /\ Paid \in Nat /\ MakerLimit \in Nat /\ Linked \in Nat /\ StartingBalance \in Nat
  /\ Sums \subseteq Nat \ {0}

VARIABLES refunds,  \* TripMoneyAction refund rows: <<request, amount>>
          balance,  \* the driver's settlement balance
          flag,     \* RiskFlag.status
          hold,     \* RewardHold: <<status, amount>>
          debts,    \* RecoveryDebt rows by request
          cap       \* requests whose recovery has passed its check and not yet written
financeVars == <<refunds, balance, flag, hold, debts, cap>>

NoDebt == [requested |-> 0, forfeited |-> 0, recovered |-> 0]

FinanceInit ==
  /\ refunds = {} /\ balance = StartingBalance
  /\ flag = "active" /\ hold = <<"none", 0>>
  /\ debts = [r \in Requests |-> NoDebt]
  /\ cap = {}

Amount(r) == req[r].key[3]
Lowest(x, y) == IF x < y THEN x ELSE y
decide(a) == a > MakerLimit
held_minor == IF hold[1] = "held" THEN hold[2] ELSE 0
available_minor == IF balance > held_minor THEN balance - held_minor ELSE 0

-----------------------------------------------------------------------------
(* Refunds of a trip.                                                       *)

refunded_minor == MapThenSumSet(LAMBDA e : e[2], refunds)
refundable_minor == Paid - refunded_minor

admin_refund_trip(o) ==
  /\ \E k \in {1, 2}, a \in Sums, r \in Requests :
       /\ a <= refundable_minor
       /\ require_approval_or_execute(o, <<"refund", k, a>>, decide(a), r)
  /\ UNCHANGED financeVars

\* Mutant: what is left was checked when the request was raised, and is not checked again.
RefundAllowed_unchecked(r) == Amount(r) > 0

RefundAllowed(r) == Amount(r) > 0 /\ Amount(r) <= refundable_minor

\* Under the trip's lock: what is left to refund is worked out again.
execute_refund(r) ==
  /\ runner[r] = "run" /\ req[r].key[1] = "refund"
  /\ \/ /\ RefundAllowed(r) /\ Executes(r)
        /\ refunds' = refunds \cup {<<r, Amount(r)>>}
     \/ ~RefundAllowed(r) /\ Refuses(r) /\ UNCHANGED refunds
  /\ UNCHANGED <<balance, flag, hold, debts, cap>>

-----------------------------------------------------------------------------
(* Adjustments of the driver's balance.                                     *)

driver_adjust(o) ==
  /\ \E a \in Sums, r \in Requests :
       \/ require_approval_or_execute(o, <<"credit", 1, a>>, decide(a), r)
       \/ a <= balance /\ require_approval_or_execute(o, <<"debit", 1, a>>, decide(a), r)
  /\ UNCHANGED financeVars

execute_driver_adjustment(r) ==
  /\ runner[r] = "run" /\ req[r].key[1] \in {"credit", "debit"}
  /\ \/ /\ req[r].key[1] = "credit" /\ Executes(r)
        /\ balance' = balance + Amount(r)
     \/ /\ req[r].key[1] = "debit" /\ Amount(r) <= balance /\ Executes(r)
        /\ balance' = balance - Amount(r)
     \/ /\ req[r].key[1] = "debit" /\ Amount(r) > balance
        /\ Refuses(r) /\ UNCHANGED balance
  /\ UNCHANGED <<refunds, flag, hold, debts, cap>>

-----------------------------------------------------------------------------
(* The reward of a flagged driver: held, then released or recovered.        *)

\* Under the wallet's lock; a reward once held is never held again.
hold_for_flag ==
  /\ flag = "active" /\ hold[1] = "none" /\ available_minor > 0
  /\ hold' = <<"held", Lowest(Linked, available_minor)>>
  /\ UNCHANGED <<approvalVars, refunds, balance, flag, debts, cap>>

\* A reviewer confirms, and the hold stays for Finance; or dismisses, and it is released.
on_decision ==
  /\ flag = "active"
  /\ \/ flag' = "confirmed" /\ UNCHANGED hold
     \/ /\ flag' = "dismissed"
        /\ hold' = IF hold[1] = "held" THEN <<"released", hold[2]>> ELSE hold
  /\ UNCHANGED <<approvalVars, refunds, balance, debts, cap>>

\* The hold's time is up.
release_due ==
  /\ hold[1] = "held"
  /\ hold' = <<"released", hold[2]>>
  /\ UNCHANGED <<approvalVars, refunds, balance, flag, debts, cap>>

_pending_recovery_minor ==
  MapThenSumSet(LAMBDA r : Amount(r),
                {r \in Requests : req[r].st = "requested" /\ req[r].key[1] = "recovery"})

recoverable_minor ==
  LET left == Linked - MapThenSumSet(LAMBDA r : debts[r].requested, Requests) - _pending_recovery_minor
  IN IF flag = "confirmed" /\ left > 0 THEN left ELSE 0

\* Always a checker, whatever the limit.
request_recovery(o) ==
  /\ \E a \in Sums, k \in {1, 2}, r \in Requests :
       /\ a <= recoverable_minor
       /\ require_approval_or_execute(o, <<"recovery", k, a>>, TRUE, r)
  /\ UNCHANGED financeVars

\* execute_recovery works out what may be recovered before it takes the wallet's lock...
RecoveryChecks(r) ==
  /\ runner[r] = "run" /\ req[r].key[1] = "recovery" /\ r \notin cap
  /\ \/ Amount(r) <= recoverable_minor /\ cap' = cap \cup {r} /\ UNCHANGED approvalVars
     \/ Amount(r) > recoverable_minor /\ Refuses(r) /\ UNCHANGED cap
  /\ UNCHANGED <<refunds, balance, flag, hold, debts>>

\* ... and then forfeits a hold that fits and records the rest as a debt.
execute_recovery(r) ==
  LET fits == /\ hold[1] = "held" /\ hold[2] <= Amount(r) /\ hold[2] <= balance
      taken == IF fits THEN hold[2] ELSE 0 IN
    /\ runner[r] = "run" /\ r \in cap /\ Executes(r)
    /\ cap' = cap \ {r}
    /\ balance' = balance - taken
    /\ hold' = IF fits THEN <<"forfeited", hold[2]>> ELSE hold
    /\ debts' = [debts EXCEPT ![r] =
                   [requested |-> Amount(r), forfeited |-> taken, recovered |-> 0]]
    /\ UNCHANGED <<refunds, flag>>

remaining_minor(r) == debts[r].requested - debts[r].forfeited - debts[r].recovered

\* A payout of what is available repays part of a debt first.
apply_deduction(r) ==
  /\ remaining_minor(r) > 0
  /\ \E a \in 1 .. Lowest(remaining_minor(r), available_minor) :
       /\ balance' = balance - available_minor
       /\ debts' = [debts EXCEPT ![r].recovered = @ + a]
  /\ UNCHANGED <<approvalVars, refunds, flag, hold, cap>>

-----------------------------------------------------------------------------
FinanceNext ==
  \/ \E o \in Makers : admin_refund_trip(o) \/ driver_adjust(o) \/ request_recovery(o)
  \/ hold_for_flag \/ on_decision \/ release_due
  \/ \E r \in Requests :
       \/ execute_refund(r) \/ execute_driver_adjustment(r)
       \/ RecoveryChecks(r) \/ execute_recovery(r) \/ apply_deduction(r)
       \/ /\ \/ \E o \in Operators : approve(r, o) \/ reject(r, o) \/ cancel(r, o)
             \/ expire_stale(r) \/ _finish(r) \/ RunnerDies(r)
          /\ UNCHANGED financeVars

FinanceSpec ==
  ApprovalInit /\ FinanceInit /\ [][FinanceNext]_<<approvalVars, financeVars>>

FinanceTypeOK ==
  /\ refunds \subseteq Requests \X Sums
  /\ balance \in Int
  /\ flag \in {"active", "confirmed", "dismissed"}
  /\ hold \in {"none", "held", "released", "forfeited"} \X Nat
  /\ debts \in [Requests -> [requested : Nat, forfeited : Nat, recovered : Nat]]
  /\ cap \subseteq Requests

\* Debits, forfeits and deductions never take a driver's balance below zero, and a debt is not
\* collected beyond what was approved.
BalancesCovered ==
  /\ balance >= 0
  /\ \A r \in Requests : remaining_minor(r) >= 0

\* Requests that were each within bounds when raised never add up to more than there is: a trip's
\* refunds stay within what was paid, and balances and debts are covered (the checks
\* execute_refund, execute_driver_adjustment and execute_recovery repeat under their locks).
MoneyStaysCovered == refunded_minor <= Paid /\ BalancesCovered
=============================================================================
