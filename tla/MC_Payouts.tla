---------------------------- MODULE MC_Payouts ----------------------------
(* Payouts, the money people move through approvals, and the commission     *)
(* rules, side by side: they share nothing but the maker-checker service,   *)
(* so a behaviour is one component's and the others stay as they began.     *)
(* Two withdrawals, so that releases, retries and conflicts of one meet the *)
(* other's, and two processes, so that a release meets a retry.             *)
EXTENDS Payouts, FinanceActions, CommissionRules, TLC

VARIABLE active

vars == <<active, payoutVars, approvalVars, financeVars, commissionVars>>

Init ==
  /\ active \in {"payouts", "finance", "commission"}
  /\ PayoutInit /\ ApprovalInit /\ FinanceInit /\ CommissionInit

Only(name) == active = name /\ UNCHANGED active

Next ==
  \/ /\ Only("payouts") /\ PayoutNext
     /\ UNCHANGED <<approvalVars, financeVars, commissionVars>>
  \/ /\ Only("finance") /\ FinanceNext
     /\ UNCHANGED <<payoutVars, commissionVars>>
  \/ /\ Only("commission") /\ CommissionNext
     /\ UNCHANGED <<payoutVars, financeVars>>

Spec == Init /\ [][Next]_vars

\* Processes and withdrawals are interchangeable.
PayoutSymmetry == Permutations(Procs) \cup Permutations(Withdrawals)
=============================================================================
