---------------------------- MODULE TripPayment ----------------------------
(***************************************************************************)
(* The money of one completed ride: the Payment rows, the gateway orders   *)
(* opened for them, and the driver's settlement balance.  The rider may    *)
(* pay in cash, from the wallet or at the gateway, change their mind, open *)
(* checkout twice and pay an order they had abandoned; webhooks may be     *)
(* lost or late.  Every step that completes a payment runs under the row   *)
(* locks it shares with its competitors and is atomic here; the endpoints  *)
(* that work from rows they read earlier are split at that read.           *)
(* Promotions, tax, platform-funded ends and the admin's refunds are left  *)
(* out: the rider owes the whole fare.                                     *)
(***************************************************************************)
EXTENDS Integers, Sequences, FiniteSets

CONSTANTS Handlers,    \* requests being served at once
          Fare,        \* what the rider owes, in minor units
          Commission,  \* the platform's share of it
          MaxRows,     \* bound: Payment rows of the trip
          MaxOrders,   \* bound: gateway orders
          MaxLost      \* bound: lost webhooks, killed refund callbacks, failed order calls

ASSUME MoneyBounds ==
  /\ Fare \in Nat \ {0} /\ Commission \in 0..Fare
  /\ MaxRows \in Nat \ {0} /\ MaxOrders \in Nat /\ MaxLost \in Nat

VARIABLES
  trip,      \* [done, method, paid]: completed?, payment_method, payment_status
  pays,      \* the Payment rows, oldest first
  known,     \* PaymentOrder: order -> row, 0 when there is no such row
  issued,    \* orders the gateway has created, 1..issued
  shown,     \* orders a response has given to the rider's app
  captured,  \* orders paid at the gateway
  hooks,     \* webhook deliveries on their way
  late,      \* PaymentOrder.late_refund and whether late_payment_id is set
  refunding, \* on_commit refund callbacks still to run
  ledger,    \* the driver's balance and the settlement of the trip
  ruled,     \* a commission rule governs the trip
  wallet,    \* the rider's wallet was debited (key trip_<id>_payment)
  cash,      \* the driver confirmed collecting the fare
  job,       \* what each request has read and will do next
  lost       \* faults so far

vars == <<trip, pays, known, issued, shown, captured, hooks, late, refunding, ledger,
          ruled, wallet, cash, job, lost>>

Orders == 1..MaxOrders
Methods == {"deferred", "cash", "wallet", "online"}
Unpaid == {"pending", "processing"}

Row(m, s, o) == [method |-> m, status |-> s, order |-> o, replaced |-> FALSE]
NoJob == [pc |-> "idle", row |-> 0, order |-> 0, copy |-> Row("online", "pending", 0), method |-> "online"]
\* A blank late_refund is "none" here.
NotLate == [refund |-> "none", id |-> FALSE]

Init ==
  /\ trip \in {[done |-> FALSE, method |-> m, paid |-> "pending"] : m \in Methods}
  /\ pays = <<>>
  /\ known = [o \in Orders |-> 0]
  /\ issued = 0 /\ shown = {} /\ captured = {} /\ hooks = {}
  /\ late = [o \in Orders |-> NotLate] /\ refunding = {}
  /\ ledger = [bal |-> 0, earning |-> FALSE, settled |-> "none", alert |-> FALSE, deferred |-> FALSE]
  /\ ruled \in BOOLEAN
  /\ wallet = FALSE /\ cash = FALSE
  /\ job = [h \in Handlers |-> NoJob]
  /\ lost = 0

-----------------------------------------------------------------------------
(* The driver's ledger, as functions of the ledger record.                 *)

\* Mutant: no idempotency key, every call writes.
credit_driver_wallet_unkeyed(l, method) ==
  IF method = "cash"
  THEN [l EXCEPT !.bal = @ - Commission, !.earning = TRUE, !.settled = "cash"]
  ELSE [l EXCEPT !.bal = @ + Fare - Commission, !.earning = TRUE, !.settled = "platform"]

\* The key TRIP_<id>_EARNING lets this write once.
credit_driver_wallet(l, method) ==
  IF l.earning THEN l
  ELSE IF method = "cash"
       THEN [l EXCEPT !.bal = @ - Commission, !.earning = TRUE, !.settled = "cash"]
       ELSE [l EXCEPT !.bal = @ + Fare - Commission, !.earning = TRUE, !.settled = "platform"]

settle_or_defer(l, method) ==
  IF ruled THEN credit_driver_wallet(l, method)
  ELSE [l EXCEPT !.alert = TRUE, !.deferred = TRUE]

\* Mutant: a trip that is settled at all is left alone, as before AUDIT 27.72.
settle_paid_by_platform_once(l, method) ==
  IF l.settled = "none" THEN settle_or_defer(l, method) ELSE l

\* The platform has been paid.  A cash settlement is topped up by what it collected
\* and superseded by a version 2 with the new method.
settle_paid_by_platform(l, method) ==
  CASE l.settled = "none"     -> settle_or_defer(l, method)
    [] l.settled = "cash"     -> [l EXCEPT !.bal = @ + Fare, !.settled = "platform"]
    [] l.settled = "platform" -> l

-----------------------------------------------------------------------------
(* Orders and rows.                                                        *)

Rows == DOMAIN pays
Latest(S) == IF S = {} THEN 0 ELSE CHOOSE i \in S : \A j \in S : j <= i

\* Mutant: the partial unique index is missing.
one_completed_payment_missing(i) == TRUE

\* one_completed_payment_per_trip: the database refuses a second completed row.
one_completed_payment(i) == \A j \in Rows \ {i} : pays[j].status # "completed"

payment_for_order(o) ==
  IF known[o] # 0 THEN known[o] ELSE Latest({i \in Rows : pays[i].order = o})

order_ids(i) == {o \in Orders : known[o] = i \/ pays[i].order = o}

\* The first PAID order, the row's own unrecorded one first, then newest first.
FirstPaid(i) ==
  LET paid == order_ids(i) \cap captured
      own == pays[i].order
  IN IF own \in paid /\ known[own] = 0 THEN own ELSE Latest(paid)

is_late_capture(i, o) ==
  pays[i].status = "completed" /\ pays[i].order # 0 /\ pays[i].order # o

superseded(i) ==
  \/ pays[i].status \in {"failed", "refunded"}
  \/ pays[i].replaced
  \/ \E j \in Rows \ {i} : pays[j].status = "completed"

remember(i, o) == IF known[o] = 0 THEN [known EXCEPT ![o] = i] ELSE known

\* Mutant: the late capture's order is not recorded before its refund is scheduled.
record_unremembered(i, o, hasId) ==
  /\ late' = [late EXCEPT ![o] = [refund |-> "pending", id |-> @.id \/ hasId]]
  /\ refunding' = refunding \cup {o}
  /\ UNCHANGED <<trip, pays, known, ledger>>

\* late_paid.record: one refund callback per capture that is not in hand already.
record(i, o, hasId) ==
  /\ known' = remember(i, o)
  /\ IF late[o].refund # "none" /\ (~hasId \/ late[o].id)
     THEN UNCHANGED <<late, refunding>>
     ELSE /\ late' = [late EXCEPT ![o] = [refund |-> "pending", id |-> @.id \/ hasId]]
          /\ refunding' = refunding \cup {o}
  /\ UNCHANGED <<trip, pays, ledger>>

\* The Payment is completed by order o and the trip and the driver's ledger follow.
complete(i, o) ==
  /\ one_completed_payment(i)
  /\ pays' = [pays EXCEPT ![i].status = "completed", ![i].order = o]
  /\ trip' = [trip EXCEPT !.paid = "completed", !.method = "online"]
  /\ ledger' = settle_paid_by_platform(ledger, "online")
  /\ UNCHANGED <<known, late, refunding>>

\* Under the Payment row lock, in the verify endpoint and the webhook.
capture(i, o, hasId) ==
  \/ /\ is_late_capture(i, o) \/ (pays[i].status # "completed" /\ superseded(i))
     /\ record(i, o, hasId)
  \/ /\ pays[i].status = "completed" /\ ~is_late_capture(i, o)
     /\ UNCHANGED <<trip, pays, known, late, refunding, ledger>>
  \/ /\ pays[i].status # "completed" /\ ~superseded(i)
     /\ complete(i, o)

\* Under the same lock, in the gateway poll and the reconciliation task, which learn
\* from get_order_status no gateway payment id.
capture_polled(i, o) ==
  \/ superseded(i) /\ record(i, o, FALSE)
  \/ ~superseded(i) /\ complete(i, o)

-----------------------------------------------------------------------------
(* Completion of the ride.                                                 *)

create_payment_on_complete ==
  /\ ~trip.done
  /\ \/ /\ trip.method # "wallet"
        /\ pays' = <<Row(trip.method, "pending", 0)>>
        /\ trip' = [trip EXCEPT !.done = TRUE, !.paid = "pending"]
        /\ ledger' = IF trip.method = "cash" THEN settle_or_defer(ledger, "cash") ELSE ledger
        /\ UNCHANGED wallet
     \/ /\ trip.method = "wallet"
        /\ pays' = <<Row("wallet", "completed", 0)>>
        /\ trip' = [trip EXCEPT !.done = TRUE, !.paid = "completed"]
        /\ ledger' = settle_or_defer(ledger, "wallet")
        /\ wallet' = TRUE
     \/ /\ trip.method = "wallet"   \* insufficient balance: no row
        /\ trip' = [trip EXCEPT !.done = TRUE, !.paid = "failed"]
        /\ UNCHANGED <<pays, ledger, wallet>>
  /\ UNCHANGED <<known, issued, shown, captured, hooks, late, refunding, ruled, cash, job, lost>>

-----------------------------------------------------------------------------
(* create_order: check, open an order, read the newest row, write it back. *)

Start(h, j) == job[h] = NoJob /\ job' = [job EXCEPT ![h] = j]
Finish(h) == job' = [job EXCEPT ![h] = NoJob]

create_order(h) ==
  /\ trip.done /\ issued < MaxOrders
  /\ \A i \in Rows : pays[i].status # "completed"
  /\ issued' = issued + 1
  /\ Start(h, [NoJob EXCEPT !.pc = "create_read", !.order = issued + 1])
  /\ UNCHANGED <<trip, pays, known, shown, captured, hooks, late, refunding, ledger, ruled,
                 wallet, cash, lost>>

CreateRead(h) ==
  LET i == Len(pays)
      reuse == i > 0 /\ pays[i].status \in Unpaid \cup {"failed"}
  IN /\ job[h].pc = "create_read"
     /\ job' = [job EXCEPT ![h].pc = "create_save", ![h].row = IF reuse THEN i ELSE 0,
                           ![h].copy = IF reuse THEN pays[i] ELSE @]
     /\ UNCHANGED <<trip, pays, known, issued, shown, captured, hooks, late, refunding, ledger,
                    ruled, wallet, cash, lost>>

\* payment.save() writes every column of the copy; no lock, no second look.
CreateSave(h) ==
  LET o == job[h].order
      new == [job[h].copy EXCEPT !.method = "online", !.status = "processing", !.order = o]
  IN /\ job[h].pc = "create_save"
     /\ \/ /\ job[h].row # 0
           /\ pays' = [pays EXCEPT ![job[h].row] = new]
           /\ known' = remember(job[h].row, o)
        \/ /\ job[h].row = 0 /\ Len(pays) < MaxRows
           /\ pays' = Append(pays, Row("online", "processing", o))
           /\ known' = remember(Len(pays) + 1, o)
     /\ shown' = shown \cup {o}
     /\ Finish(h)
     /\ UNCHANGED <<trip, issued, captured, hooks, late, refunding, ledger, ruled, wallet, cash, lost>>

-----------------------------------------------------------------------------
(* The gateway, and the paths on which a capture comes back.               *)

RiderPays(o) ==
  /\ o \in shown \ captured
  /\ captured' = captured \cup {o}
  /\ hooks' = hooks \cup {o}
  /\ UNCHANGED <<trip, pays, known, issued, shown, late, refunding, ledger, ruled, wallet, cash, job, lost>>

\* No row matches: "payment not found", answered 200 and never sent again.
payment_webhook(o) ==
  /\ o \in hooks
  /\ hooks' = hooks \ {o}
  /\ IF payment_for_order(o) = 0 THEN UNCHANGED <<trip, pays, known, late, refunding, ledger>>
     ELSE capture(payment_for_order(o), o, TRUE)
  /\ UNCHANGED <<issued, shown, captured, ruled, wallet, cash, job, lost>>

\* Delivered but not handled (the handler fails after its dedupe row is in), or never delivered.
WebhookLost(o) ==
  /\ o \in hooks /\ lost < MaxLost
  /\ hooks' = hooks \ {o}
  /\ lost' = lost + 1
  /\ UNCHANGED <<trip, pays, known, issued, shown, captured, late, refunding, ledger, ruled, wallet, cash, job>>

\* The app asks after a checkout that succeeded ...
verify_payment(o) ==
  /\ o \in captured /\ payment_for_order(o) # 0
  /\ \E hasId \in BOOLEAN : capture(payment_for_order(o), o, hasId)
  /\ UNCHANGED <<issued, shown, captured, hooks, ruled, wallet, cash, job, lost>>

\* ... or after one the gateway does not report as paid: the row just read is
\* written back as failed.
VerifyUnpaid(h, o) ==
  LET i == payment_for_order(o) IN
  /\ o \in shown \ captured /\ i # 0
  /\ pays[i].status # "completed" \/ is_late_capture(i, o)
  /\ Start(h, [NoJob EXCEPT !.pc = "verify_fail", !.row = i, !.copy = pays[i]])
  /\ UNCHANGED <<trip, pays, known, issued, shown, captured, hooks, late, refunding, ledger,
                 ruled, wallet, cash, lost>>

VerifyFail(h) ==
  /\ job[h].pc = "verify_fail"
  /\ pays' = [pays EXCEPT ![job[h].row] = [job[h].copy EXCEPT !.status = "failed"]]
  /\ Finish(h)
  /\ UNCHANGED <<trip, known, issued, shown, captured, hooks, late, refunding, ledger, ruled,
                 wallet, cash, lost>>

\* Mutant: only rows still "pending" are looked at, not the ones in checkout.
reconcile_stuck_payments_pending ==
  /\ \E i \in Rows :
       /\ pays[i].status = "pending" /\ pays[i].order # 0
       /\ FirstPaid(i) # 0
       /\ capture_polled(i, FirstPaid(i))
  /\ UNCHANGED <<issued, shown, captured, hooks, ruled, wallet, cash, job, lost>>

reconcile_stuck_payments ==
  /\ \E i \in Rows :
       /\ pays[i].status \in Unpaid /\ pays[i].order # 0
       /\ FirstPaid(i) # 0
       /\ capture_polled(i, FirstPaid(i))
  /\ UNCHANGED <<issued, shown, captured, hooks, ruled, wallet, cash, job, lost>>

\* late_paid.refund.  Cashfree is keyed on the order and refuses a payment id;
\* Razorpay may refuse as well.  A superseded row becomes refunded.
refund(o) ==
  /\ o \in refunding
  /\ refunding' = refunding \ {o}
  /\ \E made \in IF late[o].id THEN BOOLEAN ELSE {FALSE} :
       /\ late' = [late EXCEPT ![o].refund =
                     IF @ = "done" \/ made THEN "done" ELSE "manual"]
       /\ pays' = IF made /\ pays[known[o]].status # "completed"
                  THEN [pays EXCEPT ![known[o]].status = "refunded"] ELSE pays
  /\ UNCHANGED <<trip, known, issued, shown, captured, hooks, ledger, ruled, wallet, cash, job, lost>>

RefundKilled(o) ==
  /\ o \in refunding /\ lost < MaxLost
  /\ refunding' = refunding \ {o}
  /\ lost' = lost + 1
  /\ UNCHANGED <<trip, pays, known, issued, shown, captured, hooks, late, ledger, ruled, wallet, cash, job>>

-----------------------------------------------------------------------------
(* switch_payment_method and retry_payment: poll the gateway, then commit. *)

\* _settle_payment_if_paid_at_gateway on the newest row that is not refunded.
\* `after` is what the endpoint goes on with when nothing was found paid.
Poll(h, after) ==
  LET i == Latest({j \in Rows : pays[j].status # "refunded"})
      paid == i # 0 => pays[i].status = "completed"
      found == IF i = 0 THEN 0 ELSE FirstPaid(i)
      Nothing == UNCHANGED <<trip, pays, known, late, refunding, ledger>>
  IN \/ i # 0 /\ paid /\ Nothing /\ UNCHANGED job
     \/ /\ ~paid /\ found # 0
        /\ capture_polled(i, found)
        /\ IF superseded(i) THEN Start(h, after) ELSE UNCHANGED job
     \/ /\ i = 0 \/ ~paid
        /\ found = 0
        /\ Nothing
        /\ Start(h, after)

switch_payment_method(h, m) ==
  /\ trip.done /\ job[h] = NoJob /\ pays # <<>>
  /\ Poll(h, [NoJob EXCEPT !.pc = "switch", !.row = Len(pays), !.method = m])
  /\ UNCHANGED <<issued, shown, captured, hooks, ruled, wallet, cash, lost>>

\* What gateway.create_order may return: a new order, or 0 when the call failed.
NewOrder == {o \in {0, issued + 1} : IF o = 0 THEN lost < MaxLost ELSE o <= MaxOrders}
Opened(o) == /\ issued' = IF o = 0 THEN issued ELSE o
             /\ shown' = shown \cup ({o} \ {0})

\* Under the old row's lock.  The Trip row is not locked or read again.
SwitchCommit(h) ==
  LET i == job[h].row
      m == job[h].method
  IN /\ job[h].pc = "switch"
     /\ \/ pays[i].status = "completed" /\ UNCHANGED <<pays, trip, issued, shown, lost>>
        \/ /\ pays[i].status # "completed" /\ Len(pays) < MaxRows
           /\ \E o \in IF m = "online" THEN NewOrder ELSE {0} :
                /\ pays' = Append([pays EXCEPT ![i].status = "failed", ![i].replaced = TRUE],
                                  Row(m, "pending", o))
                /\ Opened(o)
                /\ lost' = IF m = "online" /\ o = 0 THEN lost + 1 ELSE lost
           /\ trip' = [trip EXCEPT !.method = m, !.paid = "pending"]
     /\ Finish(h)
     /\ UNCHANGED <<known, captured, hooks, late, refunding, ledger, ruled, wallet, cash>>

retry_payment(h) ==
  LET i == Latest({j \in Rows : pays[j].status = "failed"}) IN
  /\ job[h] = NoJob /\ i # 0
  /\ Poll(h, [NoJob EXCEPT !.pc = "retry", !.row = i])
  /\ UNCHANGED <<issued, shown, captured, hooks, ruled, wallet, cash, lost>>

RetryCommit(h) ==
  LET i == job[h].row IN
  /\ job[h].pc = "retry"
  /\ \/ pays[i].status = "completed" /\ UNCHANGED <<pays, trip, issued, shown, lost>>
     \/ /\ pays[i].status # "completed"
        /\ \E o \in NewOrder :
             /\ pays' = [pays EXCEPT ![i].status = "processing", ![i].order = o]
             /\ Opened(o)
             /\ lost' = IF o = 0 THEN lost + 1 ELSE lost
        /\ trip' = [trip EXCEPT !.paid = "processing"]
  /\ Finish(h)
  /\ UNCHANGED <<known, captured, hooks, late, refunding, ledger, ruled, wallet, cash>>

-----------------------------------------------------------------------------
(* Cash and wallet: both hold the Trip row.                                *)

_confirm_cash_payment ==
  LET i == Latest({j \in Rows : pays[j].method = "cash"}) IN
  /\ trip.done
  /\ ~(trip.method # "cash" /\ trip.paid = "completed")
  /\ i # 0 /\ pays[i].status \notin {"failed", "completed"}
  /\ one_completed_payment(i)
  /\ pays' = [pays EXCEPT ![i].status = "completed"]
  /\ trip' = [trip EXCEPT !.paid = "completed"]
  /\ ledger' = settle_or_defer(ledger, trip.method)
  /\ cash' = TRUE
  /\ UNCHANGED <<known, issued, shown, captured, hooks, late, refunding, ruled, wallet, job, lost>>

pay_trip ==
  LET n == Len(pays)
      closed == [i \in Rows |-> [pays[i] EXCEPT
                   !.status = IF @ \in Unpaid THEN "failed" ELSE @,
                   !.replaced = @ \/ i = n]]
  IN /\ trip.done /\ ~wallet /\ trip.paid # "completed"
     /\ \A i \in Rows : pays[i].status # "completed"
     /\ n < MaxRows
     /\ pays' = Append(closed, Row("wallet", "completed", 0))
     /\ trip' = [trip EXCEPT !.method = "wallet", !.paid = "completed"]
     /\ ledger' = settle_paid_by_platform(ledger, "wallet")
     /\ wallet' = TRUE
     /\ UNCHANGED <<known, issued, shown, captured, hooks, late, refunding, ruled, cash, job, lost>>

-----------------------------------------------------------------------------
(* Deferred settlements.                                                   *)

\* An operator's commission rule is approved.
RuleApproved ==
  /\ ~ruled /\ ruled' = TRUE
  /\ UNCHANGED <<trip, pays, known, issued, shown, captured, hooks, late, refunding, ledger,
                 wallet, cash, job, lost>>

\* The hourly task, or Finance's "Retry now".
retry_trip ==
  /\ ledger.alert
  /\ LET l == IF ledger.settled # "none" THEN ledger ELSE settle_or_defer(ledger, trip.method)
     IN /\ l.settled # "none"
        /\ ledger' = [l EXCEPT !.alert = FALSE]
  /\ UNCHANGED <<trip, pays, known, issued, shown, captured, hooks, late, refunding, ruled,
                 wallet, cash, job, lost>>

-----------------------------------------------------------------------------
Request(h) ==
  \/ create_order(h) \/ retry_payment(h)
  \/ \E m \in {"cash", "online"} : switch_payment_method(h, m)
  \/ \E o \in Orders : VerifyUnpaid(h, o)

Continue(h) ==
  CreateRead(h) \/ CreateSave(h) \/ VerifyFail(h) \/ SwitchCommit(h) \/ RetryCommit(h)

Next ==
  \/ create_payment_on_complete \/ _confirm_cash_payment \/ pay_trip
  \/ RuleApproved \/ retry_trip \/ reconcile_stuck_payments
  \/ \E h \in Handlers : Request(h) \/ Continue(h)
  \/ \E o \in Orders :
       \/ RiderPays(o) \/ payment_webhook(o) \/ WebhookLost(o) \/ verify_payment(o)
       \/ refund(o) \/ RefundKilled(o)

Spec == Init /\ [][Next]_vars

\* Celery beat runs the reconciliation every five minutes; requests in hand end.
FairSpec ==
  /\ Spec
  /\ WF_vars(reconcile_stuck_payments)
  /\ \A h \in Handlers : WF_vars(Continue(h))

-----------------------------------------------------------------------------
(* Properties.                                                             *)

RowType == [method : Methods, status : Unpaid \cup {"completed", "failed", "refunded"},
            order : 0..MaxOrders, replaced : BOOLEAN]

\* Rows, orders, the ledger and the requests in hand keep their shapes.
PayTypeOK ==
  /\ trip \in [done : BOOLEAN, method : Methods,
               paid : Unpaid \cup {"completed", "failed"}]
  /\ Len(pays) <= MaxRows /\ \A i \in Rows : pays[i] \in RowType
  /\ known \in [Orders -> 0..Len(pays)]
  /\ issued \in 0..MaxOrders
  /\ shown \subseteq 1..issued /\ captured \subseteq shown /\ hooks \subseteq captured
  /\ late \in [Orders -> [refund : {"none", "pending", "done", "manual"}, id : BOOLEAN]]
  /\ \A o \in refunding : known[o] # 0
  /\ ledger \in [bal : Int, earning : BOOLEAN, settled : {"none", "cash", "platform"},
                 alert : BOOLEAN, deferred : BOOLEAN]
  /\ \A h \in Handlers : job[h].row \in 0..Len(pays) /\ job[h].copy \in RowType

\* At most one Payment row of a trip is completed: the poll before a switch or a retry,
\* the checks under the row locks and the partial unique index together keep it so.
OneCompletedPayment ==
  \A i, j \in Rows : pays[i].status = "completed" /\ pays[j].status = "completed" => i = j

\* The balance is what the trip's settlement says, however many webhooks, polls,
\* confirmations and retries ran: nothing, the commission owed, or the net.
LedgerMatchesSettlement ==
  ledger.bal = CASE ledger.settled = "none"     -> 0
                 [] ledger.settled = "cash"     -> -Commission
                 [] ledger.settled = "platform" -> Fare - Commission

\* Once the platform holds the rider's money the driver has the net, also when the
\* trip had been settled as cash before; only a missing commission rule delays it.
PlatformMoneyReachesDriver ==
  (\E i \in Rows : pays[i].status = "completed" /\ pays[i].method \in {"wallet", "online"})
    => ledger.settled = "platform" \/ ledger.deferred

Stuck(i) ==
  /\ i \in Rows /\ pays[i].status \in Unpaid
  /\ pays[i].order \in captured
  /\ late[pays[i].order].refund = "none"

\* A payment the gateway has captured does not stay pending because its webhook was
\* lost: the reconciliation settles it or sends it to be refunded.
StuckPaymentSettles == \A i \in 1..MaxRows : Stuck(i) ~> ~Stuck(i)

\* "Money captured for a trip that is already paid: never settled, refunded in full":
\* when every delivery was handled, at most one payment was taken and kept.
ChargedOnce ==
  (hooks = {} /\ lost = 0 /\ \A h \in Handlers : job[h] = NoJob)
    => LET kept == Cardinality({o \in captured : late[o].refund = "none"})
       IN kept + (IF wallet THEN 1 ELSE 0) + (IF cash THEN 1 ELSE 0) <= 1
=============================================================================
