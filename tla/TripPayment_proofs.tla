------------------------ MODULE TripPayment_proofs ------------------------
(***************************************************************************)
(* The driver's balance agrees with the trip's settlement, for every fare, *)
(* commission, number of requests, rows and orders.                        *)
(*                                                                         *)
(* LedgerMatchesSettlement is not inductive alone: a second credit would   *)
(* be allowed in a state where the trip is settled and the idempotency key *)
(* is not there.  The strengthening says that the key exists exactly when  *)
(* a settlement does.                                                      *)
(***************************************************************************)
EXTENDS TripPayment, WellFoundedInduction, TLAPS

LedgerType ==
  [bal : Int, earning : BOOLEAN, settled : {"none", "cash", "platform"},
   alert : BOOLEAN, deferred : BOOLEAN]

\* A ledger record that its settlement explains.
Explained(l) ==
  /\ l \in LedgerType
  /\ l.earning <=> l.settled # "none"
  /\ l.settled = "none" => l.bal = 0
  /\ l.settled = "cash" => l.bal = -Commission
  /\ l.settled = "platform" => l.bal = Fare - Commission

\* A credit or debit under the key TRIP_<id>_EARNING keeps the ledger explained.
LEMMA CreditExplained ==
  ASSUME NEW l, NEW m, Explained(l)
  PROVE  Explained(credit_driver_wallet(l, m))
<1>1. CASE l.earning
  BY <1>1 DEF credit_driver_wallet
<1>2. CASE ~l.earning /\ m = "cash"
  <2> DEFINE c == [l EXCEPT !.bal = @ - Commission, !.earning = TRUE, !.settled = "cash"]
  <2>1. credit_driver_wallet(l, m) = c
    BY <1>2 DEF credit_driver_wallet
  <2>2. l.bal = 0 /\ l \in LedgerType
    BY <1>2 DEF Explained
  <2>3. c.bal = -Commission
    BY <2>2, MoneyBounds DEF LedgerType
  <2>4. c.bal \in Int /\ c.settled \in {"none", "cash", "platform"} /\ c.settled = "cash"
    BY <2>2, <2>3, MoneyBounds DEF LedgerType
  <2>5. c.earning = TRUE
    BY <2>2, Zenon DEF LedgerType
  <2>6. c \in LedgerType
    BY <2>2, <2>4, <2>5 DEF LedgerType
  <2> HIDE DEF c
  <2> QED BY <2>1, <2>3, <2>4, <2>5, <2>6 DEF Explained
<1>3. CASE ~l.earning /\ m # "cash"
  <2> DEFINE c == [l EXCEPT !.bal = @ + Fare - Commission, !.earning = TRUE,
                            !.settled = "platform"]
  <2>1. credit_driver_wallet(l, m) = c
    BY <1>3 DEF credit_driver_wallet
  <2>2. l.bal = 0 /\ l \in LedgerType
    BY <1>3 DEF Explained
  <2>3. c.bal = Fare - Commission
    BY <2>2, MoneyBounds DEF LedgerType
  <2>4. c.bal \in Int /\ c.settled \in {"none", "cash", "platform"} /\ c.settled = "platform"
    BY <2>2, <2>3, MoneyBounds DEF LedgerType
  <2>5. c.earning = TRUE
    BY <2>2, Zenon DEF LedgerType
  <2>6. c \in LedgerType
    BY <2>2, <2>4, <2>5 DEF LedgerType
  <2> HIDE DEF c
  <2> QED BY <2>1, <2>3, <2>4, <2>5, <2>6 DEF Explained
<1> QED BY <1>1, <1>2, <1>3

\* Settling, or deferring for want of a commission rule, keeps the ledger explained.
LEMMA SettleExplained ==
  ASSUME NEW l, NEW m, Explained(l)
  PROVE  Explained(settle_or_defer(l, m))
<1>1. CASE ruled
  BY <1>1, CreditExplained DEF settle_or_defer
<1>2. CASE ~ruled
  BY <1>2 DEF settle_or_defer, Explained, LedgerType
<1> QED BY <1>1, <1>2

\* So does the settlement of a payment the platform received, cash settlements included.
LEMMA PlatformExplained ==
  ASSUME NEW l, NEW m, Explained(l)
  PROVE  Explained(settle_paid_by_platform(l, m))
<1>1. CASE l.settled = "none"
  BY <1>1, SettleExplained DEF settle_paid_by_platform
<1>2. CASE l.settled = "cash"
  <2> DEFINE c == [l EXCEPT !.bal = @ + Fare, !.settled = "platform"]
  <2>1. settle_paid_by_platform(l, m) = c
    BY <1>2 DEF settle_paid_by_platform
  <2>2. l.bal = -Commission /\ l.earning /\ l \in LedgerType
    BY <1>2 DEF Explained
  <2>3. c.bal = Fare - Commission
    BY <2>2, MoneyBounds DEF LedgerType
  <2>4. c.bal \in Int /\ c.settled \in {"none", "cash", "platform"} /\ c.settled = "platform"
    BY <2>2, <2>3, MoneyBounds DEF LedgerType
  <2>5. c.earning = TRUE
    BY <2>2, Zenon DEF LedgerType
  <2>6. c \in LedgerType
    BY <2>2, <2>4, <2>5 DEF LedgerType
  <2> HIDE DEF c
  <2> QED BY <2>1, <2>3, <2>4, <2>5, <2>6 DEF Explained
<1>3. CASE l.settled = "platform"
  BY <1>3 DEF settle_paid_by_platform
<1> QED BY <1>1, <1>2, <1>3 DEF Explained, LedgerType

\* Whatever a capture does (completes, records a late payment, nothing), the ledger
\* stays explained.
LEMMA CaptureExplained ==
  ASSUME Explained(ledger), NEW i, NEW o,
         \/ complete(i, o) \/ capture_polled(i, o)
         \/ \E hasId : record(i, o, hasId) \/ capture(i, o, hasId)
  PROVE  Explained(ledger')
<1>1. ASSUME complete(i, o) PROVE Explained(ledger')
  BY <1>1, PlatformExplained DEF complete
<1>2. ASSUME NEW hasId, record(i, o, hasId) PROVE Explained(ledger')
  BY <1>2 DEF record
<1>3. ASSUME NEW hasId, capture(i, o, hasId) PROVE Explained(ledger')
  BY <1>1, <1>2, <1>3 DEF capture
<1>4. ASSUME capture_polled(i, o) PROVE Explained(ledger')
  BY <1>1, <1>2, <1>4 DEF capture_polled
<1> QED BY <1>1, <1>2, <1>3, <1>4

\* The poll before a switch or a retry.
LEMMA PollExplained ==
  ASSUME Explained(ledger), NEW h, NEW after, Poll(h, after)
  PROVE  Explained(ledger')
BY CaptureExplained DEF Poll

\* Every step of the model.
LEMMA NextExplained ==
  ASSUME Explained(ledger), [Next]_vars
  PROVE  Explained(ledger')
<1>1. CASE create_payment_on_complete
  BY <1>1, SettleExplained DEF create_payment_on_complete
<1>2. CASE _confirm_cash_payment
  BY <1>2, SettleExplained DEF _confirm_cash_payment
<1>3. CASE pay_trip
  BY <1>3, PlatformExplained DEF pay_trip
<1>4. CASE RuleApproved
  BY <1>4 DEF RuleApproved
<1>5. CASE retry_trip
  <2>1. PICK l : /\ Explained(l)
                 /\ ledger' = [l EXCEPT !.alert = FALSE]
    BY <1>5, SettleExplained DEF retry_trip
  <2> QED BY <2>1 DEF Explained, LedgerType
<1>6. CASE reconcile_stuck_payments
  BY <1>6, CaptureExplained DEF reconcile_stuck_payments
<1>7. ASSUME NEW h \in Handlers, Request(h) PROVE Explained(ledger')
  <2>1. CASE create_order(h)
    BY <2>1 DEF create_order
  <2>2. CASE retry_payment(h)
    BY <2>2, PollExplained DEF retry_payment
  <2>3. ASSUME NEW m \in {"cash", "online"}, switch_payment_method(h, m)
        PROVE  Explained(ledger')
    BY <2>3, PollExplained DEF switch_payment_method
  <2>4. ASSUME NEW o \in Orders, VerifyUnpaid(h, o) PROVE Explained(ledger')
    BY <2>4 DEF VerifyUnpaid
  <2> QED BY <1>7, <2>1, <2>2, <2>3, <2>4 DEF Request
<1>8. ASSUME NEW h \in Handlers, Continue(h) PROVE Explained(ledger')
  BY <1>8 DEF Continue, CreateRead, CreateSave, VerifyFail, SwitchCommit, RetryCommit
<1>9. ASSUME NEW o \in Orders,
             \/ RiderPays(o) \/ payment_webhook(o) \/ WebhookLost(o) \/ verify_payment(o)
             \/ refund(o) \/ RefundKilled(o)
      PROVE  Explained(ledger')
  <2>1. CASE payment_webhook(o)
    BY <2>1, CaptureExplained DEF payment_webhook
  <2>2. CASE verify_payment(o)
    BY <2>2, CaptureExplained DEF verify_payment
  <2>3. CASE RiderPays(o) \/ WebhookLost(o) \/ refund(o) \/ RefundKilled(o)
    BY <2>3 DEF RiderPays, WebhookLost, refund, RefundKilled
  <2> QED BY <1>9, <2>1, <2>2, <2>3
<1>10. CASE UNCHANGED vars
  BY <1>10 DEF vars
<1> QED
  BY <1>1, <1>2, <1>3, <1>4, <1>5, <1>6, <1>7, <1>8, <1>9, <1>10 DEF Next

\* What the settlement explains is what the property asks.
LEMMA ExplainedMatches ==
  ASSUME Explained(ledger)
  PROVE  LedgerMatchesSettlement
BY DEF Explained, LedgerType, LedgerMatchesSettlement

\* credit_driver_wallet and settle_paid_by_platform never write a trip's money twice:
\* in every reachable state the driver's balance is the one its settlement names.
THEOREM LedgerMatchesSettlementHolds == Spec => []LedgerMatchesSettlement
<1>1. Init => Explained(ledger)
  BY DEF Init, Explained, LedgerType
<1>2. Explained(ledger) /\ [Next]_vars => Explained(ledger)'
  BY NextExplained
<1>3. Explained(ledger) => LedgerMatchesSettlement
  BY ExplainedMatches
<1> QED BY <1>1, <1>2, <1>3, PTL DEF Spec

-----------------------------------------------------------------------------
(* The rows.  OneCompletedPayment and PlatformMoneyReachesDriver are about  *)
(* rows that requests in hand will write from copies they took earlier, so  *)
(* the invariant carries the shapes of those requests, and that nothing     *)
(* happens before the ride is completed.                                    *)

TripType == [done : BOOLEAN, method : Methods, paid : Unpaid \cup {"completed", "failed"}]
LateType == [refund : {"none", "pending", "done", "manual"}, id : BOOLEAN]
JobType ==
  [pc : {"idle", "create_read", "create_save", "verify_fail", "switch", "retry"},
   row : 0 .. MaxRows, order : 0 .. MaxOrders, copy : RowType, method : Methods]

RowsTyped ==
  /\ trip \in TripType
  /\ pays \in Seq(RowType) /\ Len(pays) <= MaxRows
  /\ known \in [Orders -> 0 .. Len(pays)]

GatewayTyped ==
  /\ issued \in 0 .. MaxOrders
  /\ shown \subseteq 1 .. issued /\ captured \subseteq shown /\ hooks \subseteq captured

LateTyped ==
  /\ late \in [Orders -> LateType]
  /\ refunding \subseteq Orders /\ \A o \in refunding : known[o] # 0

JobFits(j, rows, orders) ==
  /\ j.row <= rows
  /\ j.pc \in {"verify_fail", "switch", "retry"} => j.row # 0
  /\ j.pc \in {"create_read", "create_save"} => j.order \in 1 .. orders

JobsTyped ==
  job \in [Handlers -> JobType] /\ \A h \in Handlers : JobFits(job[h], Len(pays), issued)

BeforeCompletion ==
  ~trip.done =>
    /\ pays = <<>> /\ \A h \in Handlers : job[h].pc = "idle"
    /\ ledger.settled = "none" /\ ~ledger.alert

PayInv ==
  /\ RowsTyped /\ GatewayTyped /\ LateTyped /\ JobsTyped /\ BeforeCompletion
  /\ Explained(ledger) /\ OneCompletedPayment /\ PlatformMoneyReachesDriver

-----------------------------------------------------------------------------
(* Operators: the newest of a set of rows or orders, and the row writes.    *)

\* A set of natural numbers has a least element.
LEMMA Least ==
  ASSUME NEW T \in SUBSET Nat, T # {}
  PROVE  \E x \in T : \A y \in T : x <= y
<1>1. PICK R : R = OpToRel(<, Nat)
  OBVIOUS
<1>2. IsWellFoundedOn(R, Nat)
  BY <1>1, NatLessThanWellFounded
<1>3. PICK x \in T : \A y \in T : ~(<<y, x>> \in R)
  BY <1>2, WFMin
<1>4. \A a, b \in Nat : b < a => <<b, a>> \in R
  BY <1>1 DEF OpToRel
<1>5. ASSUME NEW y \in T PROVE x <= y
  <2>1. x \in Nat /\ y \in Nat
    BY <1>5
  <2>2. ~(y < x)
    BY <1>3, <1>4, <2>1
  <2> QED BY <2>1, <2>2
<1> QED BY <1>5

\* Latest picks an element of a set that is bounded and not empty.
LEMMA LatestIn ==
  ASSUME NEW n \in Nat, NEW S \in SUBSET (1 .. n), S # {}
  PROVE  Latest(S) \in S
<1>1. PICK T : T = {k \in Nat : n - k \in S}
  OBVIOUS
<1>2. T \in SUBSET Nat /\ T # {}
  <2>1. PICK s \in S : TRUE
    OBVIOUS
  <2>2. n - s \in Nat /\ n - (n - s) = s
    BY <2>1
  <2>3. n - s \in T
    BY <1>1, <2>1, <2>2
  <2> QED BY <1>1, <2>3
<1>3. PICK x \in T : \A y \in T : x <= y
  BY <1>2, Least
<1>4. n - x \in S
  BY <1>1, <1>3
<1>5. ASSUME NEW j \in S PROVE j <= n - x
  <2>1. n - j \in Nat /\ n - (n - j) = j /\ j \in Int
    BY <1>5
  <2>2. n - j \in T
    BY <1>1, <2>1
  <2>3. x <= n - j /\ x \in Nat
    BY <1>1, <1>3, <2>2
  <2> QED BY <2>1, <2>3
<1>6. \E i \in S : \A j \in S : j <= i
  BY <1>4, <1>5
<1> QED BY <1>6 DEF Latest

\* Writing one row of the trip.
LEMMA RowWritten ==
  ASSUME pays \in Seq(RowType), NEW i \in Rows, NEW r \in RowType,
         pays' = [pays EXCEPT ![i] = r]
  PROVE  /\ pays' \in Seq(RowType) /\ Len(pays') = Len(pays)
         /\ pays'[i] = r /\ \A j \in Rows \ {i} : pays'[j] = pays[j]
BY DEF Rows

\* Appending a row.
LEMMA RowAdded ==
  ASSUME NEW p \in Seq(RowType), NEW r \in RowType, pays' = Append(p, r)
  PROVE  /\ pays' \in Seq(RowType) /\ Len(pays') = Len(p) + 1
         /\ pays'[Len(p) + 1] = r /\ \A j \in 1 .. Len(p) : pays'[j] = p[j]
OBVIOUS

\* The driver has the platform's money, or waits only for a commission rule.
Reached(l) == l.settled = "platform" \/ l.deferred

\* A payment to the platform reaches the driver.
LEMMA PlatformReaches ==
  ASSUME NEW l, NEW m, Explained(l), m # "cash"
  PROVE  Reached(settle_paid_by_platform(l, m))
<1>0. l \in LedgerType /\ (l.earning <=> l.settled # "none")
  BY DEF Explained
<1>1. CASE l.settled = "none"
  <2>1. settle_paid_by_platform(l, m) = settle_or_defer(l, m)
    BY <1>1 DEF settle_paid_by_platform
  <2>2. CASE ruled
    <3>1. settle_or_defer(l, m) =
            [l EXCEPT !.bal = @ + Fare - Commission, !.earning = TRUE, !.settled = "platform"]
      BY <1>0, <1>1, <2>2 DEF settle_or_defer, credit_driver_wallet
    <3>2. settle_or_defer(l, m).settled = "platform"
      BY <1>0, <3>1 DEF LedgerType
    <3> QED BY <2>1, <3>2 DEF Reached
  <2>3. CASE ~ruled
    <3>1. settle_or_defer(l, m) = [l EXCEPT !.alert = TRUE, !.deferred = TRUE]
      BY <2>3 DEF settle_or_defer
    <3>2. settle_or_defer(l, m).deferred = TRUE
      BY <1>0, <3>1, Zenon DEF LedgerType
    <3> QED BY <2>1, <3>2 DEF Reached
  <2> QED BY <2>2, <2>3
<1>2. CASE l.settled = "cash"
  <2>1. settle_paid_by_platform(l, m) = [l EXCEPT !.bal = @ + Fare, !.settled = "platform"]
    BY <1>2 DEF settle_paid_by_platform
  <2> QED BY <1>0, <2>1 DEF Reached, LedgerType
<1>3. CASE l.settled = "platform"
  BY <1>3 DEF settle_paid_by_platform, Reached
<1> QED BY <1>0, <1>1, <1>2, <1>3 DEF LedgerType

\* No later settlement takes it back.
LEMMA SettleKeepsReached ==
  ASSUME NEW l, NEW m, Explained(l), Reached(l)
  PROVE  Reached(settle_or_defer(l, m))
<1>0. l \in LedgerType /\ (l.earning <=> l.settled # "none")
  BY DEF Explained
<1>1. CASE ~ruled
  <2>1. settle_or_defer(l, m) = [l EXCEPT !.alert = TRUE, !.deferred = TRUE]
    BY <1>1 DEF settle_or_defer
  <2>2. settle_or_defer(l, m).deferred = TRUE
    BY <1>0, <2>1, Zenon DEF LedgerType
  <2> QED BY <2>2 DEF Reached
<1>2. CASE ruled /\ l.earning
  BY <1>2 DEF settle_or_defer, credit_driver_wallet
<1>3. CASE ruled /\ ~l.earning
  <2>1. l.deferred
    BY <1>0, <1>3 DEF Reached
  <2>2. settle_or_defer(l, m) = credit_driver_wallet(l, m)
    BY <1>3 DEF settle_or_defer
  <2>3. credit_driver_wallet(l, m).deferred = l.deferred
    BY <1>0, <1>3 DEF credit_driver_wallet, LedgerType
  <2> QED BY <2>1, <2>2, <2>3 DEF Reached
<1> QED BY <1>1, <1>2, <1>3

-----------------------------------------------------------------------------
(* The rows and the ledger under each kind of write.                        *)

\* What the inductive invariant says of rows and ledger, after a step that keeps the
\* rows there are and the completion of the ride.
MoneyKept ==
  /\ RowsTyped' /\ LateTyped' /\ Explained(ledger)'
  /\ OneCompletedPayment' /\ PlatformMoneyReachesDriver'
  /\ Len(pays') >= Len(pays) /\ trip'.done = trip.done

\* A step that completes no row: each completed row was completed, by the same method.
LEMMA NoneCompleted ==
  ASSUME PayInv, RowsTyped', LateTyped', Explained(ledger)',
         Len(pays') >= Len(pays), trip'.done = trip.done,
         Reached(ledger) => Reached(ledger'),
         \A i \in DOMAIN pays' : pays'[i].status = "completed" =>
           i \in Rows /\ pays[i].status = "completed" /\ pays'[i].method = pays[i].method
  PROVE  MoneyKept
<1>1. OneCompletedPayment'
  BY DEF PayInv, OneCompletedPayment, Rows
<1>2. PlatformMoneyReachesDriver'
  BY DEF PayInv, PlatformMoneyReachesDriver, Rows, Reached
<1> QED BY <1>1, <1>2 DEF MoneyKept

\* A late capture is recorded: only its order, its refund and the callback.
LEMMA RecordOK ==
  ASSUME PayInv, NEW i \in Rows, NEW o \in Orders, NEW hasId \in BOOLEAN, record(i, o, hasId)
  PROVE  MoneyKept
<1>1. i \in 1 .. Len(pays) /\ Len(pays) \in Nat /\ known \in [Orders -> 0 .. Len(pays)]
  BY DEF PayInv, RowsTyped, Rows
<1>2. known' \in [Orders -> 0 .. Len(pays)] /\ known'[o] # 0 /\ \A p \in Orders : known[p] # 0 => known'[p] # 0
  BY <1>1 DEF record, remember
<1>3. trip' = trip /\ pays' = pays /\ ledger' = ledger
  BY DEF record
<1>4. RowsTyped'
  BY <1>2, <1>3 DEF PayInv, RowsTyped
<1>5. LateTyped'
  <2>1. late \in [Orders -> LateType] /\ refunding \subseteq Orders /\ \A p \in refunding : known[p] # 0
    BY DEF PayInv, LateTyped
  <2>2. CASE UNCHANGED <<late, refunding>>
    BY <1>2, <2>1, <2>2 DEF LateTyped
  <2>3. CASE /\ late' = [late EXCEPT ![o] = [refund |-> "pending", id |-> @.id \/ hasId]]
             /\ refunding' = refunding \cup {o}
    <3>1. late[o].id \in BOOLEAN
      BY <2>1 DEF LateType
    <3>2. PICK b \in BOOLEAN : b = (late[o].id \/ hasId)
      BY <3>1
    <3>3. late' = [late EXCEPT ![o] = [refund |-> "pending", id |-> b]]
      BY <2>3, <3>2
    <3>4. [refund |-> "pending", id |-> b] \in LateType
      BY DEF LateType
    <3>5. late' \in [Orders -> LateType]
      BY <2>1, <3>3, <3>4
    <3> QED BY <1>2, <2>1, <2>3, <3>5 DEF LateTyped
  <2> QED BY <2>2, <2>3 DEF record
<1>6. Explained(ledger)'
  BY <1>3 DEF PayInv
<1> QED
  BY <1>1, <1>3, <1>4, <1>5, <1>6, NoneCompleted DEF Rows

\* A capture completes row i: the database admits no second one, and the ledger follows.
LEMMA CompleteOK ==
  ASSUME PayInv, NEW i \in Rows, NEW o \in Orders, complete(i, o)
  PROVE  MoneyKept
<1>1. /\ pays \in Seq(RowType) /\ Len(pays) <= MaxRows /\ trip \in TripType
      /\ known \in [Orders -> 0 .. Len(pays)]
  BY DEF PayInv, RowsTyped
<1>2. PICK r : r = [pays[i] EXCEPT !.status = "completed", !.order = o]
  OBVIOUS
<1>3. o \in 0 .. MaxOrders
  BY MoneyBounds DEF Orders
<1>4. pays[i] \in RowType
  BY <1>1 DEF Rows
<1>5. r \in RowType /\ r.status = "completed"
  BY <1>2, <1>3, <1>4 DEF RowType
<1>6. pays' = [pays EXCEPT ![i] = r]
  BY <1>1, <1>2 DEF complete, Rows
<1>7. /\ pays' \in Seq(RowType) /\ Len(pays') = Len(pays)
      /\ pays'[i] = r /\ \A j \in Rows \ {i} : pays'[j] = pays[j]
  BY <1>1, <1>5, <1>6, RowWritten
<1>8. trip' \in TripType /\ trip'.done = trip.done
  BY <1>1 DEF complete, TripType, Methods
<1>9. RowsTyped'
  BY <1>1, <1>7, <1>8 DEF RowsTyped, complete
<1>10. LateTyped'
  BY DEF PayInv, LateTyped, complete
<1>11. Explained(ledger)'
  BY CaptureExplained DEF PayInv
<1>12. \A j \in Rows \ {i} : pays[j].status # "completed"
  BY DEF complete, one_completed_payment
<1>13. Rows' = Rows
  BY <1>1, <1>7 DEF Rows
<1>14. OneCompletedPayment'
  BY <1>7, <1>12, <1>13 DEF OneCompletedPayment
<1>15. Reached(ledger')
  BY PlatformReaches DEF complete, PayInv
<1>16. PlatformMoneyReachesDriver'
  BY <1>15 DEF PlatformMoneyReachesDriver, Reached
<1> QED
  BY <1>1, <1>7, <1>8, <1>9, <1>10, <1>11, <1>14, <1>16 DEF MoneyKept

\* Nothing is written.
LEMMA NothingOK ==
  ASSUME PayInv, UNCHANGED <<trip, pays, known, late, refunding, ledger>>
  PROVE  MoneyKept
<1>1. RowsTyped' /\ LateTyped' /\ Explained(ledger)'
  BY DEF PayInv, RowsTyped, LateTyped
<1>2. Len(pays) \in Nat
  BY DEF PayInv, RowsTyped
<1> QED BY <1>1, <1>2, NoneCompleted DEF Rows

\* Both forms of a capture.
LEMMA CapturesOK ==
  ASSUME PayInv, NEW i \in Rows, NEW o \in Orders, NEW hasId \in BOOLEAN,
         capture(i, o, hasId) \/ capture_polled(i, o)
  PROVE  MoneyKept
<1>1. \/ \E b \in BOOLEAN : record(i, o, b)
      \/ complete(i, o)
      \/ UNCHANGED <<trip, pays, known, late, refunding, ledger>>
  BY DEF capture, capture_polled
<1> QED BY <1>1, RecordOK, CompleteOK, NothingOK

-----------------------------------------------------------------------------
(* The rows and orders the handlers work on exist.                          *)

\* A row found for an order is a row of the trip.
LEMMA OrderRow ==
  ASSUME PayInv, NEW o \in Orders, payment_for_order(o) # 0
  PROVE  payment_for_order(o) \in Rows
<1>1. pays \in Seq(RowType) /\ known \in [Orders -> 0 .. Len(pays)]
  BY DEF PayInv, RowsTyped
<1>2. CASE known[o] # 0
  BY <1>1, <1>2 DEF payment_for_order, Rows
<1>3. CASE known[o] = 0
  <2>1. PICK S : S = {i \in Rows : pays[i].order = o}
    OBVIOUS
  <2>2. payment_for_order(o) = Latest(S)
    BY <1>3, <2>1 DEF payment_for_order
  <2>3. S \in SUBSET (1 .. Len(pays)) /\ Len(pays) \in Nat /\ S \subseteq Rows
    BY <1>1, <2>1 DEF Rows
  <2>4. S # {}
    BY <2>2 DEF Latest
  <2> QED BY <2>2, <2>3, <2>4, LatestIn
<1> QED BY <1>2, <1>3

\* So is the newest row of those with some status or method.
LEMMA LatestRow ==
  ASSUME PayInv, NEW S \in SUBSET Rows, Latest(S) # 0
  PROVE  Latest(S) \in S
<1>1. S \in SUBSET (1 .. Len(pays)) /\ Len(pays) \in Nat
  BY DEF PayInv, RowsTyped, Rows
<1>2. S # {}
  BY DEF Latest
<1> QED BY <1>1, <1>2, LatestIn

\* An order found paid for a row is an order.
LEMMA PaidOrder ==
  ASSUME NEW i, FirstPaid(i) # 0
  PROVE  FirstPaid(i) \in Orders
<1>1. PICK S : S = order_ids(i) \cap captured
  OBVIOUS
<1>2. S \in SUBSET (1 .. MaxOrders) /\ MaxOrders \in Nat
  BY <1>1, MoneyBounds DEF order_ids, Orders
<1>3. FirstPaid(i) \in S \/ FirstPaid(i) = Latest(S)
  BY <1>1 DEF FirstPaid
<1>4. CASE FirstPaid(i) = Latest(S)
  <2>1. S # {}
    BY <1>4 DEF Latest
  <2> QED BY <1>2, <1>4, <2>1, LatestIn DEF Orders
<1> QED BY <1>2, <1>3, <1>4 DEF Orders

\* A row, or a request in hand, means the ride is completed.
LEMMA RowsAfterCompletion ==
  ASSUME PayInv, Rows # {} \/ \E h \in Handlers : job[h].pc # "idle"
  PROVE  trip.done
<1>1. pays = <<>> => Rows = {}
  BY DEF Rows
<1> QED BY <1>1 DEF PayInv, BeforeCompletion

-----------------------------------------------------------------------------
(* The requests in hand.                                                    *)

\* Requests that are not touched keep fitting rows and orders that only grow.
LEMMA JobsLeft ==
  ASSUME PayInv, Len(pays') >= Len(pays), Len(pays') \in Nat, issued' \in Nat, issued' >= issued, job' = job
  PROVE  JobsTyped'
<1>1. /\ job \in [Handlers -> JobType] /\ Len(pays) \in Nat /\ issued \in Nat
      /\ \A h \in Handlers : JobFits(job[h], Len(pays), issued)
  BY MoneyBounds DEF PayInv, JobsTyped, RowsTyped, GatewayTyped
<1>2. ASSUME NEW h \in Handlers PROVE JobFits(job[h], Len(pays'), issued')
  <2>1. job[h].row \in Int /\ job[h].order \in Int
    BY <1>1 DEF JobType
  <2> QED BY <1>1, <2>1 DEF JobFits
<1> QED BY <1>1, <1>2 DEF JobsTyped

\* Nor is any but the one whose request took the step.
LEMMA JobMoves ==
  ASSUME PayInv, Len(pays') >= Len(pays), Len(pays') \in Nat, issued' \in Nat, issued' >= issued,
         NEW h \in Handlers, NEW j \in JobType, JobFits(j, Len(pays'), issued'),
         job' = [job EXCEPT ![h] = j]
  PROVE  JobsTyped'
<1>1. /\ job \in [Handlers -> JobType] /\ Len(pays) \in Nat /\ issued \in Nat
      /\ \A g \in Handlers : JobFits(job[g], Len(pays), issued)
  BY MoneyBounds DEF PayInv, JobsTyped, RowsTyped, GatewayTyped
<1>2. ASSUME NEW g \in Handlers PROVE JobFits(job'[g], Len(pays'), issued')
  <2>1. job[g].row \in Int /\ job[g].order \in Int
    BY <1>1 DEF JobType
  <2>2. CASE g = h
    BY <1>1, <2>2
  <2>3. CASE g # h
    <3>1. job'[g] = job[g]
      BY <1>1, <2>3
    <3> QED BY <1>1, <2>1, <3>1 DEF JobFits
  <2> QED BY <2>2, <2>3
<1>3. job' \in [Handlers -> JobType]
  BY <1>1
<1> QED BY <1>2, <1>3 DEF JobsTyped

\* The free request slot.
LEMMA NoJobOK ==
  ASSUME NEW n \in Nat, NEW k \in Nat
  PROVE  NoJob \in JobType /\ JobFits(NoJob, n, k)
<1>1. Row("online", "pending", 0) \in RowType
  BY MoneyBounds DEF Row, RowType, Methods, Unpaid
<1>2. NoJob \in JobType
  BY <1>1, MoneyBounds DEF NoJob, JobType, Methods
<1>3. NoJob.pc = "idle" /\ NoJob.row = 0
  BY DEF NoJob
<1> QED BY <1>2, <1>3 DEF JobFits

\* A finished request frees its slot.
LEMMA FinishOK ==
  ASSUME PayInv, Len(pays') >= Len(pays), Len(pays') \in Nat, issued' \in Nat, issued' >= issued,
         NEW h \in Handlers, Finish(h)
  PROVE  JobsTyped'
BY NoJobOK, JobMoves DEF Finish

\* The parts together, once the ride is completed.
LEMMA PayInvNext ==
  ASSUME PayInv, trip.done, MoneyKept, JobsTyped', GatewayTyped'
  PROVE  PayInv'
BY DEF PayInv, MoneyKept, BeforeCompletion

\* The gateway's state when nothing of it is written.
LEMMA GatewayLeft ==
  ASSUME PayInv, UNCHANGED <<issued, shown, captured, hooks>>
  PROVE  GatewayTyped' /\ issued' \in Nat /\ issued' >= issued
BY MoneyBounds DEF PayInv, GatewayTyped

\* The lengths and types of the rows and requests.
LEMMA PayFacts ==
  ASSUME PayInv
  PROVE  /\ pays \in Seq(RowType) /\ Len(pays) \in Nat /\ Len(pays) <= MaxRows
         /\ Rows = 1 .. Len(pays) /\ \A i \in Rows : pays[i] \in RowType
         /\ known \in [Orders -> 0 .. Len(pays)] /\ trip \in TripType
         /\ issued \in Nat /\ job \in [Handlers -> JobType]
<1>1. /\ pays \in Seq(RowType) /\ Len(pays) <= MaxRows
      /\ known \in [Orders -> 0 .. Len(pays)] /\ trip \in TripType
      /\ issued \in 0 .. MaxOrders /\ job \in [Handlers -> JobType]
  BY DEF PayInv, RowsTyped, GatewayTyped, JobsTyped
<1>2. Len(pays) \in Nat /\ Rows = 1 .. Len(pays)
  BY <1>1 DEF Rows
<1>3. \A i \in Rows : pays[i] \in RowType
  BY <1>1, <1>2
<1> QED BY <1>1, <1>2, <1>3, MoneyBounds

\* What MoneyKept says of the number of rows.
LEMMA KeptLength ==
  ASSUME MoneyKept
  PROVE  Len(pays') >= Len(pays) /\ Len(pays') \in Nat
BY DEF MoneyKept, RowsTyped

-----------------------------------------------------------------------------
(* One lemma per group of actions.                                          *)

\* Steps that write neither rows nor requests: the rider at the gateway, lost
\* webhooks, killed callbacks, an approved rule.
LEMMA GatewayStep ==
  ASSUME PayInv, NEW o, RiderPays(o) \/ WebhookLost(o) \/ RefundKilled(o) \/ RuleApproved
  PROVE  PayInv'
<1>1. RowsTyped' /\ Explained(ledger)' /\ OneCompletedPayment' /\ PlatformMoneyReachesDriver'
      /\ BeforeCompletion'
  BY DEF PayInv, RowsTyped, Explained, OneCompletedPayment, PlatformMoneyReachesDriver,
         BeforeCompletion, Rows, RiderPays, WebhookLost, RefundKilled, RuleApproved
<1>2. LateTyped'
  BY DEF PayInv, LateTyped, RiderPays, WebhookLost, RefundKilled, RuleApproved
<1>3. JobsTyped'
  BY DEF PayInv, JobsTyped, RiderPays, WebhookLost, RefundKilled, RuleApproved
<1>4. GatewayTyped'
  BY DEF PayInv, GatewayTyped, RiderPays, WebhookLost, RefundKilled, RuleApproved
<1> QED BY <1>1, <1>2, <1>3, <1>4 DEF PayInv

\* The webhook, the verify endpoint and the reconciliation task.
LEMMA CaptureStep ==
  ASSUME PayInv, NEW o \in Orders,
         payment_webhook(o) \/ verify_payment(o) \/ reconcile_stuck_payments
  PROVE  PayInv'
<1>1. CASE payment_webhook(o) /\ payment_for_order(o) = 0
  <2>1. UNCHANGED <<trip, pays, known, late, refunding, ledger, job, issued, shown, captured, ruled>>
        /\ hooks' = hooks \ {o}
    BY <1>1 DEF payment_webhook
  <2>2. RowsTyped' /\ Explained(ledger)' /\ OneCompletedPayment' /\ PlatformMoneyReachesDriver'
        /\ BeforeCompletion'
    BY <2>1 DEF PayInv, RowsTyped, Explained, OneCompletedPayment, PlatformMoneyReachesDriver,
                BeforeCompletion, Rows
  <2>3. LateTyped' /\ JobsTyped' /\ GatewayTyped'
    BY <2>1 DEF PayInv, LateTyped, JobsTyped, GatewayTyped
  <2> QED BY <2>2, <2>3 DEF PayInv
<1>2. ASSUME NEW i \in Rows, NEW p \in Orders, NEW b \in BOOLEAN,
             capture(i, p, b) \/ capture_polled(i, p),
             UNCHANGED <<issued, shown, captured, job>>, hooks' \subseteq hooks
      PROVE  PayInv'
  <2>1. MoneyKept
    BY <1>2, CapturesOK
  <2>2. GatewayTyped' /\ issued' \in Nat /\ issued' >= issued
    BY <1>2, MoneyBounds DEF PayInv, GatewayTyped
  <2>3. JobsTyped'
    BY <1>2, <2>1, <2>2, KeptLength, JobsLeft
  <2>4. trip.done
    BY <1>2, RowsAfterCompletion
  <2> QED BY <2>1, <2>2, <2>3, <2>4, PayInvNext
<1>3. CASE payment_webhook(o) /\ payment_for_order(o) # 0
  <2>1. payment_for_order(o) \in Rows
    BY <1>3, OrderRow
  <2>2. capture(payment_for_order(o), o, TRUE) /\ hooks' \subseteq hooks
        /\ UNCHANGED <<issued, shown, captured, job>>
    BY <1>3 DEF payment_webhook
  <2> QED BY <1>2, <2>1, <2>2
<1>4. CASE verify_payment(o)
  <2>1. payment_for_order(o) \in Rows
    BY <1>4, OrderRow DEF verify_payment
  <2>2. PICK b \in BOOLEAN : capture(payment_for_order(o), o, b)
    BY <1>4 DEF verify_payment
  <2>3. hooks' \subseteq hooks /\ UNCHANGED <<issued, shown, captured, job>>
    BY <1>4 DEF verify_payment
  <2> QED BY <1>2, <2>1, <2>2, <2>3
<1>5. CASE reconcile_stuck_payments
  <2>1. PICK i \in Rows : FirstPaid(i) # 0 /\ capture_polled(i, FirstPaid(i))
    BY <1>5 DEF reconcile_stuck_payments
  <2>2. FirstPaid(i) \in Orders
    BY <2>1, PaidOrder
  <2>3. hooks' \subseteq hooks /\ UNCHANGED <<issued, shown, captured, job>>
    BY <1>5 DEF reconcile_stuck_payments
  <2> QED BY <1>2, <2>1, <2>2, <2>3
<1> QED BY <1>1, <1>3, <1>4, <1>5

\* The refund callback: the row of a superseded capture becomes refunded.
LEMMA RefundStep ==
  ASSUME PayInv, NEW o \in Orders, refund(o)
  PROVE  PayInv'
<1>1. /\ late \in [Orders -> LateType] /\ o \in refunding /\ known[o] # 0
      /\ refunding \subseteq Orders /\ \A p \in refunding : known[p] # 0
  BY DEF PayInv, LateTyped, refund
<1>2. known[o] \in Rows /\ pays[known[o]] \in RowType
  BY <1>1, PayFacts
<1>3. trip.done
  BY <1>2, RowsAfterCompletion
<1>4. PICK made \in BOOLEAN :
        /\ late' = [late EXCEPT ![o].refund = IF @ = "done" \/ made THEN "done" ELSE "manual"]
        /\ pays' = IF made /\ pays[known[o]].status # "completed"
                   THEN [pays EXCEPT ![known[o]].status = "refunded"] ELSE pays
  BY DEF refund
<1>5. late' \in [Orders -> LateType]
  <2>1. PICK s \in {"done", "manual"} : s = IF late[o].refund = "done" \/ made THEN "done" ELSE "manual"
    OBVIOUS
  <2>2. late[o] \in LateType
    BY <1>1
  <2>3. [late[o] EXCEPT !.refund = s] \in LateType
    BY <2>2 DEF LateType
  <2>4. late' = [late EXCEPT ![o] = [late[o] EXCEPT !.refund = s]]
    BY <1>1, <1>4, <2>1
  <2> QED BY <1>1, <2>3, <2>4
<1>6. /\ refunding' = refunding \ {o} /\ trip' = trip /\ known' = known /\ ledger' = ledger
      /\ UNCHANGED <<issued, shown, captured, hooks, job>>
  BY DEF refund
<1>7. LateTyped'
  BY <1>1, <1>5, <1>6 DEF LateTyped
<1>8. Explained(ledger)'
  BY <1>6 DEF PayInv
<1>9. MoneyKept
  <2>1. CASE pays' = pays
    <3>1. RowsTyped'
      BY <1>6, <2>1 DEF PayInv, RowsTyped
    <3> QED BY <1>6, <1>7, <1>8, <2>1, <3>1, PayFacts, NoneCompleted DEF Rows
  <2>2. CASE pays' = [pays EXCEPT ![known[o]].status = "refunded"]
    <3>1. PICK r : r = [pays[known[o]] EXCEPT !.status = "refunded"]
      OBVIOUS
    <3>2. r \in RowType /\ r.status = "refunded"
      BY <1>2, <3>1 DEF RowType
    <3>3. pays' = [pays EXCEPT ![known[o]] = r]
      BY <2>2, <3>1
    <3>4. /\ pays' \in Seq(RowType) /\ Len(pays') = Len(pays)
          /\ pays'[known[o]] = r /\ \A j \in Rows \ {known[o]} : pays'[j] = pays[j]
      BY <1>2, <3>2, <3>3, PayFacts, RowWritten
    <3>5. RowsTyped'
      BY <1>6, <3>4 DEF PayInv, RowsTyped
    <3>6. DOMAIN pays' = Rows
      BY <3>4, PayFacts
    <3>7. \A i \in DOMAIN pays' : pays'[i].status = "completed" =>
            i \in Rows /\ pays[i].status = "completed" /\ pays'[i].method = pays[i].method
      BY <3>2, <3>4, <3>6
    <3> QED BY <1>6, <1>7, <1>8, <3>4, <3>5, <3>7, PayFacts, NoneCompleted
  <2> QED BY <1>4, <2>1, <2>2
<1>10. JobsTyped' /\ GatewayTyped'
  BY <1>6, <1>9, GatewayLeft, KeptLength, JobsLeft
<1> QED BY <1>3, <1>9, <1>10, PayInvNext

\* The ride is completed: the first row, and the wallet's debit where it pays.
LEMMA CompletionStep ==
  ASSUME PayInv, create_payment_on_complete
  PROVE  PayInv'
<1>1. /\ ~trip.done /\ trip \in TripType /\ trip.method \in Methods
      /\ pays = <<>> /\ Len(pays) = 0 /\ ledger.settled = "none"
      /\ known \in [Orders -> 0 .. 0] /\ MaxRows \in Nat /\ MaxRows >= 1
  BY MoneyBounds, PayFacts DEF create_payment_on_complete, PayInv, BeforeCompletion, TripType
<1>2. UNCHANGED <<known, issued, shown, captured, hooks, late, refunding, job>>
  BY DEF create_payment_on_complete
<1>3. trip' \in TripType /\ trip'.done
  BY <1>1 DEF create_payment_on_complete, TripType, Unpaid
<1>4. LateTyped' /\ GatewayTyped' /\ issued' \in Nat /\ issued' >= issued
  BY <1>2, GatewayLeft DEF PayInv, LateTyped
<1>5. Explained(ledger)'
  BY NextExplained DEF PayInv, Next
<1>6. ASSUME NEW r \in RowType, pays' = <<r>>,
             r.status = "completed" => Reached(ledger')
      PROVE  PayInv'
  <2>1. pays' \in Seq(RowType) /\ Len(pays') = 1 /\ Rows' = {1}
    BY <1>6 DEF Rows
  <2>2. RowsTyped'
    BY <1>1, <1>2, <1>3, <2>1 DEF RowsTyped
  <2>3. OneCompletedPayment'
    BY <2>1 DEF OneCompletedPayment
  <2>4. PlatformMoneyReachesDriver'
    BY <1>6, <2>1 DEF PlatformMoneyReachesDriver, Reached
  <2>5. JobsTyped'
    BY <1>1, <1>2, <1>4, <2>1, JobsLeft
  <2> QED BY <1>3, <1>4, <1>5, <2>2, <2>3, <2>4, <2>5 DEF PayInv, BeforeCompletion
<1>7. CASE /\ trip.method # "wallet"
           /\ pays' = <<Row(trip.method, "pending", 0)>>
  <2>1. PICK r : r = Row(trip.method, "pending", 0)
    OBVIOUS
  <2>2. r \in RowType /\ r.status = "pending"
    BY <1>1, <2>1, MoneyBounds DEF Row, RowType, Unpaid
  <2> QED BY <1>6, <1>7, <2>1, <2>2
<1>8. CASE /\ pays' = <<Row("wallet", "completed", 0)>>
           /\ ledger' = settle_or_defer(ledger, "wallet")
  <2>1. PICK r : r = Row("wallet", "completed", 0)
    OBVIOUS
  <2>2. r \in RowType
    BY <2>1, MoneyBounds DEF Row, RowType, Methods
  <2>3. ledger' = settle_paid_by_platform(ledger, "wallet")
    BY <1>1, <1>8 DEF settle_paid_by_platform
  <2>4. Reached(ledger')
    BY <2>3, PlatformReaches DEF PayInv
  <2> QED BY <1>6, <1>8, <2>1, <2>2, <2>4
<1>9. CASE UNCHANGED <<pays, ledger>>
  <2>1. RowsTyped' /\ OneCompletedPayment' /\ PlatformMoneyReachesDriver'
    BY <1>1, <1>2, <1>3, <1>9 DEF PayInv, RowsTyped, OneCompletedPayment, PlatformMoneyReachesDriver, Rows
  <2>2. JobsTyped'
    BY <1>1, <1>2, <1>4, <1>9, JobsLeft
  <2> QED BY <1>3, <1>4, <1>5, <2>1, <2>2 DEF PayInv, BeforeCompletion
<1> QED BY <1>7, <1>8, <1>9 DEF create_payment_on_complete

\* The driver confirms the cash: the trip's money is not the platform's.
LEMMA CashStep ==
  ASSUME PayInv, _confirm_cash_payment
  PROVE  PayInv'
<1>1. PICK S : S = {j \in Rows : pays[j].method = "cash"}
  OBVIOUS
<1>2. PICK i : i = Latest(S)
  OBVIOUS
<1>3. /\ trip.done /\ i # 0 /\ one_completed_payment(i)
      /\ pays' = [pays EXCEPT ![i].status = "completed"]
      /\ trip' = [trip EXCEPT !.paid = "completed"]
      /\ ledger' = settle_or_defer(ledger, trip.method)
      /\ UNCHANGED <<known, issued, shown, captured, hooks, late, refunding, job>>
  BY <1>1, <1>2 DEF _confirm_cash_payment
<1>4. i \in S /\ i \in Rows /\ pays[i].method = "cash"
  BY <1>1, <1>2, <1>3, LatestRow
<1>5. PICK r : r = [pays[i] EXCEPT !.status = "completed"]
  OBVIOUS
<1>6. r \in RowType /\ r.status = "completed" /\ r.method = "cash"
  BY <1>4, <1>5, PayFacts DEF RowType
<1>7. pays' = [pays EXCEPT ![i] = r]
  BY <1>3, <1>5
<1>8. /\ pays' \in Seq(RowType) /\ Len(pays') = Len(pays)
      /\ pays'[i] = r /\ \A j \in Rows \ {i} : pays'[j] = pays[j]
  BY <1>4, <1>6, <1>7, PayFacts, RowWritten
<1>9. trip' \in TripType /\ trip'.done = trip.done
  BY <1>3, PayFacts DEF TripType
<1>10. RowsTyped' /\ LateTyped' /\ Rows' = Rows
  BY <1>3, <1>8, <1>9 DEF PayInv, RowsTyped, LateTyped, Rows
<1>11. Explained(ledger)'
  BY <1>3, SettleExplained DEF PayInv
<1>12. \A j \in Rows \ {i} : pays[j].status # "completed"
  BY <1>3 DEF one_completed_payment
<1>13. OneCompletedPayment'
  BY <1>8, <1>10, <1>12 DEF OneCompletedPayment
<1>14. PlatformMoneyReachesDriver'
  BY <1>6, <1>8, <1>10, <1>12 DEF PlatformMoneyReachesDriver
<1>15. MoneyKept
  BY <1>8, <1>9, <1>10, <1>11, <1>13, <1>14, PayFacts DEF MoneyKept
<1>16. JobsTyped' /\ GatewayTyped'
  BY <1>3, <1>15, GatewayLeft, KeptLength, JobsLeft
<1> QED BY <1>3, <1>15, <1>16, PayInvNext

\* The wallet pays: every open row is closed and a completed one added.
LEMMA WalletStep ==
  ASSUME PayInv, pay_trip
  PROVE  PayInv'
<1>1. PICK closed : closed = [i \in Rows |-> [pays[i] EXCEPT
                   !.status = IF @ \in Unpaid THEN "failed" ELSE @,
                   !.replaced = @ \/ i = Len(pays)]]
  OBVIOUS
<1>2. /\ trip.done /\ \A i \in Rows : pays[i].status # "completed"
      /\ Len(pays) < MaxRows
      /\ pays' = Append(closed, Row("wallet", "completed", 0))
      /\ trip' = [trip EXCEPT !.method = "wallet", !.paid = "completed"]
      /\ ledger' = settle_paid_by_platform(ledger, "wallet")
      /\ UNCHANGED <<known, issued, shown, captured, hooks, late, refunding, job>>
  BY <1>1 DEF pay_trip
<1>3. ASSUME NEW i \in Rows
      PROVE  closed[i] \in RowType /\ closed[i].status # "completed"
  <2>1. pays[i] \in RowType /\ pays[i].status # "completed"
    BY <1>2, PayFacts
  <2>2. PICK s : s = IF pays[i].status \in Unpaid THEN "failed" ELSE pays[i].status
    OBVIOUS
  <2>3. s \in Unpaid \cup {"completed", "failed", "refunded"} /\ s # "completed"
    BY <2>1, <2>2 DEF RowType
  <2>4. pays[i].replaced \in BOOLEAN
    BY <2>1 DEF RowType
  <2>5. PICK b \in BOOLEAN : b = (pays[i].replaced \/ i = Len(pays))
    BY <2>4
  <2>6. closed[i] = [pays[i] EXCEPT !.status = s, !.replaced = b]
    BY <1>1, <2>1, <2>2, <2>5 DEF RowType
  <2> QED BY <2>1, <2>3, <2>5, <2>6 DEF RowType
<1>4. closed \in Seq(RowType) /\ Len(closed) = Len(pays)
  <2>1. closed \in [1 .. Len(pays) -> RowType]
    BY <1>1, <1>3, PayFacts
  <2> QED BY <2>1, PayFacts
<1>5. PICK r : r = Row("wallet", "completed", 0)
  OBVIOUS
<1>6. r \in RowType
  BY <1>5, MoneyBounds DEF Row, RowType, Methods
<1>7. /\ pays' \in Seq(RowType) /\ Len(pays') = Len(pays) + 1
      /\ \A j \in 1 .. Len(pays) : pays'[j] = closed[j]
  BY <1>2, <1>4, <1>5, <1>6, RowAdded
<1>8. trip' \in TripType /\ trip'.done = trip.done
  BY <1>2, PayFacts DEF TripType, Methods
<1>9. RowsTyped'
  <2>1. known \in [Orders -> 0 .. Len(pays) + 1]
    BY PayFacts
  <2> QED BY <1>2, <1>7, <1>8, <2>1, PayFacts, MoneyBounds DEF RowsTyped
<1>10. LateTyped'
  BY <1>2 DEF PayInv, LateTyped
<1>11. Explained(ledger)'
  BY <1>2, PlatformExplained DEF PayInv
<1>12. PlatformMoneyReachesDriver'
  BY <1>2, PlatformReaches DEF PlatformMoneyReachesDriver, Reached, PayInv
<1>13. \A j \in 1 .. Len(pays) : pays'[j].status # "completed"
  BY <1>3, <1>7, PayFacts
<1>14. OneCompletedPayment'
  BY <1>7, <1>13, PayFacts DEF OneCompletedPayment, Rows
<1>15. MoneyKept
  BY <1>7, <1>8, <1>9, <1>10, <1>11, <1>12, <1>14, PayFacts DEF MoneyKept
<1>16. JobsTyped' /\ GatewayTyped'
  BY <1>2, <1>15, GatewayLeft, KeptLength, JobsLeft
<1> QED BY <1>2, <1>15, <1>16, PayInvNext

\* A deferred settlement is retried.
LEMMA RetryTripStep ==
  ASSUME PayInv, retry_trip
  PROVE  PayInv'
<1>1. PICK l : /\ l = IF ledger.settled # "none" THEN ledger ELSE settle_or_defer(ledger, trip.method)
               /\ ledger' = [l EXCEPT !.alert = FALSE]
  BY DEF retry_trip
<1>2. ledger.alert /\ trip.done
  BY DEF retry_trip, PayInv, BeforeCompletion
<1>3. UNCHANGED <<trip, pays, known, issued, shown, captured, hooks, late, refunding, job>>
  BY DEF retry_trip
<1>4. Explained(l) /\ (Reached(ledger) => Reached(l))
  BY <1>1, SettleExplained, SettleKeepsReached DEF PayInv
<1>5. Explained(ledger)' /\ (Reached(ledger) => Reached(ledger'))
  BY <1>1, <1>4 DEF Explained, LedgerType, Reached
<1>6. RowsTyped' /\ LateTyped'
  BY <1>3 DEF PayInv, RowsTyped, LateTyped
<1>7. MoneyKept
  BY <1>3, <1>5, <1>6, PayFacts, NoneCompleted DEF Rows
<1>8. JobsTyped' /\ GatewayTyped'
  BY <1>3, <1>7, GatewayLeft, KeptLength, JobsLeft
<1> QED BY <1>2, <1>7, <1>8, PayInvNext

\* A request starts, or goes on, from the rows it reads; it writes none.
LEMMA ReadStep ==
  ASSUME PayInv, NEW h \in Handlers, NEW o \in Orders,
         create_order(h) \/ CreateRead(h) \/ VerifyUnpaid(h, o)
  PROVE  PayInv'
<1>1. UNCHANGED <<trip, pays, known, late, refunding, ledger, shown, captured, hooks>>
  BY DEF create_order, CreateRead, VerifyUnpaid
<1>2. MoneyKept
  BY <1>1, NothingOK
<1>3. Len(pays') >= Len(pays) /\ Len(pays') \in Nat /\ NoJob \in JobType
  BY <1>2, KeptLength, NoJobOK, PayFacts
<1>4. CASE create_order(h)
  <2>1. trip.done /\ issued < MaxOrders /\ issued' = issued + 1
    BY <1>4 DEF create_order
  <2>2. GatewayTyped' /\ issued' \in Nat /\ issued' >= issued
    BY <1>1, <2>1, MoneyBounds DEF PayInv, GatewayTyped
  <2>3. PICK j : j = [NoJob EXCEPT !.pc = "create_read", !.order = issued + 1]
    OBVIOUS
  <2>4. issued + 1 \in 0 .. MaxOrders /\ issued + 1 \in 1 .. issued'
    BY <2>1, PayFacts, MoneyBounds
  <2>5. j \in JobType /\ j.row = 0 /\ j.pc = "create_read" /\ j.order = issued + 1
    BY <1>3, <2>3, <2>4 DEF JobType, NoJob
  <2>6. JobFits(j, Len(pays'), issued')
    BY <1>3, <2>4, <2>5 DEF JobFits
  <2>7. job' = [job EXCEPT ![h] = j]
    BY <1>4, <2>3 DEF create_order, Start
  <2>8. JobsTyped'
    BY <1>3, <2>2, <2>5, <2>6, <2>7, JobMoves
  <2> QED BY <1>2, <2>1, <2>2, <2>8, PayInvNext
<1>5. CASE CreateRead(h)
  <2>1. job[h].pc = "create_read" /\ job[h] \in JobType /\ JobFits(job[h], Len(pays), issued)
    BY <1>5, PayFacts DEF CreateRead, PayInv, JobsTyped
  <2>2. issued' = issued /\ GatewayTyped' /\ issued' \in Nat /\ issued' >= issued
    BY <1>1, <1>5, GatewayLeft DEF CreateRead
  <2>3. PICK k : k = IF Len(pays) > 0 /\ pays[Len(pays)].status \in Unpaid \cup {"failed"}
                     THEN Len(pays) ELSE 0
    OBVIOUS
  <2>4. PICK c : c = IF Len(pays) > 0 /\ pays[Len(pays)].status \in Unpaid \cup {"failed"}
                     THEN pays[Len(pays)] ELSE job[h].copy
    OBVIOUS
  <2>5. c \in RowType
    BY <2>1, <2>4, PayFacts DEF JobType
  <2>6. k \in 0 .. MaxRows /\ k <= Len(pays)
    BY <2>3, PayFacts, MoneyBounds
  <2>7. PICK j : j = [job[h] EXCEPT !.pc = "create_save", !.row = k, !.copy = c]
    OBVIOUS
  <2>8. j \in JobType /\ j.row = k /\ j.pc = "create_save" /\ j.order = job[h].order
    BY <2>1, <2>5, <2>6, <2>7 DEF JobType
  <2>9. JobFits(j, Len(pays'), issued')
    BY <1>1, <2>1, <2>2, <2>6, <2>8 DEF JobFits
  <2>10. job' = [job EXCEPT ![h] = j]
    BY <1>5, <2>1, <2>3, <2>4, <2>7, PayFacts DEF CreateRead, JobType
  <2>11. JobsTyped'
    BY <1>3, <2>2, <2>8, <2>9, <2>10, JobMoves
  <2>12. trip.done
    BY <2>1, RowsAfterCompletion
  <2> QED BY <1>2, <2>2, <2>11, <2>12, PayInvNext
<1>6. CASE VerifyUnpaid(h, o)
  <2>1. PICK i : i = payment_for_order(o)
    OBVIOUS
  <2>2. i \in Rows
    BY <1>6, <2>1, OrderRow DEF VerifyUnpaid
  <2>3. issued' = issued /\ GatewayTyped' /\ issued' \in Nat /\ issued' >= issued
    BY <1>1, <1>6, GatewayLeft DEF VerifyUnpaid
  <2>4. PICK j : j = [NoJob EXCEPT !.pc = "verify_fail", !.row = i, !.copy = pays[i]]
    OBVIOUS
  <2>5. i \in 0 .. MaxRows /\ i # 0 /\ i <= Len(pays) /\ pays[i] \in RowType
    BY <2>2, PayFacts, MoneyBounds
  <2>6. j \in JobType /\ j.row = i /\ j.pc = "verify_fail"
    BY <1>3, <2>4, <2>5 DEF JobType
  <2>7. JobFits(j, Len(pays'), issued')
    BY <1>1, <2>5, <2>6 DEF JobFits
  <2>8. job' = [job EXCEPT ![h] = j]
    BY <1>6, <2>1, <2>4 DEF VerifyUnpaid, Start
  <2>9. JobsTyped'
    BY <1>3, <2>3, <2>6, <2>7, <2>8, JobMoves
  <2>10. trip.done
    BY <2>2, RowsAfterCompletion
  <2> QED BY <1>2, <2>3, <2>9, <2>10, PayInvNext
<1> QED BY <1>4, <1>5, <1>6

\* The poll at the gateway before a switch or a retry, whatever follows it.
LEMMA PollStep ==
  ASSUME PayInv, NEW h \in Handlers, NEW after \in JobType,
         JobFits(after, Len(pays), issued), trip.done,
         Poll(h, after), UNCHANGED <<issued, shown, captured, hooks>>
  PROVE  PayInv'
<1>1. PICK S : S = {j \in Rows : pays[j].status # "refunded"}
  OBVIOUS
<1>2. PICK i : i = Latest(S)
  OBVIOUS
<1>3. /\ \/ UNCHANGED <<trip, pays, known, late, refunding, ledger>>
         \/ i # 0 /\ FirstPaid(i) # 0 /\ capture_polled(i, FirstPaid(i))
      /\ job' = job \/ job' = [job EXCEPT ![h] = after]
  BY <1>1, <1>2 DEF Poll, Start
<1>4. MoneyKept
  <2>1. CASE UNCHANGED <<trip, pays, known, late, refunding, ledger>>
    BY <2>1, NothingOK
  <2>2. CASE i # 0 /\ FirstPaid(i) # 0 /\ capture_polled(i, FirstPaid(i))
    <3>1. i \in Rows
      BY <1>1, <1>2, <2>2, LatestRow
    <3>2. FirstPaid(i) \in Orders
      BY <2>2, PaidOrder
    <3> QED BY <2>2, <3>1, <3>2, CapturesOK
  <2> QED BY <1>3, <2>1, <2>2
<1>5. Len(pays') >= Len(pays) /\ Len(pays') \in Nat
  BY <1>4, KeptLength
<1>6. GatewayTyped' /\ issued' \in Nat /\ issued' >= issued
  BY GatewayLeft
<1>7. JobFits(after, Len(pays'), issued')
  <2>1. after.row \in Int /\ after.order \in Int
    BY DEF JobType
  <2> QED BY <1>5, <2>1, PayFacts DEF JobFits
<1>8. JobsTyped'
  BY <1>3, <1>5, <1>6, <1>7, JobsLeft, JobMoves
<1> QED BY <1>4, <1>6, <1>8, PayInvNext

\* switch_payment_method and retry_payment up to their poll.
LEMMA SwitchStep ==
  ASSUME PayInv, NEW h \in Handlers, NEW m \in {"cash", "online"},
         switch_payment_method(h, m) \/ retry_payment(h)
  PROVE  PayInv'
<1>1. NoJob \in JobType
  BY NoJobOK
<1>2. CASE switch_payment_method(h, m)
  <2>1. PICK j : j = [NoJob EXCEPT !.pc = "switch", !.row = Len(pays), !.method = m]
    OBVIOUS
  <2>2. Len(pays) \in 0 .. MaxRows /\ Len(pays) # 0
    BY <1>2, PayFacts, MoneyBounds DEF switch_payment_method
  <2>3. j \in JobType /\ j.pc = "switch" /\ j.row = Len(pays)
    BY <1>1, <2>1, <2>2 DEF JobType, Methods
  <2>4. JobFits(j, Len(pays), issued)
    BY <2>2, <2>3 DEF JobFits
  <2>5. trip.done /\ Poll(h, j) /\ UNCHANGED <<issued, shown, captured, hooks>>
    BY <1>2, <2>1 DEF switch_payment_method
  <2> QED BY <2>3, <2>4, <2>5, PollStep
<1>3. CASE retry_payment(h)
  <2>1. PICK S : S = {j \in Rows : pays[j].status = "failed"}
    OBVIOUS
  <2>2. PICK i : i = Latest(S)
    OBVIOUS
  <2>3. PICK j : j = [NoJob EXCEPT !.pc = "retry", !.row = i]
    OBVIOUS
  <2>4. i # 0 /\ Poll(h, j) /\ UNCHANGED <<issued, shown, captured, hooks>>
    BY <1>3, <2>1, <2>2, <2>3 DEF retry_payment
  <2>5. i \in Rows
    BY <2>1, <2>2, <2>4, LatestRow
  <2>6. i \in 0 .. MaxRows /\ i # 0 /\ i <= Len(pays)
    BY <2>5, PayFacts, MoneyBounds
  <2>7. j \in JobType /\ j.pc = "retry" /\ j.row = i
    BY <1>1, <2>3, <2>6 DEF JobType
  <2>8. JobFits(j, Len(pays), issued)
    BY <2>6, <2>7 DEF JobFits
  <2>9. trip.done
    BY <2>5, RowsAfterCompletion
  <2> QED BY <2>4, <2>7, <2>8, <2>9, PollStep
<1> QED BY <1>2, <1>3

\* A request that goes on finds its row; and the ride is completed.
LEMMA InHand ==
  ASSUME PayInv, NEW h \in Handlers, job[h].pc # "idle"
  PROVE  /\ trip.done /\ job[h] \in JobType
         /\ job[h].row \in 0 .. Len(pays) /\ job[h].copy \in RowType
         /\ job[h].pc \in {"verify_fail", "switch", "retry"} => job[h].row \in Rows
         /\ job[h].pc = "create_save" => job[h].order \in 1 .. issued /\ job[h].order \in Orders
<1>1. job[h] \in JobType /\ JobFits(job[h], Len(pays), issued) /\ issued \in 0 .. MaxOrders
  BY PayFacts DEF PayInv, JobsTyped, GatewayTyped
<1>2. job[h].row \in 0 .. Len(pays)
  BY <1>1, PayFacts, MoneyBounds DEF JobFits, JobType
<1>3. job[h].pc = "create_save" => job[h].order \in 1 .. issued /\ job[h].order \in Orders
  BY <1>1, MoneyBounds DEF JobFits, JobType, Orders
<1> QED BY <1>1, <1>2, <1>3, PayFacts, RowsAfterCompletion DEF JobFits, JobType

\* remember gives an order its row once.
LEMMA RememberOK ==
  ASSUME PayInv, NEW n \in Nat, n >= Len(pays), NEW i \in 1 .. n, NEW o \in Orders
  PROVE  /\ remember(i, o) \in [Orders -> 0 .. n]
         /\ \A p \in Orders : known[p] # 0 => remember(i, o)[p] # 0
BY PayFacts DEF remember

\* Row i is overwritten by one that is not completed.
LEMMA RowReopened ==
  ASSUME PayInv, NEW i \in Rows, NEW r \in RowType, r.status # "completed",
         pays' = [pays EXCEPT ![i] = r]
  PROVE  /\ pays' \in Seq(RowType) /\ Len(pays') = Len(pays) /\ DOMAIN pays' = Rows
         /\ \A k \in DOMAIN pays' : pays'[k].status = "completed" =>
              k \in Rows /\ pays[k].status = "completed" /\ pays'[k].method = pays[k].method
<1>1. /\ pays' \in Seq(RowType) /\ Len(pays') = Len(pays)
      /\ pays'[i] = r /\ \A j \in Rows \ {i} : pays'[j] = pays[j]
  BY PayFacts, RowWritten
<1>2. DOMAIN pays' = Rows
  BY <1>1, PayFacts
<1> QED BY <1>1, <1>2

\* create_order's save: the copy is written back, or a row added.
LEMMA SaveStep ==
  ASSUME PayInv, NEW h \in Handlers, CreateSave(h)
  PROVE  PayInv'
<1>1. job[h].pc = "create_save" /\ job[h].pc # "idle"
  BY DEF CreateSave
<1>2. PICK o : o = job[h].order
  OBVIOUS
<1>3. PICK i : i = job[h].row
  OBVIOUS
<1>4. trip.done /\ i \in 0 .. Len(pays) /\ o \in 1 .. issued /\ o \in Orders /\ job[h].copy \in RowType
      /\ o \in 0 .. MaxOrders
  BY <1>1, <1>2, <1>3, InHand, MoneyBounds DEF Orders
<1>5. /\ shown' = shown \cup {o} /\ Finish(h)
      /\ UNCHANGED <<trip, issued, captured, hooks, late, refunding, ledger>>
  BY <1>2 DEF CreateSave
<1>6. GatewayTyped' /\ issued' \in Nat /\ issued' >= issued
  BY <1>4, <1>5, PayFacts DEF PayInv, GatewayTyped
<1>7. Explained(ledger)' /\ trip'.done = trip.done /\ (Reached(ledger) => Reached(ledger'))
  BY <1>5 DEF PayInv
<1>8. /\ trip \in TripType /\ late \in [Orders -> LateType] /\ refunding \subseteq Orders
      /\ \A p \in refunding : known[p] # 0
  BY DEF PayInv, RowsTyped, LateTyped
<1>9. ASSUME pays' \in Seq(RowType), Len(pays') >= Len(pays), Len(pays') <= MaxRows,
             NEW k \in 1 .. Len(pays'), known' = remember(k, o),
             \A j \in DOMAIN pays' : pays'[j].status = "completed" =>
               j \in Rows /\ pays[j].status = "completed" /\ pays'[j].method = pays[j].method
      PROVE  PayInv'
  <2>0. Len(pays') \in Nat
    BY <1>9
  <2>1. /\ known' \in [Orders -> 0 .. Len(pays')]
        /\ \A p \in Orders : known[p] # 0 => known'[p] # 0
    BY <1>4, <1>9, <2>0, RememberOK
  <2>2. RowsTyped'
    BY <1>5, <1>8, <1>9, <2>1 DEF RowsTyped
  <2>3. LateTyped'
    BY <1>5, <1>8, <2>1 DEF LateTyped
  <2>4. MoneyKept
    BY <1>7, <1>9, <2>2, <2>3, NoneCompleted
  <2>5. JobsTyped'
    BY <1>5, <1>6, <1>9, <2>0, FinishOK
  <2> QED BY <1>4, <1>6, <2>4, <2>5, PayInvNext
<1>10. CASE /\ i # 0
            /\ pays' = [pays EXCEPT ![i] = [job[h].copy EXCEPT !.method = "online",
                                              !.status = "processing", !.order = o]]
            /\ known' = remember(i, o)
  <2>1. PICK r : r = [job[h].copy EXCEPT !.method = "online", !.status = "processing", !.order = o]
    OBVIOUS
  <2>2. r \in RowType /\ r.status # "completed"
    BY <1>4, <2>1 DEF RowType, Methods, Unpaid
  <2>3. i \in Rows
    BY <1>4, <1>10, PayFacts
  <2>4. /\ pays' \in Seq(RowType) /\ Len(pays') = Len(pays) /\ DOMAIN pays' = Rows
        /\ \A k \in DOMAIN pays' : pays'[k].status = "completed" =>
             k \in Rows /\ pays[k].status = "completed" /\ pays'[k].method = pays[k].method
    BY <1>10, <2>1, <2>2, <2>3, RowReopened
  <2>5. i \in 1 .. Len(pays') /\ Len(pays') >= Len(pays) /\ Len(pays') <= MaxRows
    BY <2>3, <2>4, PayFacts
  <2> QED BY <1>9, <1>10, <2>4, <2>5
<1>11. CASE /\ i = 0 /\ Len(pays) < MaxRows
            /\ pays' = Append(pays, Row("online", "processing", o))
            /\ known' = remember(Len(pays) + 1, o)
  <2>1. PICK r : r = Row("online", "processing", o)
    OBVIOUS
  <2>2. r \in RowType /\ r.status # "completed"
    BY <1>4, <2>1 DEF Row, RowType, Methods, Unpaid
  <2>3. /\ pays' \in Seq(RowType) /\ Len(pays') = Len(pays) + 1
        /\ pays'[Len(pays) + 1] = r /\ \A j \in 1 .. Len(pays) : pays'[j] = pays[j]
    BY <1>11, <2>1, <2>2, PayFacts, RowAdded
  <2>4. /\ Len(pays) + 1 \in 1 .. Len(pays') /\ Len(pays') >= Len(pays) /\ Len(pays') <= MaxRows
    BY <1>11, <2>3, PayFacts, MoneyBounds
  <2>5. \A k \in DOMAIN pays' : pays'[k].status = "completed" =>
             k \in Rows /\ pays[k].status = "completed" /\ pays'[k].method = pays[k].method
    BY <2>2, <2>3, PayFacts
  <2> QED BY <1>9, <1>11, <2>3, <2>4, <2>5
<1> QED BY <1>2, <1>3, <1>10, <1>11 DEF CreateSave

\* The verify endpoint's write of the failed row, and the commits of a retry and a switch.
LEMMA RewriteStep ==
  ASSUME PayInv, NEW h \in Handlers, VerifyFail(h) \/ RetryCommit(h) \/ SwitchCommit(h)
  PROVE  PayInv'
<1>1. job[h].pc \in {"verify_fail", "switch", "retry"} /\ job[h].pc # "idle"
  BY DEF VerifyFail, RetryCommit, SwitchCommit
<1>2. PICK i : i = job[h].row
  OBVIOUS
<1>3. trip.done /\ i \in Rows /\ job[h].copy \in RowType /\ job[h] \in JobType
  BY <1>1, <1>2, InHand
<1>4. UNCHANGED <<known, captured, hooks, late, refunding, ledger>> /\ Finish(h)
  BY DEF VerifyFail, RetryCommit, SwitchCommit
<1>5. Explained(ledger)' /\ LateTyped' /\ (Reached(ledger) => Reached(ledger'))
  BY <1>4 DEF PayInv, LateTyped
<1>6. ASSUME pays' \in Seq(RowType), Len(pays') >= Len(pays), Len(pays') <= MaxRows,
             trip' \in TripType, trip'.done = trip.done,
             GatewayTyped', issued' \in Nat, issued' >= issued,
             \A j \in DOMAIN pays' : pays'[j].status = "completed" =>
               j \in Rows /\ pays[j].status = "completed" /\ pays'[j].method = pays[j].method
      PROVE  PayInv'
  <2>1. Len(pays') \in Nat
    BY <1>6
  <2>2. known' \in [Orders -> 0 .. Len(pays')]
    BY <1>4, <1>6, <2>1, PayFacts
  <2>3. RowsTyped'
    BY <1>6, <2>2 DEF RowsTyped
  <2>4. MoneyKept
    BY <1>5, <1>6, <2>3, NoneCompleted
  <2>5. JobsTyped'
    BY <1>4, <1>6, <2>1, FinishOK
  <2> QED BY <1>3, <1>6, <2>4, <2>5, PayInvNext
<1>7. ASSUME UNCHANGED <<pays, trip, issued, shown>> PROVE PayInv'
  <2>1. GatewayTyped' /\ issued' \in Nat /\ issued' >= issued
    BY <1>4, <1>7, GatewayLeft
  <2>2. /\ pays' \in Seq(RowType) /\ Len(pays') >= Len(pays) /\ Len(pays') <= MaxRows
        /\ trip' \in TripType /\ trip'.done = trip.done /\ DOMAIN pays' = Rows
    BY <1>7, PayFacts DEF Rows
  <2> QED BY <1>6, <1>7, <2>1, <2>2
<1>8. ASSUME NEW o \in NewOrder \cup {0}, Opened(o)
      PROVE  GatewayTyped' /\ issued' \in Nat /\ issued' >= issued /\ o \in 0 .. MaxOrders
  <2>1. issued \in 0 .. MaxOrders /\ shown \subseteq 1 .. issued /\ captured \subseteq shown
        /\ hooks \subseteq captured /\ MaxOrders \in Nat
    BY MoneyBounds DEF PayInv, GatewayTyped
  <2>2. CASE o = 0
    BY <1>4, <1>8, <2>1, <2>2 DEF Opened, GatewayTyped
  <2>3. CASE o = issued + 1 /\ o <= MaxOrders
    <3>1. o # 0 /\ o \in 0 .. MaxOrders /\ issued' = o /\ shown' = shown \cup {o}
      BY <1>8, <2>1, <2>3 DEF Opened
    <3> QED BY <1>4, <2>1, <2>3, <3>1 DEF GatewayTyped
  <2> QED BY <1>8, <2>1, <2>2, <2>3 DEF NewOrder
<1>9. CASE VerifyFail(h)
  <2>1. PICK r : r = [job[h].copy EXCEPT !.status = "failed"]
    OBVIOUS
  <2>2. r \in RowType /\ r.status # "completed"
    BY <1>3, <2>1 DEF RowType
  <2>3. pays' = [pays EXCEPT ![i] = r] /\ UNCHANGED <<trip, issued, shown>>
    BY <1>2, <1>9, <2>1 DEF VerifyFail
  <2>4. /\ pays' \in Seq(RowType) /\ Len(pays') = Len(pays) /\ DOMAIN pays' = Rows
        /\ \A k \in DOMAIN pays' : pays'[k].status = "completed" =>
             k \in Rows /\ pays[k].status = "completed" /\ pays'[k].method = pays[k].method
    BY <1>3, <2>2, <2>3, RowReopened
  <2>5. GatewayTyped' /\ issued' \in Nat /\ issued' >= issued
    BY <1>4, <2>3, GatewayLeft
  <2>6. Len(pays') >= Len(pays) /\ Len(pays') <= MaxRows /\ trip' \in TripType /\ trip'.done = trip.done
    BY <2>3, <2>4, PayFacts
  <2> QED BY <1>6, <2>4, <2>5, <2>6
<1>10. CASE RetryCommit(h) /\ pays[i].status # "completed"
  <2>1. PICK o \in NewOrder :
          /\ pays' = [pays EXCEPT ![i].status = "processing", ![i].order = o]
          /\ Opened(o)
    BY <1>2, <1>10 DEF RetryCommit
  <2>2. GatewayTyped' /\ issued' \in Nat /\ issued' >= issued /\ o \in 0 .. MaxOrders
    BY <1>8, <2>1
  <2>3. PICK r : r = [pays[i] EXCEPT !.status = "processing", !.order = o]
    OBVIOUS
  <2>4. r \in RowType /\ r.status # "completed"
    BY <1>3, <2>2, <2>3, PayFacts DEF RowType, Unpaid
  <2>5. pays' = [pays EXCEPT ![i] = r]
    BY <1>3, <2>1, <2>3, PayFacts
  <2>6. /\ pays' \in Seq(RowType) /\ Len(pays') = Len(pays) /\ DOMAIN pays' = Rows
        /\ \A k \in DOMAIN pays' : pays'[k].status = "completed" =>
             k \in Rows /\ pays[k].status = "completed" /\ pays'[k].method = pays[k].method
    BY <1>3, <2>4, <2>5, RowReopened
  <2>7. trip' = [trip EXCEPT !.paid = "processing"]
    BY <1>2, <1>10 DEF RetryCommit
  <2>8. trip' \in TripType /\ trip'.done = trip.done
    BY <2>7, PayFacts DEF TripType, Unpaid
  <2>9. Len(pays') >= Len(pays) /\ Len(pays') <= MaxRows
    BY <2>6, PayFacts
  <2> QED BY <1>6, <2>2, <2>6, <2>8, <2>9
<1>11. CASE SwitchCommit(h) /\ pays[i].status # "completed"
  <2>1. PICK m : m = job[h].method
    OBVIOUS
  <2>2. PICK o \in NewOrder \cup {0} :
          /\ pays' = Append([pays EXCEPT ![i].status = "failed", ![i].replaced = TRUE],
                            Row(m, "pending", o))
          /\ Opened(o)
    BY <1>2, <1>11, <2>1 DEF SwitchCommit
  <2>3. GatewayTyped' /\ issued' \in Nat /\ issued' >= issued /\ o \in 0 .. MaxOrders
    BY <1>8, <2>2
  <2>4. Len(pays) < MaxRows /\ trip' = [trip EXCEPT !.method = m, !.paid = "pending"]
    BY <1>2, <1>11, <2>1 DEF SwitchCommit
  <2>5. m \in Methods
    BY <1>3, <2>1 DEF JobType
  <2>6. PICK r : r = Row(m, "pending", o)
    OBVIOUS
  <2>7. r \in RowType /\ r.status # "completed"
    BY <2>3, <2>5, <2>6 DEF Row, RowType, Unpaid
  <2>8. PICK q : q = [pays[i] EXCEPT !.status = "failed", !.replaced = TRUE]
    OBVIOUS
  <2>9. q \in RowType /\ q.status # "completed"
    BY <1>3, <2>8, PayFacts DEF RowType
  <2>10. PICK p : p = [pays EXCEPT ![i] = q]
    OBVIOUS
  <2>11. pays' = Append(p, r)
    BY <1>3, <2>2, <2>6, <2>8, <2>10, PayFacts
  <2>12. /\ p \in Seq(RowType) /\ Len(p) = Len(pays) /\ p[i] = q
         /\ \A j \in Rows \ {i} : p[j] = pays[j]
    BY <1>3, <2>9, <2>10, PayFacts
  <2>13. /\ pays' \in Seq(RowType) /\ Len(pays') = Len(p) + 1
         /\ pays'[Len(p) + 1] = r /\ \A j \in 1 .. Len(p) : pays'[j] = p[j]
    BY <2>7, <2>11, <2>12, RowAdded
  <2>14. \A k \in DOMAIN pays' : pays'[k].status = "completed" =>
             k \in Rows /\ pays[k].status = "completed" /\ pays'[k].method = pays[k].method
    BY <2>7, <2>9, <2>12, <2>13, PayFacts
  <2>15. trip' \in TripType /\ trip'.done = trip.done
    BY <2>4, <2>5, PayFacts DEF TripType, Unpaid
  <2>16. Len(pays') >= Len(pays) /\ Len(pays') <= MaxRows
    BY <2>4, <2>12, <2>13, PayFacts, MoneyBounds
  <2> QED BY <1>6, <2>3, <2>13, <2>14, <2>15, <2>16
<1>12. CASE (RetryCommit(h) \/ SwitchCommit(h)) /\ pays[i].status = "completed"
  BY <1>2, <1>7, <1>12 DEF RetryCommit, SwitchCommit
<1> QED BY <1>9, <1>10, <1>11, <1>12

\* Before the ride is completed nothing is paid, asked or settled.
LEMMA PayInvInit ==
  ASSUME Init
  PROVE  PayInv
<1>1. pays = <<>> /\ pays \in Seq(RowType) /\ Len(pays) = 0 /\ Rows = {}
  BY DEF Init, Rows
<1>2. trip \in TripType /\ MaxRows \in Nat /\ MaxOrders \in Nat
  <2>1. PICK m \in Methods : trip = [done |-> FALSE, method |-> m, paid |-> "pending"]
    BY DEF Init
  <2>2. trip \in TripType
    BY <2>1 DEF TripType, Unpaid
  <2> QED BY <2>2, MoneyBounds
<1>3. RowsTyped
  BY <1>1, <1>2 DEF Init, RowsTyped
<1>4. GatewayTyped
  BY <1>2 DEF Init, GatewayTyped
<1>5. LateTyped
  BY DEF Init, LateTyped, NotLate, LateType
<1>6. job = [h \in Handlers |-> NoJob] /\ issued = 0
  BY DEF Init
<1>7. NoJob \in JobType /\ JobFits(NoJob, Len(pays), issued)
  BY <1>1, <1>6, NoJobOK
<1>8. JobsTyped
  BY <1>6, <1>7 DEF JobsTyped
<1>9. BeforeCompletion
  BY <1>1, <1>6 DEF Init, BeforeCompletion, NoJob
<1>10. Explained(ledger)
  BY DEF Init, Explained, LedgerType
<1>11. OneCompletedPayment /\ PlatformMoneyReachesDriver
  BY <1>1 DEF OneCompletedPayment, PlatformMoneyReachesDriver
<1> QED BY <1>3, <1>4, <1>5, <1>8, <1>9, <1>10, <1>11 DEF PayInv

\* Every step preserves the invariant.
LEMMA PayInvStep ==
  ASSUME PayInv, [Next]_vars
  PROVE  PayInv'
<1>1. CASE create_payment_on_complete
  BY <1>1, CompletionStep
<1>2. CASE _confirm_cash_payment
  BY <1>2, CashStep
<1>3. CASE pay_trip
  BY <1>3, WalletStep
<1>4. CASE RuleApproved
  BY <1>4, GatewayStep
<1>5. CASE retry_trip
  BY <1>5, RetryTripStep
<1>6. CASE reconcile_stuck_payments
  <2>1. PICK i \in Rows : FirstPaid(i) # 0
    BY <1>6 DEF reconcile_stuck_payments
  <2>2. FirstPaid(i) \in Orders
    BY <2>1, PaidOrder
  <2> QED BY <1>6, <2>2, CaptureStep
<1>7. ASSUME NEW h \in Handlers, Request(h) PROVE PayInv'
  <2>1. CASE create_order(h)
    <3>1. issued + 1 \in Orders
      BY <2>1, PayFacts, MoneyBounds DEF create_order, Orders
    <3> QED BY <2>1, <3>1, ReadStep
  <2>2. CASE retry_payment(h)
    BY <2>2, SwitchStep
  <2>3. ASSUME NEW m \in {"cash", "online"}, switch_payment_method(h, m) PROVE PayInv'
    BY <2>3, SwitchStep
  <2>4. ASSUME NEW o \in Orders, VerifyUnpaid(h, o) PROVE PayInv'
    BY <2>4, ReadStep
  <2> QED BY <1>7, <2>1, <2>2, <2>3, <2>4 DEF Request
<1>8. ASSUME NEW h \in Handlers, Continue(h) PROVE PayInv'
  <2>1. CASE CreateRead(h)
    <3>1. JobFits(job[h], Len(pays), issued) /\ job[h].pc = "create_read" /\ issued \in 0 .. MaxOrders
      BY <2>1 DEF CreateRead, PayInv, JobsTyped, GatewayTyped
    <3>2. job[h].order \in Orders
      BY <3>1, MoneyBounds DEF JobFits, Orders
    <3> QED BY <2>1, <3>2, ReadStep
  <2>2. CASE CreateSave(h)
    BY <2>2, SaveStep
  <2>3. CASE VerifyFail(h) \/ SwitchCommit(h) \/ RetryCommit(h)
    BY <2>3, RewriteStep
  <2> QED BY <1>8, <2>1, <2>2, <2>3 DEF Continue
<1>9. ASSUME NEW o \in Orders,
             \/ RiderPays(o) \/ payment_webhook(o) \/ WebhookLost(o) \/ verify_payment(o)
             \/ refund(o) \/ RefundKilled(o)
      PROVE  PayInv'
  BY <1>9, GatewayStep, CaptureStep, RefundStep
<1>10. CASE UNCHANGED vars
  <2>1. RowsTyped' /\ GatewayTyped' /\ LateTyped' /\ JobsTyped' /\ BeforeCompletion'
    BY <1>10 DEF vars, PayInv, RowsTyped, GatewayTyped, LateTyped, JobsTyped, BeforeCompletion
  <2>2. Explained(ledger)' /\ OneCompletedPayment' /\ PlatformMoneyReachesDriver'
    BY <1>10 DEF vars, PayInv, OneCompletedPayment, PlatformMoneyReachesDriver, Rows
  <2> QED BY <2>1, <2>2 DEF PayInv
<1> QED
  BY <1>1, <1>2, <1>3, <1>4, <1>5, <1>6, <1>7, <1>8, <1>9, <1>10 DEF Next

\* The inductive invariant holds in every reachable state.
LEMMA PayInvAlways == Spec => []PayInv
<1>1. Init => PayInv
  BY PayInvInit
<1>2. PayInv /\ [Next]_vars => PayInv'
  BY PayInvStep
<1> QED BY <1>1, <1>2, PTL DEF Spec

\* Payment rows, orders, the ledger and the requests in hand keep their shapes: no
\* handler saves a row that is not there or refunds an order no row is known for.
THEOREM PaymentTypes == Spec => []PayTypeOK
<1>1. ASSUME PayInv PROVE PayTypeOK
  <2>1. /\ pays \in Seq(RowType) /\ Len(pays) <= MaxRows /\ \A i \in Rows : pays[i] \in RowType
        /\ job \in [Handlers -> JobType] /\ Len(pays) \in Nat
    BY <1>1, PayFacts
  <2>2. \A h \in Handlers : job[h].row \in 0 .. Len(pays) /\ job[h].copy \in RowType
    BY <1>1, <2>1 DEF PayInv, JobsTyped, JobFits, JobType
  <2>3. ledger \in LedgerType
    BY <1>1 DEF PayInv, Explained
  <2> QED
    BY <1>1, <2>1, <2>2, <2>3
       DEF PayTypeOK, PayInv, RowsTyped, GatewayTyped, LateTyped, TripType, LateType, LedgerType
<1> QED BY <1>1, PayInvAlways, PTL

\* Polls, webhooks, switches, retries, cash and wallet never leave a trip with two
\* completed Payment rows, with any number of requests served at once.
THEOREM OneCompletedAlways == Spec => []OneCompletedPayment
<1>1. PayInv => OneCompletedPayment
  BY DEF PayInv
<1> QED BY <1>1, PayInvAlways, PTL

\* Whenever a completed row says that the platform holds the fare, the driver's
\* settlement is the platform's or waits for a commission rule.
THEOREM PlatformMoneyAlways == Spec => []PlatformMoneyReachesDriver
<1>1. PayInv => PlatformMoneyReachesDriver
  BY DEF PayInv
<1> QED BY <1>1, PayInvAlways, PTL
=============================================================================
