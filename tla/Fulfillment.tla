---------------------------- MODULE Fulfillment ----------------------------
(***************************************************************************)
(* Razorpay checkout: orders, captured payments, and their fulfilment by   *)
(* the client's verify call and by Razorpay's webhook, which run the same  *)
(* code in different request threads (plans/views_payments.py,             *)
(* plans/views_razorpay_webhook.py, plans/razorpay_fulfillment.py,         *)
(* plans/razorpay_records.py, astrology/services/razorpay_pdf_orders.py).  *)
(*                                                                         *)
(* A request thread is a worker.  It advances one database statement or    *)
(* one database transaction at a time; anything may happen in between.     *)
(* The database commits each statement at once (no ATOMIC_REQUESTS) and    *)
(* select_for_update locks existing rows only: locking the result of a     *)
(* query that found nothing excludes nobody.                               *)
(*                                                                         *)
(* An order has at most one captured payment, of the order's amount, so    *)
(* the payment id is identified with the order id.                         *)
(***************************************************************************)
EXTENDS PlanRecords

CONSTANTS
  Users, Workers,
  Orders,         \* Razorpay order ids
  Purposes,       \* the checkouts members use
  Options,        \* the payment options members choose from
  Events,         \* the webhook events Razorpay is subscribed to send
  Products,       \* astrology PDF products
  CatalogPrice,   \* CatalogPrice[product], from the settings
  Losable,        \* orders whose row may fail to be read or saved after a payment
  Assigned,       \* users with a CustomerStaffAssignment (commission is due)
  Amounts,        \* amounts an administrator may enter
  InitialPrice, InitialCharge,
  MaxDay, MaxAdminEdits, MaxCrashes, MaxRemovals   \* bounds of the model

ASSUME FulfillmentAssumption ==
  /\ Purposes \subseteq {"plan_purchase", "service_charge", "astrology_pdf"}
  /\ Options \subseteq PaymentOptions
  /\ CatalogPrice \in [Products -> Nat]
  /\ Losable \subseteq Orders /\ Assigned \subseteq Users
  /\ Amounts \subseteq Nat
  /\ InitialPrice \in [Plans -> Nat] /\ InitialCharge \in Nat
  /\ {MaxDay, MaxAdminEdits, MaxCrashes, MaxRemovals} \subseteq Nat

VARIABLES
  price,        \* price[p]: plans_plan.price
  charge,       \* plans_service_charge.amount of the members' gender
  onSale,       \* plans that are active and published
  userPlan,     \* userPlan[u]: the member's plans_user_plan row
  ledger,       \* plans_transaction rows written by a fulfilment
  nextId,       \* the next primary key
  credits,      \* keys of transactions with an astrology_pdf_credit row
  commissions,  \* users whose plan row is referenced by an admin_commission row
  orders,       \* orders[o]: the order Razorpay keeps, with its notes
  orderRow,     \* orderRow[o]: status of the local plans_razorpay_order row
  captured,     \* orders whose payment Razorpay has captured
  deliveries,   \* webhook events Razorpay still has to deliver
  req,          \* req[w]: the request worker w is serving
  removing,     \* users whose plan removal has not reached the transactions
  today, edits, crashes, removals,
  overlapped,   \* history: orders two requests were fulfilling at once
  unsaved       \* history: orders whose event was answered 200 with its outcome lost

db == <<userPlan, ledger, credits, commissions>>
gateway == <<orders, captured>>
shop == <<price, charge, onSale, edits>>
faults == <<crashes, unsaved>>
vars == <<price, charge, onSale, userPlan, ledger, nextId, credits, commissions,
          orders, orderRow, captured, deliveries, req, removing, today,
          edits, crashes, removals, overlapped, unsaved>>

NoOrder == [purpose |-> "none"]

\* notes and amount (in paise) of an order; item is the plan or PDF product.
OrderNotes ==
  [user : Users, purpose : {"plan_purchase"}, item : Plans,
   option : PaymentOptions, amount : Nat]
  \cup
  [user : Users, purpose : {"service_charge"}, item : {"none"},
   option : {PlanOnly}, amount : Nat]
  \cup
  [user : Users, purpose : {"astrology_pdf"}, item : Products,
   option : {PlanOnly}, amount : Nat]

RowStatus == {"absent", "created", "paid", "skipped", "fulfilled"}

Transaction == [id : Nat, order : Orders, user : Users, amount : Nat]

\* What a request remembers between two database accesses.
Request ==
  [pc : {"fetch", "check", "terms", "lock", "write", "sync", "save"},
   kind : {"verify", "webhook"}, event : Events \cup {"none"}, order : Orders,
   expected : Nat,                      \* expected_paise
   price : Nat, charge : Nat,           \* the Plan and ServiceCharge objects read
   day : Nat,                           \* today, when the purchase began
   snap : UserPlanRow \cup {NoPlan},    \* the UserPlan object read
   locked : BOOLEAN,                    \* its row is locked by this request
   outcome : RowStatus,                 \* the order status to record
   seen : RowStatus]                    \* the order status read back

Idle == [pc |-> "idle"]

TypeOK ==
  /\ price \in [Plans -> Nat] /\ charge \in Nat /\ onSale \subseteq Plans
  /\ userPlan \in [Users -> UserPlanRow \cup {NoPlan}]
  /\ ledger \subseteq Transaction
  /\ credits \subseteq Nat
  /\ commissions \subseteq Users
  /\ orders \in [Orders -> OrderNotes \cup {NoOrder}]
  /\ orderRow \in [Orders -> RowStatus]
  /\ captured \subseteq Orders
  /\ deliveries \subseteq Orders \X Events
  /\ req \in [Workers -> Request \cup {Idle}]
  /\ removing \subseteq Users
  /\ {today, edits, crashes, nextId} \subseteq Nat /\ removals \in [Users -> Nat]
  /\ overlapped \subseteq Orders /\ unsaved \subseteq Orders

Init ==
  /\ price = InitialPrice /\ charge = InitialCharge /\ onSale = Plans
  /\ userPlan = [u \in Users |-> NoPlan]
  /\ ledger = {} /\ nextId = 0 /\ credits = {} /\ commissions = {}
  /\ orders = [o \in Orders |-> NoOrder]
  /\ orderRow = [o \in Orders |-> "absent"]
  /\ captured = {} /\ deliveries = {}
  /\ req = [w \in Workers |-> Idle]
  /\ removing = {}
  /\ today = 0 /\ edits = 0 /\ crashes = 0 /\ removals = [u \in Users |-> 0]
  /\ overlapped = {} /\ unsaved = {}

----------------------------------------------------------------------------
(* Reads. *)

\* Mutant: the lookup by payment id misses PDF purchases.
RecordedPlanOnly(o) == \E t \in ledger : t.order = o /\ t.id \notin credits

\* get_success_txn_by_payment_id finds a row
Recorded(o) == \E t \in ledger : t.order = o

Buyer(w) == orders[req[w].order].user

Purpose(w) == orders[req[w].order].purpose

\* Mutant: the row is read without select_for_update.
NeverLocked(u, w) == TRUE

\* activate_plan_purchase, in v, has locked the row of user u.
Holds(v, u) == req[v].pc = "write" /\ req[v].locked /\ Buyer(v) = u

Unlocked(u) == \A v \in Workers : ~ Holds(v, u)

\* The row of user u is not locked by another request than w.
LockFree(u, w) == \A v \in Workers \ {w} : ~ Holds(v, u)

\* Requests that have passed the idempotency check for o and not committed.
InFlight(o) ==
  {w \in Workers : req[w].pc \in {"terms", "lock", "write"} /\ req[w].order = o}

----------------------------------------------------------------------------
(* Checkout: the three order views.  create_razorpay_order persists a local  *)
(* row, but a failure to do so is logged and swallowed.                      *)

PlaceOrder(o, notes) ==
  /\ orders[o] = NoOrder
  /\ notes.amount > 0
  /\ orders' = [orders EXCEPT ![o] = notes]
  /\ \E row \in {"absent", "created"} : orderRow' = [orderRow EXCEPT ![o] = row]

PlanOrderView(o, u, p, option) ==
  /\ "plan_purchase" \in Purposes
  /\ p \in onSale
  /\ PlaceOrder(o, [user |-> u, purpose |-> "plan_purchase", item |-> p, option |-> option,
                    amount |-> inr_to_paise(PurchaseAmount(option, price[p], charge))])
  /\ UNCHANGED <<db, shop, nextId, captured, deliveries, req, removing, today,
                 faults, removals, overlapped>>

\* compute_service_charge_remaining stores the repair of a legacy row; its
\* UPDATE waits for whoever has locked the row.
StoreRepair(u) ==
  /\ Repaired(userPlan[u]) # userPlan[u] => Unlocked(u)
  /\ userPlan' = [userPlan EXCEPT ![u] = Repaired(@)]

HasActiveRow(u) == userPlan[u] # NoPlan /\ userPlan[u].is_active

ServiceChargeOrderView(o, u) ==
  /\ "service_charge" \in Purposes
  /\ HasActiveRow(u)
  /\ StoreRepair(u)
  /\ IF ChargeRemaining(userPlan[u]) > 0
     THEN PlaceOrder(o, [user |-> u, purpose |-> "service_charge", item |-> "none",
                         option |-> PlanOnly,
                         amount |-> inr_to_paise(ChargeRemaining(userPlan[u]))])
     ELSE UNCHANGED <<orders, orderRow>>
  /\ UNCHANGED <<ledger, credits, commissions, shop, nextId, captured, deliveries, req,
                 removing, today, faults, removals, overlapped>>

HasCredit(u, product) ==
  \E t \in ledger : t.id \in credits /\ t.user = u /\ orders[t.order].item = product

AstrologyPdfOrderView(o, u, product) ==
  /\ "astrology_pdf" \in Purposes
  /\ ~ HasCredit(u, product)
  /\ PlaceOrder(o, [user |-> u, purpose |-> "astrology_pdf", item |-> product,
                    option |-> PlanOnly, amount |-> inr_to_paise(CatalogPrice[product])])
  /\ UNCHANGED <<db, shop, nextId, captured, deliveries, req, removing, today,
                 faults, removals, overlapped>>

\* External: the member pays, Razorpay captures and queues its webhook events.
Capture(o) ==
  /\ orders[o] # NoOrder
  /\ o \notin captured
  /\ captured' = captured \cup {o}
  /\ deliveries' = deliveries \cup ({o} \X Events)
  /\ UNCHANGED <<db, shop, nextId, orders, orderRow, req, removing, today,
                 faults, removals, overlapped>>

----------------------------------------------------------------------------
(* Start of a request.                                                       *)

NewRequest(kind, event, o, pc, expected) ==
  [pc |-> pc, kind |-> kind, event |-> event, order |-> o, expected |-> expected,
   price |-> 0, charge |-> 0, day |-> 0, snap |-> NoPlan, locked |-> FALSE,
   outcome |-> "absent", seen |-> "absent"]

Serve(w, r) ==
  /\ req' = [req EXCEPT ![w] = r]
  /\ UNCHANGED <<shop, gateway, deliveries, removing, today, faults, removals>>

\* What the verify views do before they ask Razorpay: they compute the amount
\* the payment should have, and are done if its id is recorded already.
VerifyBegin(w, o) ==
  LET notes == orders[o]
      u == notes.user
      Expect(amount) ==
        IF Recorded(o) THEN Serve(w, Idle)
        ELSE Serve(w, NewRequest("verify", "none", o, "fetch", inr_to_paise(amount)))
  IN /\ req[w] = Idle
     /\ o \in captured
     /\ \/ /\ notes.purpose = "plan_purchase"
           /\ notes.item \in onSale
           /\ Expect(PurchaseAmount(notes.option, price[notes.item], charge))
           /\ UNCHANGED userPlan
        \/ /\ notes.purpose = "service_charge"
           /\ HasActiveRow(u)
           /\ StoreRepair(u)
           /\ IF ChargeRemaining(userPlan[u]) > 0
              THEN Expect(ChargeRemaining(userPlan[u])) ELSE Serve(w, Idle)
        \/ /\ notes.purpose = "astrology_pdf"
           /\ Expect(CatalogPrice[notes.item])
           /\ UNCHANGED userPlan
     /\ UNCHANGED <<ledger, credits, commissions, nextId, orderRow, overlapped>>

\* _verify_captured_payment and fetch_order: the call fails, or the amounts
\* differ, and the request ends; or fulfilment starts.
VerifyFetch(w) ==
  /\ req[w].pc = "fetch"
  /\ \/ Serve(w, Idle)
     \/ /\ orders[req[w].order].amount = req[w].expected
        /\ Serve(w, [req[w] EXCEPT !.pc = "check"])
  /\ UNCHANGED <<db, nextId, orderRow, overlapped>>

\* Mutant: the event is acknowledged before it is handled.
WebhookAcksFirst(w, o, e) ==
  /\ req[w] = Idle
  /\ <<o, e>> \in deliveries
  /\ deliveries' = deliveries \ {<<o, e>>}
  /\ req' = [req EXCEPT ![w] = NewRequest("webhook", e, o, "check", orders[o].amount)]
  /\ UNCHANGED <<shop, gateway, removing, today, faults, removals>>
  /\ UNCHANGED <<db, nextId, orderRow, overlapped>>

\* A delivery whose live fetch succeeds; a failed fetch answers 502 and
\* changes nothing.  Razorpay may deliver an event again at any time until it
\* has been answered with 200.
WebhookBegin(w, o, e) ==
  /\ req[w] = Idle
  /\ <<o, e>> \in deliveries
  /\ Serve(w, NewRequest("webhook", e, o, "check", orders[o].amount))
  /\ UNCHANGED <<db, nextId, orderRow, overlapped>>

----------------------------------------------------------------------------
(* Fulfilment.                                                               *)

GoTo(w, pc) == Serve(w, [req[w] EXCEPT !.pc = pc])

\* The impl has returned or raised: record the outcome on the order row next.
Finish(w, outcome) ==
  Serve(w, [req[w] EXCEPT !.pc = "sync", !.outcome = outcome, !.locked = FALSE])

\* History: another request is past the check for the same payment.
NoteOverlap(w) ==
  overlapped' = IF InFlight(req[w].order) # {}
                THEN overlapped \cup {req[w].order} ELSE overlapped

\* Mutant: the payment id is not looked up.
CheckWithoutLookup(w) ==
  LET o == req[w].order
      p == orders[o].item
      paise == inr_to_paise(PurchaseAmount(orders[o].option, price[p], charge))
  IN /\ req[w].pc = "check" /\ Purpose(w) = "plan_purchase"
     /\ IF paise = req[w].expected /\ paise = orders[o].amount
        THEN Serve(w, [req[w] EXCEPT !.pc = "terms", !.price = price[p]]) /\ NoteOverlap(w)
        ELSE Finish(w, "skipped") /\ UNCHANGED overlapped
     /\ UNCHANGED <<db, nextId, orderRow>>

\* Mutant: a result without a transaction counts as fulfilled.
CheckCountsMismatch(w) ==
  LET o == req[w].order
      p == orders[o].item
      paise == inr_to_paise(PurchaseAmount(orders[o].option, price[p], charge))
  IN /\ req[w].pc = "check" /\ Purpose(w) = "plan_purchase"
     /\ IF ~ Recorded(o) /\ paise = req[w].expected /\ paise = orders[o].amount
        THEN Serve(w, [req[w] EXCEPT !.pc = "terms", !.price = price[p]]) /\ NoteOverlap(w)
        ELSE Finish(w, "fulfilled") /\ UNCHANGED overlapped
     /\ UNCHANGED <<db, nextId, orderRow>>

\* _fulfill_plan_purchase_impl up to activate_plan_purchase
CheckPlanPurchase(w) ==
  LET o == req[w].order
      p == orders[o].item
      paise == inr_to_paise(PurchaseAmount(orders[o].option, price[p], charge))
  IN /\ req[w].pc = "check" /\ Purpose(w) = "plan_purchase"
     /\ \/ /\ Recorded(o)
           /\ Finish(w, "fulfilled")
           /\ UNCHANGED overlapped
        \/ /\ ~ Recorded(o)
           /\ paise # req[w].expected \/ paise # orders[o].amount
           /\ Finish(w, "skipped")
           /\ UNCHANGED overlapped
        \/ /\ ~ Recorded(o)
           /\ paise = req[w].expected /\ paise = orders[o].amount
           /\ Serve(w, [req[w] EXCEPT !.pc = "terms", !.price = price[p]])
           /\ NoteOverlap(w)
     /\ UNCHANGED <<db, nextId, orderRow>>

\* activate_plan_purchase computes the amounts a second time: the service
\* charge is queried again, the price is that of the Plan object at hand.
ReadPurchaseTerms(w) ==
  /\ req[w].pc = "terms" /\ Purpose(w) = "plan_purchase"
  /\ Serve(w, [req[w] EXCEPT !.pc = "lock", !.charge = charge, !.day = today])
  /\ UNCHANGED <<db, nextId, orderRow, overlapped>>

\* It opens its transaction and reads the member's row
\* with select_for_update.
LockUserPlan(w) ==
  /\ req[w].pc = "lock" /\ Purpose(w) = "plan_purchase"
  /\ userPlan[Buyer(w)] # NoPlan => LockFree(Buyer(w), w)
  /\ Serve(w, [req[w] EXCEPT !.pc = "write", !.snap = userPlan[Buyer(w)],
                             !.locked = (userPlan[Buyer(w)] # NoPlan)])
  /\ UNCHANGED <<db, nextId, orderRow, overlapped>>

\* Transaction.objects.create, with the commission its post_save signal adds.
RecordTransaction(w, amount) ==
  /\ ledger' = ledger \cup {[id |-> nextId, order |-> req[w].order,
                             user |-> Buyer(w), amount |-> amount]}
  /\ nextId' = nextId + 1

DueCommission(w) ==
  commissions' = IF Buyer(w) \in Assigned THEN commissions \cup {Buyer(w)} ELSE commissions

\* update_or_create keeps the key of the row it finds now, creates one otherwise.
RowKey(u) == IF userPlan[u] = NoPlan THEN nextId ELSE userPlan[u].pk

\* Mutant: the price is read again when the purchase is recorded.
ActivateAtNewPrice(w) ==
  LET o == req[w].order
      u == Buyer(w)
      r == req[w]
  IN /\ r.pc = "write" /\ Purpose(w) = "plan_purchase"
     /\ LockFree(u, w)
     /\ userPlan' = [userPlan EXCEPT ![u] =
          Activated(r.snap, RowKey(u), orders[o].item, orders[o].option,
                    price[orders[o].item], r.charge, r.day)]
     /\ RecordTransaction(w, PurchaseAmount(orders[o].option, price[orders[o].item], r.charge))
     /\ DueCommission(w)
     /\ Finish(w, "fulfilled")
     /\ UNCHANGED <<credits, orderRow, overlapped>>

\* The rest of the transaction: update_or_create (which waits for the row),
\* the ledger row, commit.
ActivatePlan(w) ==
  LET o == req[w].order
      u == Buyer(w)
      r == req[w]
  IN /\ r.pc = "write" /\ Purpose(w) = "plan_purchase"
     /\ LockFree(u, w)
     /\ userPlan' = [userPlan EXCEPT ![u] =
          Activated(r.snap, RowKey(u), orders[o].item, orders[o].option,
                    r.price, r.charge, r.day)]
     /\ RecordTransaction(w, PurchaseAmount(orders[o].option, r.price, r.charge))
     /\ DueCommission(w)
     /\ Finish(w, "fulfilled")
     /\ UNCHANGED <<credits, orderRow, overlapped>>

\* compute_service_charge_remaining, for a row that is active: nothing remains
\* and the request is skipped, or Continue.
WithRemaining(w, Continue) ==
  LET u == Buyer(w)
  IN /\ HasActiveRow(u)
     /\ StoreRepair(u)
     /\ \/ ChargeRemaining(userPlan[u]) <= 0 /\ Finish(w, "skipped") /\ UNCHANGED overlapped
        \/ ChargeRemaining(userPlan[u]) > 0 /\ Continue

\* _fulfill_service_charge_impl up to pay_remaining_service_charge.  A payment
\* of the order's amount is accepted whatever remains.
CheckServiceCharge(w) ==
  LET o == req[w].order
  IN /\ req[w].pc = "check" /\ Purpose(w) = "service_charge"
     /\ \/ /\ Recorded(o)
           /\ Finish(w, "fulfilled")
           /\ UNCHANGED <<userPlan, overlapped>>
        \/ /\ ~ Recorded(o) /\ ~ HasActiveRow(Buyer(w))
           /\ Finish(w, "skipped")
           /\ UNCHANGED <<userPlan, overlapped>>
        \/ /\ ~ Recorded(o)
           /\ WithRemaining(w, GoTo(w, "terms") /\ NoteOverlap(w))
     /\ UNCHANGED <<ledger, credits, commissions, nextId, orderRow>>

\* An unexpected exception: only the webhook turns it into an order status.
Fail(w) == IF req[w].kind = "webhook" THEN Finish(w, "paid") ELSE Serve(w, Idle)

\* pay_remaining_service_charge up to its transaction reads the row once more;
\* without an active one it raises DoesNotExist, which nobody expects here.
ReadServiceCharge(w) ==
  /\ req[w].pc = "terms" /\ Purpose(w) = "service_charge"
  /\ \/ ~ HasActiveRow(Buyer(w)) /\ Fail(w) /\ UNCHANGED <<userPlan, overlapped>>
     \/ WithRemaining(w, /\ Serve(w, [req[w] EXCEPT !.pc = "lock",
                                        !.snap = Repaired(userPlan[Buyer(w)])])
                         /\ UNCHANGED overlapped)
  /\ UNCHANGED <<ledger, credits, commissions, nextId, orderRow>>

\* The transaction of pay_remaining_service_charge.  It locks the row by the
\* key read earlier and fails if that row is gone.
PayRemaining(w) ==
  LET u == Buyer(w)
      row == userPlan[u]
      snap == req[w].snap
  IN /\ req[w].pc = "lock" /\ Purpose(w) = "service_charge"
     /\ LockFree(u, w)
     /\ \/ /\ row.pk # snap.pk
           /\ Fail(w)
           /\ UNCHANGED <<userPlan, ledger, commissions, nextId>>
        \/ /\ row.pk = snap.pk /\ ChargeRemaining(row) <= 0
           /\ userPlan' = [userPlan EXCEPT ![u] = Repaired(row)]
           /\ Finish(w, "skipped")
           /\ UNCHANGED <<ledger, commissions, nextId>>
        \/ /\ row.pk = snap.pk /\ ChargeRemaining(row) > 0
           /\ userPlan' = [userPlan EXCEPT ![u].service_charge_paid = snap.service_charge]
           /\ RecordTransaction(w, ChargeRemaining(row))
           /\ DueCommission(w)
           /\ Finish(w, "fulfilled")
     /\ UNCHANGED <<credits, orderRow, overlapped>>

\* _fulfill_pdf_payment_impl up to its transaction
CheckPdf(w) ==
  LET o == req[w].order
  IN /\ req[w].pc = "check" /\ Purpose(w) = "astrology_pdf"
     /\ \/ /\ inr_to_paise(CatalogPrice[orders[o].item]) # req[w].expected
           /\ Finish(w, "skipped")
           /\ UNCHANGED overlapped
        \/ /\ inr_to_paise(CatalogPrice[orders[o].item]) = req[w].expected
           /\ IF Recorded(o)
              THEN Finish(w, "fulfilled") /\ UNCHANGED overlapped
              ELSE GoTo(w, "lock") /\ NoteOverlap(w)
     /\ UNCHANGED <<db, nextId, orderRow>>

\* Transaction.objects.select_for_update().filter(transaction_id=payment_id)
LockPdf(w) ==
  /\ req[w].pc = "lock" /\ Purpose(w) = "astrology_pdf"
  /\ IF Recorded(req[w].order) THEN Finish(w, "fulfilled") ELSE GoTo(w, "write")
  /\ UNCHANGED <<db, nextId, orderRow, overlapped>>

\* The transaction and its credit, committed together.
GrantPdf(w) ==
  /\ req[w].pc = "write" /\ Purpose(w) = "astrology_pdf"
  /\ RecordTransaction(w, CatalogPrice[orders[req[w].order].item])
  /\ credits' = credits \cup {nextId}
  /\ Finish(w, "fulfilled")
  /\ UNCHANGED <<userPlan, commissions, orderRow, overlapped>>

----------------------------------------------------------------------------
(* record_order_outcome: the order row is read, then its changed columns     *)
(* are saved, in two statements.                                             *)

Rank(s) == IF s = "fulfilled" THEN 2 ELSE IF s \in {"paid", "skipped"} THEN 1 ELSE 0

\* _apply_status, for the row object in memory
Applies(seen, new) ==
  seen # "fulfilled" /\ (new = "fulfilled" \/ Rank(new) >= Rank(seen))

ReadOrderRow(w) ==
  /\ req[w].pc = "sync"
  /\ Serve(w, [req[w] EXCEPT !.pc = "save", !.seen = orderRow[req[w].order]])
  /\ UNCHANGED <<db, nextId, orderRow, overlapped>>

\* Mutant: an order row that was not persisted at checkout is not inserted.
SavedIfPresent(seen, now, new) ==
  IF seen # "absent" /\ Applies(seen, new) THEN new ELSE now

\* A missing row is inserted; if another request has inserted it meanwhile the
\* unique key rejects it and the error is swallowed.
SavedStatus(seen, now, new) ==
  IF seen = "absent" THEN (IF now = "absent" THEN new ELSE now)
  ELSE IF Applies(seen, new) THEN new ELSE now

\* The webhook answers 200 unless an unexpected exception was recorded as
\* "paid" (500); Razorpay then keeps the event.
Acknowledges(r) == r.kind = "webhook" /\ r.outcome # "paid"

Answer(w) ==
  /\ req' = [req EXCEPT ![w] = Idle]
  /\ deliveries' = IF Acknowledges(req[w])
                   THEN deliveries \ {<<req[w].order, req[w].event>>} ELSE deliveries

SaveOrderRow(w) ==
  LET r == req[w]
  IN /\ r.pc = "save"
     /\ orderRow' = [orderRow EXCEPT ![r.order] = SavedStatus(r.seen, @, r.outcome)]
     /\ Answer(w)
     /\ UNCHANGED <<db, shop, nextId, gateway, removing, today, faults, removals, overlapped>>

Settled(o) == orderRow[o] \in {"skipped", "fulfilled"}

\* The row's read or its save raises: record_order_outcome logs that and returns
\* None, which nobody looks at, so the answer is the same.  History: an event is
\* acknowledged that has not settled its order.
LoseOrderRow(w) ==
  /\ req[w].pc \in {"sync", "save"}
  /\ req[w].order \in Losable
  /\ Answer(w)
  /\ unsaved' = IF Acknowledges(req[w]) /\ ~ Settled(req[w].order)
                THEN unsaved \cup {req[w].order} ELSE unsaved
  /\ UNCHANGED <<db, shop, nextId, gateway, orderRow, removing, today, crashes, removals,
                 overlapped>>

----------------------------------------------------------------------------
(* Everything else that happens around a fulfilment.                         *)

\* A worker process dies; its open database transaction is rolled back.
Crash(w) ==
  /\ req[w] # Idle
  /\ crashes < MaxCrashes
  /\ crashes' = crashes + 1
  /\ req' = [req EXCEPT ![w] = Idle]
  /\ UNCHANGED <<db, shop, nextId, gateway, orderRow, deliveries, removing, today,
                 removals, overlapped, unsaved>>

\* MyPlanView.delete, first statement.  A commission protects the row, and the
\* request then fails without a change.
RemoveUserPlan(u) ==
  /\ removals[u] < MaxRemovals
  /\ u \notin removing
  /\ userPlan[u] # NoPlan => u \notin commissions /\ Unlocked(u)
  /\ userPlan' = [userPlan EXCEPT ![u] = NoPlan]
  /\ removals' = [removals EXCEPT ![u] = @ + 1]
  /\ removing' = removing \cup {u}
  /\ UNCHANGED <<ledger, credits, commissions, shop, nextId, gateway, orderRow, deliveries,
                 req, today, faults, overlapped>>

\* MyPlanView.delete, second statement: all of the member's transactions, or,
\* when a PDF credit protects one of them, none (ProtectedError).
RemoveTransactions(u) ==
  LET own == {t \in ledger : t.user = u}
  IN /\ u \in removing
     /\ removing' = removing \ {u}
     /\ ledger' = IF \E t \in own : t.id \in credits THEN ledger ELSE ledger \ own
     /\ UNCHANGED <<userPlan, credits, commissions, shop, nextId, gateway, orderRow,
                    deliveries, req, today, faults, removals, overlapped>>

\* An administrator edits a price, the service charge, a plan's visibility or a
\* member's subscription.
AdminEdit ==
  /\ edits < MaxAdminEdits
  /\ edits' = edits + 1
  /\ \/ \E p \in Plans, a \in Amounts :
          /\ price' = [price EXCEPT ![p] = a]
          /\ UNCHANGED <<charge, onSale, userPlan>>
     \/ \E a \in Amounts :
          /\ charge' = a
          /\ UNCHANGED <<price, onSale, userPlan>>
     \/ \E p \in onSale :
          /\ onSale' = onSale \ {p}
          /\ UNCHANGED <<price, charge, userPlan>>
     \/ \E u \in Users :
          /\ userPlan[u] # NoPlan /\ Unlocked(u)
          /\ userPlan' = [userPlan EXCEPT ![u].is_active = FALSE]
          /\ UNCHANGED <<price, charge, onSale>>
  /\ UNCHANGED <<ledger, credits, commissions, nextId, gateway, orderRow, deliveries,
                 req, removing, today, faults, removals, overlapped>>

NextDay ==
  /\ today < MaxDay
  /\ today' = today + 1
  /\ UNCHANGED <<db, shop, nextId, gateway, orderRow, deliveries, req, removing,
                 faults, removals, overlapped>>

----------------------------------------------------------------------------
Checkout ==
  \E o \in Orders, u \in Users :
    \/ \E p \in Plans, option \in Options : PlanOrderView(o, u, p, option)
    \/ ServiceChargeOrderView(o, u)
    \/ \E product \in Products : AstrologyPdfOrderView(o, u, product)

\* A request that has been accepted runs to its end.
Progress(w) ==
  \/ VerifyFetch(w)
  \/ CheckPlanPurchase(w) \/ ReadPurchaseTerms(w) \/ LockUserPlan(w) \/ ActivatePlan(w)
  \/ CheckServiceCharge(w) \/ ReadServiceCharge(w) \/ PayRemaining(w)
  \/ CheckPdf(w) \/ LockPdf(w) \/ GrantPdf(w)
  \/ ReadOrderRow(w) \/ SaveOrderRow(w) \/ LoseOrderRow(w)

Next ==
  \/ Checkout
  \/ \E o \in Orders : Capture(o)
  \/ \E w \in Workers, o \in Orders : VerifyBegin(w, o)
  \/ \E w \in Workers, o \in Orders, e \in Events : WebhookBegin(w, o, e)
  \/ \E w \in Workers : Progress(w)
  \/ \E w \in Workers : Crash(w)
  \/ \E u \in Users : RemoveUserPlan(u) \/ RemoveTransactions(u)
  \/ AdminEdit
  \/ NextDay

Spec == Init /\ [][Next]_vars

\* A server thread that runs is scheduled again, and an event that Razorpay
\* keeps redelivering is accepted at some point (its request waits in the
\* server's queue).
Fairness ==
  /\ \A w \in Workers : WF_vars(Progress(w))
  /\ \A o \in Orders, e \in Events : SF_vars(\E w \in Workers : WebhookBegin(w, o, e))

LiveSpec == Spec /\ Fairness

----------------------------------------------------------------------------
(* Properties.                                                               *)

\* A captured payment is recorded by at most one transaction, unless two
\* requests were between the idempotency check (get_success_txn_by_payment_id)
\* and their commit for that payment at the same time.
AtMostOnceUnlessOverlap ==
  \A t1, t2 \in ledger :
    (t1.order = t2.order /\ t1.order \notin overlapped) => t1 = t2

\* Whatever administrators do to prices meanwhile, a plan_only purchase is
\* recorded for exactly the amount that was captured: the amount is compared
\* once and recomputed later, from the same Plan object.
PlanOnlyAmountExact ==
  \A t \in ledger :
    (orders[t.order].purpose = "plan_purchase" /\ orders[t.order].option = PlanOnly)
      => inr_to_paise(t.amount) = orders[t.order].amount

\* A webhook event that has been acknowledged leaves a trace on the local order
\* row, a missing row included, or record_order_outcome has swallowed a failure
\* of that very read or save: nothing else (crash, removal, another request on
\* the row) loses the payment from the administrators' view.
AcknowledgedIsNoted ==
  \A o \in captured \ unsaved, e \in Events :
    <<o, e>> \notin deliveries => orderRow[o] \notin {"absent", "created"}

\* An order shown as fulfilled has a transaction, unless its member has removed
\* a plan purchase since (which deletes transactions but not order statuses).
FulfilledHasTransaction ==
  \A o \in Orders :
    orderRow[o] = "fulfilled" => Recorded(o) \/ removals[orders[o].user] > 0

\* While activate_plan_purchase holds the lock on a member's row, the row it
\* read is the row in the table: no other path (service charge, removal,
\* repair, administrator, a purchase that found no row) changes it.
LockedSnapshotIsCurrent ==
  \A w \in Workers :
    (req[w].pc = "write" /\ req[w].locked) => userPlan[Buyer(w)] = req[w].snap

\* A purchase made under the row lock by a member with an active plan adds its
\* days and carries the unused quota forward; nothing paid for before is lost.
LockedPurchaseAddsUp ==
  [][\A w \in Workers :
       LET u == Buyer(w)
       IN (req[w].pc = "write" /\ req[w].locked /\ req'[w].pc = "sync"
             /\ CurrentlyActive(userPlan[u], req[w].day))
          => /\ userPlan'[u].valid_until
                  = userPlan[u].valid_until + Duration[orders[req[w].order].item]
             /\ \A q \in Quotas :
                  Metered(userPlan[u].plan, q) =>
                    EffectiveLimit(userPlan'[u], q) - userPlan'[u].used[q]
                      >= EffectiveLimit(userPlan[u], q) - userPlan[u].used[q]]_vars

\* Every captured payment is eventually settled on its order row, whether or not
\* the client ever calls verify and however workers crash, unless its event was
\* answered 200 over a failed save, after which it is not delivered again.
CapturedSettles ==
  \A o \in Orders : o \in captured ~> Settled(o) \/ o \in unsaved

----------------------------------------------------------------------------
(* The promise of module Settlement, which forgets requests, plans and       *)
(* notes, and keeps payments, transactions and what the order list shows.    *)

Left == {o \in Orders : orders[o] # NoOrder /\ removals[orders[o].user] > 0}

Shown ==
  [o \in Orders |-> IF orderRow[o] \in {"absent", "created"} THEN "open" ELSE orderRow[o]]

Books == INSTANCE Settlement
  WITH Payments <- Orders, Outcomes <- {"paid", "skipped", "fulfilled"},
       paid <- captured, entries <- ledger, contested <- overlapped,
       left <- Left, shown <- Shown

\* However verify calls, webhook deliveries, redeliveries, crashes and plan removals
\* interleave, each step does to payments, transactions and the order list what
\* Settlement allows, or nothing (razorpay_fulfillment.py, razorpay_records.py).
BooksKept == Books!Spec

----------------------------------------------------------------------------
(* What the repository says of itself and the code does not guarantee.       *)

\* "Idempotent on Transaction.transaction_id == razorpay payment id."
Idempotent ==
  \A t1, t2 \in ledger : t1.order = t2.order => t1 = t2

\* "Update or stub a local RazorpayOrder after capture / fulfillment.": once an
\* event has been acknowledged, the order list shows what became of its payment.
AcknowledgedLeavesTrace ==
  \A o \in captured, e \in Events :
    <<o, e>> \notin deliveries => orderRow[o] \notin {"absent", "created"}

\* "Razorpay webhook: fulfill captured payments when client verify is missed."
WebhookFulfills ==
  \A o \in Orders : o \in captured ~> Recorded(o)

\* "activate_plan_purchase remains authoritative (row lock)": a purchase by a
\* member whose plan is active adds its days to that plan.
RowLockSerialisesPurchases ==
  [][\A w \in Workers :
       LET u == Buyer(w)
       IN (req[w].pc = "write" /\ req'[w].pc = "sync"
             /\ Purpose(w) = "plan_purchase" /\ CurrentlyActive(userPlan[u], today))
          => userPlan'[u].valid_until
               = userPlan[u].valid_until + Duration[orders[req[w].order].item]]_vars

\* "Removes your plan purchase (UserPlan + your plan transactions)."
RemovalRemovesTransactions ==
  [][\A u \in Users :
       (u \in removing /\ u \notin removing')
         => \A t \in ledger' :
              t.user = u => orders[t.order].purpose = "astrology_pdf"]_vars

=============================================================================
