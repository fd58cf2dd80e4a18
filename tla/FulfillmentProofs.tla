------------------------- MODULE FulfillmentProofs -------------------------
(***************************************************************************)
(* Proofs about Fulfillment, for every number of members, plans, orders    *)
(* and request threads: its types, at most one recording of a payment, the *)
(* row lock and the amount, and that Fulfillment implements Settlement.    *)
(***************************************************************************)
EXTENDS Fulfillment, TLAPS

----------------------------------------------------------------------------
(* What the rules of PlanRecords return, for every plan, limit and price.    *)

LEMMA AmountsTyped ==
  ASSUME NEW option, NEW a \in Nat, NEW c \in Nat
  PROVE  /\ PurchaseAmount(option, a, c) \in Nat
         /\ ChargePaidAfter(option, a, c) \in Nat
         /\ inr_to_paise(a) \in Nat
  BY DEF PurchaseAmount, ChargePaidAfter, Max0, inr_to_paise

LEMMA RemainingTyped ==
  ASSUME NEW up \in UserPlanRow, NEW q \in Quotas
  PROVE  Remaining(up, q) \in Nat
  BY PlanAssumption DEF Remaining, EffectiveLimit, Max0, UserPlanRow

\* A stored repair is a row, with the key and the terms of the repaired one.
LEMMA RepairedTyped ==
  ASSUME NEW up \in UserPlanRow
  PROVE  /\ EffectivePaid(up) \in Nat
         /\ Repaired(up) \in UserPlanRow
         /\ ChargeRemaining(up) \in Int
  BY DEF EffectivePaid, Repaired, ChargeRemaining, UserPlanRow

LEMMA NoPlanIsNoRow == NoPlan \notin UserPlanRow
  BY DEF NoPlan, UserPlanRow

LEMMA ActivatedTyped ==
  ASSUME NEW any \in UserPlanRow \cup {NoPlan}, NEW pk \in Nat, NEW p \in Plans,
         NEW option, NEW a \in Nat, NEW c \in Nat, NEW d \in Nat
  PROVE  Activated(any, pk, p, option, a, c, d) \in UserPlanRow
<1> DEFINE active == CurrentlyActive(any, d)
           renewal == active /\ any.plan = p
           new == Activated(any, pk, p, option, a, c, d)
<1>1. active => any \in UserPlanRow
  BY DEF CurrentlyActive
<1>2. (IF active THEN any.valid_until ELSE d) + Duration[p] \in Nat
  BY <1>1, PlanAssumption DEF UserPlanRow
<1>3. (IF renewal /\ any.service_charge # 0 THEN any.service_charge ELSE c) \in Nat
  BY <1>1 DEF UserPlanRow
<1>4. (IF renewal THEN EffectivePaid(any) ELSE ChargePaidAfter(option, a, c)) \in Nat
  BY <1>1, RepairedTyped, AmountsTyped
<1>5. [q \in Quotas |-> IF active THEN Remaining(any, q) ELSE 0] \in [Quotas -> Nat]
  BY <1>1, RemainingTyped
<1>6. [q \in Quotas |-> 0] \in [Quotas -> Nat]
  OBVIOUS
<1> QED
  BY <1>2, <1>3, <1>4, <1>5, <1>6 DEF Activated, UserPlanRow

LEMMA PlanOnlyPays ==
  ASSUME NEW a, NEW c
  PROVE  PurchaseAmount(PlanOnly, a, c) = a
  BY DEF PurchaseAmount, PlanOnly, Full

----------------------------------------------------------------------------
(* A purchase by a member whose plan is active.                              *)

LEMMA RowsDiffer == \A up \in UserPlanRow \cup {NoPlan} : up # NoPlan => up \in UserPlanRow
  OBVIOUS

LEMMA ActivatedAddsUp ==
  ASSUME NEW up \in UserPlanRow, NEW pk, NEW p \in Plans, NEW option, NEW a, NEW c, NEW d,
         CurrentlyActive(up, d), NEW new, new = Activated(up, pk, p, option, a, c, d)
  PROVE  /\ new.valid_until = up.valid_until + Duration[p]
         /\ \A q \in Quotas : Metered(up.plan, q) =>
              EffectiveLimit(new, q) - new.used[q] >= EffectiveLimit(up, q) - up.used[q]
<1>1. /\ new.plan = p /\ new.valid_until = up.valid_until + Duration[p]
      /\ new.used = [q \in Quotas |-> 0]
      /\ new.bonus = [q \in Quotas |-> Remaining(up, q)]
  BY DEF Activated
<1>2. ASSUME NEW q \in Quotas, Metered(up.plan, q)
      PROVE  EffectiveLimit(new, q) - new.used[q] >= EffectiveLimit(up, q) - up.used[q]
  <2> DEFINE left == EffectiveLimit(up, q) - up.used[q]
  <2>1. left \in Int /\ Limit[p][q] \in Nat
    BY PlanAssumption DEF EffectiveLimit, UserPlanRow
  <2>2. Remaining(up, q) = Max0(left)
    BY <1>2 DEF Remaining
  <2> HIDE DEF left
  <2>3. new.used[q] = 0 /\ new.bonus[q] = Max0(left)
    BY <1>1, <2>2
  <2>4. EffectiveLimit(new, q) = Limit[p][q] + Max0(left)
    BY <1>1, <2>3 DEF EffectiveLimit
  <2>5. Limit[p][q] + Max0(left) \in Int /\ Limit[p][q] + Max0(left) >= left
    BY <2>1 DEF Max0
  <2>6. \A x, y \in Int : \A z : (x >= y /\ z = 0) => x - z >= y
    OBVIOUS
  <2>7. EffectiveLimit(new, q) - new.used[q] >= left
    BY <2>1, <2>3, <2>4, <2>5, <2>6
  <2> QED
    BY <2>7 DEF left
<1> QED
  BY <1>1, <1>2

----------------------------------------------------------------------------
(* Types.                                                                    *)

\* References between tables and requests that the type says nothing of.
TablesLinked ==
  /\ \A o \in captured : orders[o] # NoOrder
  /\ \A o \in Orders, e \in Events : <<o, e>> \in deliveries => o \in captured
  /\ \A t \in ledger : t.order \in captured /\ t.user = orders[t.order].user

RequestsLinked ==
  \A w \in Workers :
    /\ req[w] # Idle => req[w].order \in captured
    /\ (req[w].pc = "lock" /\ Purpose(w) = "service_charge") => req[w].snap # NoPlan

TypeInv == TypeOK /\ TablesLinked /\ RequestsLinked

----------------------------------------------------------------------------
(* What is known of a request that is being served.                          *)

LEMMA Busy ==
  ASSUME TypeInv, NEW w \in Workers, req[w].pc # "idle"
  PROVE  /\ req[w] \in Request
         /\ req[w].order \in captured
         /\ orders[req[w].order] \in OrderNotes
         /\ Buyer(w) \in Users
<1>1. req[w] \in Request
  BY DEF TypeInv, TypeOK, Idle
<1>2. req[w] # Idle
  BY DEF Idle
<1>3. req[w].order \in captured /\ orders[req[w].order] # NoOrder
  BY <1>2 DEF TypeInv, TypeOK, TablesLinked, RequestsLinked
<1>4. orders[req[w].order] \in OrderNotes
  BY <1>1, <1>3 DEF TypeInv, TypeOK, Request
<1>5. Buyer(w) \in Users
  BY <1>4 DEF OrderNotes, Buyer
<1> QED
  BY <1>1, <1>3, <1>4, <1>5

\* The item of an order has the type its purpose asks for.
LEMMA Items ==
  ASSUME NEW n \in OrderNotes
  PROVE  /\ n.purpose = "plan_purchase" => n.item \in Plans
         /\ n.purpose = "astrology_pdf" => n.item \in Products
         /\ n.amount \in Nat /\ n.user \in Users /\ n.option \in PaymentOptions
         /\ n.purpose \in {"plan_purchase", "service_charge", "astrology_pdf"}
  BY DEF OrderNotes, PaymentOptions

\* Every step of a request is one of these updates of its record.
LEMMA RequestUpdates ==
  ASSUME NEW r \in Request
  PROVE  /\ \A pc \in {"check", "terms", "lock", "write"} : [r EXCEPT !.pc = pc] \in Request
         /\ \A s \in RowStatus :
              [r EXCEPT !.pc = "sync", !.outcome = s, !.locked = FALSE] \in Request
         /\ \A a \in Nat : [r EXCEPT !.pc = "terms", !.price = a] \in Request
         /\ \A a, d \in Nat : [r EXCEPT !.pc = "lock", !.charge = a, !.day = d] \in Request
         /\ \A up \in UserPlanRow \cup {NoPlan} :
              /\ [r EXCEPT !.pc = "lock", !.snap = up] \in Request
              /\ \A b \in BOOLEAN :
                   [r EXCEPT !.pc = "write", !.snap = up, !.locked = b] \in Request
         /\ \A s \in RowStatus : [r EXCEPT !.pc = "save", !.seen = s] \in Request
<1>1. \A pc \in {"check", "terms", "lock", "write"} : [r EXCEPT !.pc = pc] \in Request
  BY DEF Request
<1>2. \A s \in RowStatus :
         [r EXCEPT !.pc = "sync", !.outcome = s, !.locked = FALSE] \in Request
  BY DEF Request
<1>3. \A a \in Nat : [r EXCEPT !.pc = "terms", !.price = a] \in Request
  BY DEF Request
<1>4. \A a, d \in Nat : [r EXCEPT !.pc = "lock", !.charge = a, !.day = d] \in Request
  BY DEF Request
<1>5. ASSUME NEW up \in UserPlanRow \cup {NoPlan}
      PROVE  [r EXCEPT !.pc = "lock", !.snap = up] \in Request
  BY DEF Request
<1>6. ASSUME NEW up \in UserPlanRow \cup {NoPlan}, NEW b \in BOOLEAN
      PROVE  [r EXCEPT !.pc = "write", !.snap = up, !.locked = b] \in Request
  BY DEF Request
<1>7. \A s \in RowStatus : [r EXCEPT !.pc = "save", !.seen = s] \in Request
  BY DEF Request
<1> QED
  BY <1>1, <1>2, <1>3, <1>4, <1>5, <1>6, <1>7

----------------------------------------------------------------------------
(* Type correctness.                                                         *)

\* A request record may be replaced by a typed one for a captured order.
LEMMA ServeTyped ==
  ASSUME TypeInv, NEW w \in Workers, NEW r \in Request \cup {Idle},
         req' = [req EXCEPT ![w] = r], UNCHANGED gateway,
         r # Idle => r.order \in captured,
         (r.pc = "lock" /\ orders[r.order].purpose = "service_charge")
           => r.snap # NoPlan
  PROVE  /\ req' \in [Workers -> Request \cup {Idle}]
         /\ RequestsLinked'
  BY DEF TypeInv, TypeOK, RequestsLinked, gateway, Purpose

\* Finish and Idle need no case analysis.
LEMMA FinishTyped ==
  ASSUME TypeInv, NEW w \in Workers, req[w].pc # "idle", NEW s \in RowStatus,
         Finish(w, s)
  PROVE  /\ req' \in [Workers -> Request \cup {Idle}]
         /\ RequestsLinked'
<1> DEFINE r == [req[w] EXCEPT !.pc = "sync", !.outcome = s, !.locked = FALSE]
<1>1. req[w] \in Request /\ req[w].order \in captured
  BY Busy
<1>2. r \in Request
  BY <1>1, RequestUpdates
<1>3. r.order = req[w].order /\ r.pc = "sync"
  BY <1>1 DEF Request
<1>4. req' = [req EXCEPT ![w] = r] /\ UNCHANGED gateway
  BY DEF Finish, Serve
<1> HIDE DEF r
<1> QED
  BY <1>1, <1>2, <1>3, <1>4, ServeTyped

LEMMA IdleTyped ==
  ASSUME TypeInv, NEW w \in Workers, req' = [req EXCEPT ![w] = Idle], UNCHANGED gateway
  PROVE  /\ req' \in [Workers -> Request \cup {Idle}]
         /\ RequestsLinked'
  BY ServeTyped DEF Idle

\* The parts of TypeOK that serving a request leaves alone.
LEMMA RestTyped ==
  ASSUME TypeInv,
         UNCHANGED <<shop, gateway, removing, today, faults, removals>>,
         req' \in [Workers -> Request \cup {Idle}],
         userPlan' \in [Users -> UserPlanRow \cup {NoPlan}],
         ledger' \subseteq Transaction, nextId' \in Nat,
         credits' \subseteq Nat, commissions' \subseteq Users,
         orderRow' \in [Orders -> RowStatus], deliveries' \subseteq deliveries,
         overlapped' \subseteq Orders,
         \A t \in ledger' : t.order \in captured /\ t.user = orders[t.order].user,
         RequestsLinked'
  PROVE  TypeInv'
  BY DEF TypeInv, TypeOK, TablesLinked, shop, gateway, faults

LEMMA OverlapTyped ==
  ASSUME TypeInv, NEW w \in Workers, req[w].pc # "idle", NoteOverlap(w)
  PROVE  overlapped' \subseteq Orders
  BY Busy DEF TypeInv, TypeOK, NoteOverlap, Request

LEMMA RecordTyped ==
  ASSUME TypeInv, NEW w \in Workers, req[w].pc # "idle", NEW a \in Nat,
         RecordTransaction(w, a)
  PROVE  /\ ledger' \subseteq Transaction /\ nextId' \in Nat
         /\ \A t \in ledger' : t.order \in captured /\ t.user = orders[t.order].user
<1>1. req[w].order \in captured /\ req[w].order \in Orders /\ Buyer(w) \in Users
  BY Busy DEF Request
<1> QED
  BY <1>1 DEF TypeInv, TypeOK, TablesLinked, RecordTransaction, Transaction, Buyer

LEMMA RepairKeepsType ==
  ASSUME TypeInv, NEW u \in Users, userPlan[u] # NoPlan, StoreRepair(u)
  PROVE  userPlan' \in [Users -> UserPlanRow \cup {NoPlan}]
  BY RepairedTyped DEF TypeInv, TypeOK, StoreRepair

\* GoTo, for a step that does not enter the lock of a service charge.
LEMMA GoToTyped ==
  ASSUME TypeInv, NEW w \in Workers, req[w].pc # "idle",
         NEW pc \in {"check", "terms", "lock", "write"}, GoTo(w, pc),
         pc = "lock" => Purpose(w) # "service_charge"
  PROVE  /\ req' \in [Workers -> Request \cup {Idle}]
         /\ RequestsLinked'
<1> DEFINE r == [req[w] EXCEPT !.pc = pc]
<1>1. req[w] \in Request /\ req[w].order \in captured
  BY Busy
<1>2. r \in Request
  BY <1>1, RequestUpdates
<1>3. r.order = req[w].order /\ r.pc = pc
  BY <1>1 DEF Request
<1>4. req' = [req EXCEPT ![w] = r] /\ UNCHANGED gateway
  BY DEF GoTo, Serve
<1> HIDE DEF r
<1> QED
  BY <1>1, <1>2, <1>3, <1>4, ServeTyped DEF Purpose

LEMMA FailTyped ==
  ASSUME TypeInv, NEW w \in Workers, req[w].pc # "idle", Fail(w)
  PROVE  /\ req' \in [Workers -> Request \cup {Idle}]
         /\ RequestsLinked'
<1>1. CASE req[w].kind = "webhook"
  BY <1>1, FinishTyped DEF Fail, RowStatus
<1>2. CASE req[w].kind # "webhook"
  BY <1>2, IdleTyped DEF Fail, Serve
<1> QED
  BY <1>1, <1>2

LEMMA InitTyped == Init => TypeInv
<1> SUFFICES ASSUME Init PROVE TypeInv
  OBVIOUS
<1>1. \A w \in Workers : req[w] = Idle /\ req[w].pc = "idle"
  BY DEF Init, Idle
<1>2. TypeOK
  BY FulfillmentAssumption DEF Init, TypeOK, RowStatus
<1>3. TablesLinked
  BY DEF Init, TablesLinked
<1>4. RequestsLinked
  BY <1>1 DEF RequestsLinked
<1> QED
  BY <1>2, <1>3, <1>4 DEF TypeInv

\* Checkout writes an order, its row and perhaps a repaired plan row.
LEMMA OrderTyped ==
  ASSUME TypeInv, NEW o \in Orders, NEW n \in OrderNotes, PlaceOrder(o, n)
  PROVE  /\ orders' \in [Orders -> OrderNotes \cup {NoOrder}]
         /\ orderRow' \in [Orders -> RowStatus]
         /\ \A x \in captured : orders'[x] = orders[x]
<1>1. o \notin captured
  BY DEF TypeInv, TablesLinked, PlaceOrder
<1> QED
  BY <1>1 DEF TypeInv, TypeOK, PlaceOrder, RowStatus

LEMMA CheckoutTyped ==
  ASSUME TypeInv,
         UNCHANGED <<ledger, credits, commissions, shop, nextId, captured, deliveries,
                     req, removing, today, faults, removals, overlapped>>,
         userPlan' \in [Users -> UserPlanRow \cup {NoPlan}],
         orders' \in [Orders -> OrderNotes \cup {NoOrder}],
         orderRow' \in [Orders -> RowStatus],
         \A x \in captured : orders'[x] = orders[x]
  PROVE  TypeInv'
<1>1. TypeOK'
  BY DEF TypeInv, TypeOK, shop, faults
<1>2. TablesLinked'
  BY DEF TypeInv, TypeOK, TablesLinked
<1>3. RequestsLinked'
  BY DEF TypeInv, RequestsLinked, Purpose, Idle
<1> QED
  BY <1>1, <1>2, <1>3 DEF TypeInv

LEMMA PlanOrderTyped ==
  ASSUME TypeInv, NEW o \in Orders, NEW u \in Users, NEW p \in Plans,
         NEW option \in Options, PlanOrderView(o, u, p, option)
  PROVE  TypeInv'
<1> DEFINE n == [user |-> u, purpose |-> "plan_purchase", item |-> p, option |-> option,
                 amount |-> inr_to_paise(PurchaseAmount(option, price[p], charge))]
<1>1. PurchaseAmount(option, price[p], charge) \in Nat
  BY AmountsTyped DEF TypeInv, TypeOK
<1>2. inr_to_paise(PurchaseAmount(option, price[p], charge)) \in Nat
  BY <1>1 DEF inr_to_paise
<1>3. n \in OrderNotes
  BY <1>2, FulfillmentAssumption DEF OrderNotes
<1>4. PlaceOrder(o, n)
  BY DEF PlanOrderView
<1> HIDE DEF n
<1>5. userPlan' \in [Users -> UserPlanRow \cup {NoPlan}]
  BY DEF PlanOrderView, TypeInv, TypeOK, db
<1> QED
  BY <1>3, <1>4, <1>5, OrderTyped, CheckoutTyped DEF PlanOrderView, db

LEMMA ServiceChargeOrderTyped ==
  ASSUME TypeInv, NEW o \in Orders, NEW u \in Users, ServiceChargeOrderView(o, u)
  PROVE  TypeInv'
<1> DEFINE left == ChargeRemaining(userPlan[u])
           n == [user |-> u, purpose |-> "service_charge", item |-> "none",
                 option |-> PlanOnly, amount |-> inr_to_paise(left)]
<1>1. userPlan[u] # NoPlan /\ userPlan[u] \in UserPlanRow
  BY DEF ServiceChargeOrderView, HasActiveRow, TypeInv, TypeOK
<1>2. userPlan' \in [Users -> UserPlanRow \cup {NoPlan}]
  BY <1>1, RepairKeepsType DEF ServiceChargeOrderView
<1>3. CASE left > 0
  <2>1. left \in Nat
    BY <1>1, <1>3, RepairedTyped
  <2>2. n \in OrderNotes
    BY <2>1 DEF OrderNotes, inr_to_paise
  <2>3. PlaceOrder(o, n)
    BY <1>3 DEF ServiceChargeOrderView
  <2> HIDE DEF n
  <2> QED
    BY <1>2, <2>2, <2>3, OrderTyped, CheckoutTyped DEF ServiceChargeOrderView
<1>4. CASE ~ (left > 0)
  <2>1. UNCHANGED <<orders, orderRow>>
    BY <1>4 DEF ServiceChargeOrderView
  <2>2. /\ orders' \in [Orders -> OrderNotes \cup {NoOrder}]
        /\ orderRow' \in [Orders -> RowStatus]
        /\ \A x \in captured : orders'[x] = orders[x]
    BY <2>1 DEF TypeInv, TypeOK
  <2> QED
    BY <1>2, <2>2, CheckoutTyped DEF ServiceChargeOrderView
<1> QED
  BY <1>3, <1>4

LEMMA AstrologyPdfOrderTyped ==
  ASSUME TypeInv, NEW o \in Orders, NEW u \in Users, NEW x \in Products,
         AstrologyPdfOrderView(o, u, x)
  PROVE  TypeInv'
<1> DEFINE n == [user |-> u, purpose |-> "astrology_pdf", item |-> x,
                 option |-> PlanOnly, amount |-> inr_to_paise(CatalogPrice[x])]
<1>1. n \in OrderNotes
  BY FulfillmentAssumption DEF OrderNotes, inr_to_paise
<1>2. PlaceOrder(o, n)
  BY DEF AstrologyPdfOrderView
<1> HIDE DEF n
<1>3. userPlan' \in [Users -> UserPlanRow \cup {NoPlan}]
  BY DEF AstrologyPdfOrderView, TypeInv, TypeOK, db
<1> QED
  BY <1>1, <1>2, <1>3, OrderTyped, CheckoutTyped DEF AstrologyPdfOrderView, db

LEMMA CaptureTyped ==
  ASSUME TypeInv, NEW o \in Orders, Capture(o)
  PROVE  TypeInv'
<1>1. TypeOK'
  BY DEF TypeInv, TypeOK, Capture, db, shop, faults
<1>2. TablesLinked'
  BY DEF TypeInv, TypeOK, TablesLinked, Capture, db
<1>3. RequestsLinked'
  BY DEF TypeInv, RequestsLinked, Capture, Purpose
<1> QED
  BY <1>1, <1>2, <1>3 DEF TypeInv

\* A step that moves a request on and writes nothing else.
LEMMA MoveTyped ==
  ASSUME TypeInv, UNCHANGED <<db, shop, gateway, nextId, orderRow, removing, today, removals>>,
         crashes' \in Nat, unsaved' \subseteq Orders,
         overlapped' \subseteq Orders, deliveries' \subseteq deliveries,
         req' \in [Workers -> Request \cup {Idle}], RequestsLinked'
  PROVE  TypeInv'
<1>1. TypeOK'
  BY DEF TypeInv, TypeOK, db, shop, gateway
<1>2. TablesLinked'
  BY DEF TypeInv, TypeOK, TablesLinked, db, gateway
<1> QED
  BY <1>1, <1>2 DEF TypeInv

\* A new request for a captured order.
LEMMA BeginTyped ==
  ASSUME TypeInv, NEW w \in Workers, NEW o \in captured, NEW kind \in {"verify", "webhook"},
         NEW e \in Events \cup {"none"}, NEW pc \in {"fetch", "check"}, NEW x \in Nat,
         Serve(w, NewRequest(kind, e, o, pc, x))
  PROVE  /\ req' \in [Workers -> Request \cup {Idle}]
         /\ RequestsLinked'
<1> DEFINE r == NewRequest(kind, e, o, pc, x)
<1>1. o \in Orders
  BY DEF TypeInv, TypeOK
<1>2. r \in Request /\ r.order = o /\ r.pc = pc
  BY <1>1 DEF NewRequest, Request, RowStatus
<1>3. req' = [req EXCEPT ![w] = r] /\ UNCHANGED gateway
  BY DEF Serve
<1> HIDE DEF r
<1> QED
  BY <1>2, <1>3, ServeTyped

LEMMA VerifyBeginTyped ==
  ASSUME TypeInv, NEW w \in Workers, NEW o \in Orders, VerifyBegin(w, o)
  PROVE  TypeInv'
<1> DEFINE u == orders[o].user
           Started(x) == x \in Nat /\ Serve(w, NewRequest("verify", "none", o, "fetch", x))
<1>1. o \in captured /\ orders[o] \in OrderNotes
  BY DEF VerifyBegin, TypeInv, TypeOK, TablesLinked
<1>2. /\ userPlan' \in [Users -> UserPlanRow \cup {NoPlan}]
      /\ Serve(w, Idle) \/ \E x \in Nat : Started(x)
  <2>1. CASE orders[o].purpose = "plan_purchase"
    <3> DEFINE a == PurchaseAmount(orders[o].option, price[orders[o].item], charge)
    <3>1. a \in Nat /\ inr_to_paise(a) \in Nat
      BY <1>1, <2>1, Items, AmountsTyped DEF TypeInv, TypeOK
    <3>2. UNCHANGED userPlan
      BY <2>1 DEF VerifyBegin
    <3>3. Serve(w, Idle) \/ Serve(w, NewRequest("verify", "none", o, "fetch", inr_to_paise(a)))
      BY <2>1 DEF VerifyBegin
    <3> QED
      BY <3>1, <3>2, <3>3 DEF TypeInv, TypeOK
  <2>2. CASE orders[o].purpose = "service_charge"
    <3> DEFINE a == ChargeRemaining(userPlan[u])
    <3>1. u \in Users /\ HasActiveRow(u) /\ StoreRepair(u)
      BY <1>1, <2>2, Items DEF VerifyBegin
    <3>2. userPlan[u] \in UserPlanRow
      BY <3>1 DEF HasActiveRow, TypeInv, TypeOK
    <3>3. userPlan' \in [Users -> UserPlanRow \cup {NoPlan}]
      BY <3>1, RepairKeepsType DEF HasActiveRow
    <3>4. a > 0 => inr_to_paise(a) \in Nat
      BY <3>2, RepairedTyped DEF inr_to_paise
    <3>5. \/ Serve(w, Idle)
          \/ a > 0 /\ Serve(w, NewRequest("verify", "none", o, "fetch", inr_to_paise(a)))
      BY <2>2 DEF VerifyBegin
    <3> QED
      BY <3>3, <3>4, <3>5
  <2>3. CASE orders[o].purpose = "astrology_pdf"
    <3> DEFINE a == CatalogPrice[orders[o].item]
    <3>1. inr_to_paise(a) \in Nat
      BY <1>1, <2>3, Items, FulfillmentAssumption DEF inr_to_paise
    <3>2. UNCHANGED userPlan
      BY <2>3 DEF VerifyBegin
    <3>3. Serve(w, Idle) \/ Serve(w, NewRequest("verify", "none", o, "fetch", inr_to_paise(a)))
      BY <2>3 DEF VerifyBegin
    <3> QED
      BY <3>1, <3>2, <3>3 DEF TypeInv, TypeOK
  <2> QED
    BY <2>1, <2>2, <2>3 DEF VerifyBegin
<1>3. req' \in [Workers -> Request \cup {Idle}] /\ RequestsLinked'
  <2>1. CASE Serve(w, Idle)
    BY <2>1, IdleTyped DEF Serve
  <2>2. ASSUME NEW x \in Nat, Started(x)
        PROVE  req' \in [Workers -> Request \cup {Idle}] /\ RequestsLinked'
    BY <1>1, <2>2, BeginTyped
  <2> QED
    BY <1>2, <2>1, <2>2
<1>4. UNCHANGED <<shop, gateway, deliveries, removing, today, faults, removals>>
  BY <1>2 DEF Serve
<1>5. UNCHANGED <<ledger, credits, commissions, nextId, orderRow, overlapped>>
  BY DEF VerifyBegin
<1> HIDE DEF Started
<1> QED
  BY <1>2, <1>3, <1>4, <1>5, RestTyped DEF TypeInv, TypeOK, TablesLinked

\* The update of a busy request's record, for any of the shapes of RequestUpdates.
LEMMA UpdateTyped ==
  ASSUME TypeInv, NEW w \in Workers, req[w].pc # "idle", NEW r \in Request,
         r.order = req[w].order, Serve(w, r),
         (r.pc = "lock" /\ Purpose(w) = "service_charge") => r.snap # NoPlan
  PROVE  /\ req' \in [Workers -> Request \cup {Idle}]
         /\ RequestsLinked'
<1>1. req[w].order \in captured
  BY Busy
<1>2. req' = [req EXCEPT ![w] = r] /\ UNCHANGED gateway
  BY DEF Serve
<1> QED
  BY <1>1, <1>2, ServeTyped DEF Purpose

\* Serving a request leaves these alone; what remains is MoveTyped.
LEMMA ServedTyped ==
  ASSUME TypeInv, NEW w \in Workers, NEW r, Serve(w, r),
         UNCHANGED <<db, nextId, orderRow>>, overlapped' \subseteq Orders,
         req' \in [Workers -> Request \cup {Idle}], RequestsLinked'
  PROVE  TypeInv'
  BY MoveTyped DEF Serve, TypeInv, TypeOK, faults

LEMMA VerifyFetchTyped ==
  ASSUME TypeInv, NEW w \in Workers, VerifyFetch(w)
  PROVE  TypeInv'
<1> USE DEF VerifyFetch
<1>1. overlapped' \subseteq Orders
  BY DEF TypeInv, TypeOK
<1>2. CASE Serve(w, Idle)
  BY <1>1, <1>2, IdleTyped, ServedTyped DEF Serve
<1>3. CASE GoTo(w, "check")
  BY <1>1, <1>3, GoToTyped, ServedTyped DEF GoTo
<1> QED
  BY <1>2, <1>3 DEF GoTo

LEMMA WebhookBeginTyped ==
  ASSUME TypeInv, NEW w \in Workers, NEW o \in Orders, NEW e \in Events,
         WebhookBegin(w, o, e)
  PROVE  TypeInv'
<1>1. o \in captured /\ orders[o] \in OrderNotes
  BY DEF WebhookBegin, TypeInv, TypeOK, TablesLinked
<1>2. orders[o].amount \in Nat
  BY <1>1, Items
<1>3. Serve(w, NewRequest("webhook", e, o, "check", orders[o].amount))
  BY DEF WebhookBegin
<1>4. req' \in [Workers -> Request \cup {Idle}] /\ RequestsLinked'
  BY <1>1, <1>2, <1>3, BeginTyped
<1> QED
  BY <1>3, <1>4, ServedTyped DEF WebhookBegin, TypeInv, TypeOK

LEMMA CheckPlanPurchaseTyped ==
  ASSUME TypeInv, NEW w \in Workers, CheckPlanPurchase(w)
  PROVE  TypeInv'
<1>1. req[w].pc # "idle" /\ req[w] \in Request /\ orders[req[w].order] \in OrderNotes
  BY Busy DEF CheckPlanPurchase
<1>2. UNCHANGED <<db, nextId, orderRow>>
  BY DEF CheckPlanPurchase
<1> DEFINE p == orders[req[w].order].item
           r == [req[w] EXCEPT !.pc = "terms", !.price = price[p]]
<1>3. CASE \E s \in RowStatus : Finish(w, s) /\ UNCHANGED overlapped
  BY <1>1, <1>2, <1>3, FinishTyped, ServedTyped DEF Finish, TypeInv, TypeOK
<1>4. CASE Serve(w, r) /\ NoteOverlap(w)
  <2>1. price[p] \in Nat
    BY <1>1, Items DEF CheckPlanPurchase, Purpose, TypeInv, TypeOK
  <2>2. r \in Request
    BY <1>1, <2>1, RequestUpdates
  <2>3. r.order = req[w].order /\ r.pc = "terms"
    BY <1>1 DEF Request
  <2>4. Serve(w, r) /\ overlapped' \subseteq Orders
    BY <1>1, <1>4, OverlapTyped
  <2> HIDE DEF r
  <2> QED
    BY <1>1, <1>2, <2>2, <2>3, <2>4, UpdateTyped, ServedTyped
<1> QED
  BY <1>3, <1>4 DEF CheckPlanPurchase, RowStatus

LEMMA ReadPurchaseTermsTyped ==
  ASSUME TypeInv, NEW w \in Workers, ReadPurchaseTerms(w)
  PROVE  TypeInv'
<1> DEFINE r == [req[w] EXCEPT !.pc = "lock", !.charge = charge, !.day = today]
<1>1. req[w].pc # "idle" /\ req[w] \in Request /\ Purpose(w) # "service_charge"
  BY Busy DEF ReadPurchaseTerms
<1>2. charge \in Nat /\ today \in Nat
  BY DEF TypeInv, TypeOK
<1>3. r \in Request
  BY <1>1, <1>2, RequestUpdates
<1>4. r.order = req[w].order
  BY <1>1 DEF Request
<1>5. Serve(w, r) /\ UNCHANGED <<db, nextId, orderRow, overlapped>>
  BY DEF ReadPurchaseTerms
<1> HIDE DEF r
<1> QED
  BY <1>1, <1>3, <1>4, <1>5, UpdateTyped, ServedTyped DEF TypeInv, TypeOK

LEMMA LockUserPlanTyped ==
  ASSUME TypeInv, NEW w \in Workers, LockUserPlan(w)
  PROVE  TypeInv'
<1> DEFINE up == userPlan[Buyer(w)]
           r == [req[w] EXCEPT !.pc = "write", !.snap = up, !.locked = (up # NoPlan)]
<1>1. req[w].pc # "idle" /\ req[w] \in Request /\ Buyer(w) \in Users
  BY Busy DEF LockUserPlan
<1>2. up \in UserPlanRow \cup {NoPlan}
  BY <1>1 DEF TypeInv, TypeOK
<1>3. r \in Request
  BY <1>1, <1>2, RequestUpdates
<1>4. r.order = req[w].order /\ r.pc = "write"
  BY <1>1 DEF Request
<1>5. Serve(w, r) /\ UNCHANGED <<db, nextId, orderRow, overlapped>>
  BY DEF LockUserPlan
<1> HIDE DEF r
<1> QED
  BY <1>1, <1>3, <1>4, <1>5, UpdateTyped, ServedTyped DEF TypeInv, TypeOK

\* The transactions of a fulfilment.
LEMMA RecordingTyped ==
  ASSUME TypeInv, NEW w \in Workers, req[w].pc # "idle", NEW a \in Nat,
         RecordTransaction(w, a), Finish(w, "fulfilled"),
         userPlan' \in [Users -> UserPlanRow \cup {NoPlan}],
         credits' \subseteq Nat, commissions' \subseteq Users,
         UNCHANGED <<orderRow, overlapped>>
  PROVE  TypeInv'
<1>1. /\ ledger' \subseteq Transaction /\ nextId' \in Nat
      /\ \A t \in ledger' : t.order \in captured /\ t.user = orders[t.order].user
  BY RecordTyped
<1>2. req' \in [Workers -> Request \cup {Idle}] /\ RequestsLinked'
  BY FinishTyped DEF RowStatus
<1>3. UNCHANGED <<shop, gateway, deliveries, removing, today, faults, removals>>
  BY DEF Finish, Serve
<1>4. orderRow' \in [Orders -> RowStatus] /\ deliveries' \subseteq deliveries
      /\ overlapped' \subseteq Orders
  BY <1>3 DEF TypeInv, TypeOK
<1> QED
  BY <1>1, <1>2, <1>3, <1>4, RestTyped

LEMMA CommissionTyped ==
  ASSUME TypeInv, NEW w \in Workers, req[w].pc # "idle", DueCommission(w)
  PROVE  commissions' \subseteq Users
  BY Busy DEF TypeInv, TypeOK, DueCommission

LEMMA ActivatePlanTyped ==
  ASSUME TypeInv, NEW w \in Workers, ActivatePlan(w)
  PROVE  TypeInv'
<1> DEFINE o == req[w].order
           r == req[w]
           u == Buyer(w)
           new == Activated(r.snap, RowKey(u), orders[o].item, orders[o].option,
                            r.price, r.charge, r.day)
           a == PurchaseAmount(orders[o].option, r.price, r.charge)
<1>1. /\ r.pc # "idle" /\ r \in Request /\ u \in Users
      /\ orders[o] \in OrderNotes
  BY Busy DEF ActivatePlan
<1>2. /\ r.snap \in UserPlanRow \cup {NoPlan}
      /\ r.price \in Nat /\ r.charge \in Nat /\ r.day \in Nat
  BY <1>1 DEF Request
<1>3. orders[o].item \in Plans
  BY <1>1, Items DEF ActivatePlan, Purpose
<1>4. RowKey(u) \in Nat
  BY <1>1 DEF RowKey, TypeInv, TypeOK, UserPlanRow
<1>5. new \in UserPlanRow
  BY <1>2, <1>3, <1>4, ActivatedTyped
<1>6. a \in Nat
  BY <1>2, AmountsTyped
<1>7. /\ userPlan' = [userPlan EXCEPT ![u] = new] /\ RecordTransaction(w, a)
      /\ DueCommission(w) /\ Finish(w, "fulfilled") /\ UNCHANGED <<credits, orderRow, overlapped>>
  BY DEF ActivatePlan
<1> HIDE DEF new, a
<1>8. userPlan' \in [Users -> UserPlanRow \cup {NoPlan}]
  BY <1>1, <1>5, <1>7 DEF TypeInv, TypeOK
<1>9. commissions' \subseteq Users /\ credits' \subseteq Nat
  BY <1>1, <1>7, CommissionTyped DEF TypeInv, TypeOK
<1> QED
  BY <1>1, <1>6, <1>7, <1>8, <1>9, RecordingTyped

\* A step of a service charge payment that settles or ends the request.
LEMMA FinishStepTyped ==
  ASSUME TypeInv, NEW w \in Workers, req[w].pc # "idle",
         Fail(w) \/ \E s \in RowStatus : Finish(w, s),
         userPlan' \in [Users -> UserPlanRow \cup {NoPlan}],
         UNCHANGED <<ledger, credits, commissions, nextId, orderRow, overlapped>>
  PROVE  TypeInv'
<1>1. req' \in [Workers -> Request \cup {Idle}] /\ RequestsLinked'
  BY FailTyped, FinishTyped
<1>2. UNCHANGED <<shop, gateway, deliveries, removing, today, faults, removals>>
  BY DEF Fail, Finish, Serve
<1> QED
  BY <1>1, <1>2, RestTyped DEF TypeInv, TypeOK, TablesLinked

LEMMA CheckServiceChargeTyped ==
  ASSUME TypeInv, NEW w \in Workers, CheckServiceCharge(w)
  PROVE  TypeInv'
<1>1. req[w].pc # "idle" /\ Buyer(w) \in Users
  BY Busy DEF CheckServiceCharge
<1>2. UNCHANGED <<ledger, credits, commissions, nextId, orderRow>>
  BY DEF CheckServiceCharge
<1>3. CASE /\ Finish(w, "fulfilled") \/ Finish(w, "skipped")
           /\ UNCHANGED <<userPlan, overlapped>>
  BY <1>1, <1>2, <1>3, FinishStepTyped DEF TypeInv, TypeOK, RowStatus
<1>4. CASE WithRemaining(w, GoTo(w, "terms") /\ NoteOverlap(w))
  <2>1. userPlan' \in [Users -> UserPlanRow \cup {NoPlan}]
    BY <1>1, <1>4, RepairKeepsType DEF WithRemaining, HasActiveRow
  <2>2. CASE Finish(w, "skipped") /\ UNCHANGED overlapped
    BY <1>1, <1>2, <2>1, <2>2, FinishStepTyped DEF RowStatus
  <2>3. CASE GoTo(w, "terms") /\ NoteOverlap(w)
    <3>1. req' \in [Workers -> Request \cup {Idle}] /\ RequestsLinked'
      BY <1>1, <2>3, GoToTyped
    <3>2. overlapped' \subseteq Orders
      BY <1>1, <2>3, OverlapTyped
    <3>3. UNCHANGED <<shop, gateway, deliveries, removing, today, faults, removals>>
      BY <2>3 DEF GoTo, Serve
    <3> QED
      BY <1>2, <2>1, <3>1, <3>2, <3>3, RestTyped DEF TypeInv, TypeOK, TablesLinked
  <2> QED
    BY <1>4, <2>2, <2>3 DEF WithRemaining
<1> QED
  BY <1>3, <1>4 DEF CheckServiceCharge

LEMMA ReadServiceChargeTyped ==
  ASSUME TypeInv, NEW w \in Workers, ReadServiceCharge(w)
  PROVE  TypeInv'
<1> DEFINE up == Repaired(userPlan[Buyer(w)])
           r == [req[w] EXCEPT !.pc = "lock", !.snap = up]
<1>1. req[w].pc # "idle" /\ req[w] \in Request /\ Buyer(w) \in Users
  BY Busy DEF ReadServiceCharge
<1>2. UNCHANGED <<ledger, credits, commissions, nextId, orderRow>>
  BY DEF ReadServiceCharge
<1>3. CASE Fail(w) /\ UNCHANGED <<userPlan, overlapped>>
  BY <1>1, <1>2, <1>3, FinishStepTyped DEF TypeInv, TypeOK
<1>4. CASE WithRemaining(w, Serve(w, r) /\ UNCHANGED overlapped)
  <2>1. userPlan[Buyer(w)] \in UserPlanRow /\ userPlan[Buyer(w)] # NoPlan
    BY <1>1, <1>4 DEF WithRemaining, HasActiveRow, TypeInv, TypeOK
  <2>2. userPlan' \in [Users -> UserPlanRow \cup {NoPlan}]
    BY <1>1, <1>4, <2>1, RepairKeepsType DEF WithRemaining
  <2>3. CASE Finish(w, "skipped") /\ UNCHANGED overlapped
    BY <1>1, <1>2, <2>2, <2>3, FinishStepTyped DEF RowStatus
  <2>4. CASE Serve(w, r) /\ UNCHANGED overlapped
    <3>1. up \in UserPlanRow /\ up # NoPlan
      BY <2>1, RepairedTyped, NoPlanIsNoRow
    <3>2. r \in Request
      BY <1>1, <3>1, RequestUpdates
    <3>3. r.order = req[w].order /\ r.snap = up
      BY <1>1 DEF Request
    <3>4. req' \in [Workers -> Request \cup {Idle}] /\ RequestsLinked'
      BY <1>1, <2>4, <3>1, <3>2, <3>3, UpdateTyped
    <3>5. UNCHANGED <<shop, gateway, deliveries, removing, today, faults, removals>>
      BY <2>4 DEF Serve
    <3> QED
      BY <1>2, <2>2, <2>4, <3>4, <3>5, RestTyped DEF TypeInv, TypeOK, TablesLinked
  <2> QED
    BY <1>4, <2>3, <2>4 DEF WithRemaining
<1> QED
  BY <1>3, <1>4 DEF ReadServiceCharge

LEMMA PayRemainingTyped ==
  ASSUME TypeInv, NEW w \in Workers, PayRemaining(w)
  PROVE  TypeInv'
<1> DEFINE u == Buyer(w)
           row == userPlan[u]
           snap == req[w].snap
<1>1. req[w].pc # "idle" /\ req[w] \in Request /\ u \in Users
  BY Busy DEF PayRemaining
<1>2. snap \in UserPlanRow
  BY <1>1 DEF PayRemaining, TypeInv, RequestsLinked, Request
<1>3. row \in UserPlanRow \cup {NoPlan}
  BY <1>1 DEF TypeInv, TypeOK
<1>4. row.pk = snap.pk => row \in UserPlanRow
  BY <1>2, <1>3 DEF NoPlan, UserPlanRow
<1>5. UNCHANGED <<credits, orderRow, overlapped>>
  BY DEF PayRemaining
<1>6. CASE Fail(w) /\ UNCHANGED <<userPlan, ledger, commissions, nextId>>
  BY <1>1, <1>5, <1>6, FinishStepTyped DEF TypeInv, TypeOK
<1>7. CASE /\ row.pk = snap.pk
           /\ userPlan' = [userPlan EXCEPT ![u] = Repaired(row)]
           /\ Finish(w, "skipped")
           /\ UNCHANGED <<ledger, commissions, nextId>>
  <2>1. userPlan' \in [Users -> UserPlanRow \cup {NoPlan}]
    BY <1>1, <1>4, <1>7, RepairedTyped DEF TypeInv, TypeOK
  <2> QED
    BY <1>1, <1>5, <1>7, <2>1, FinishStepTyped DEF RowStatus
<1>8. CASE /\ row.pk = snap.pk /\ ChargeRemaining(row) > 0
           /\ userPlan' = [userPlan EXCEPT ![u].service_charge_paid = snap.service_charge]
           /\ RecordTransaction(w, ChargeRemaining(row))
           /\ DueCommission(w)
           /\ Finish(w, "fulfilled")
  <2>1. ChargeRemaining(row) \in Nat
    BY <1>4, <1>8, RepairedTyped
  <2>2. [row EXCEPT !.service_charge_paid = snap.service_charge] \in UserPlanRow
    BY <1>2, <1>4, <1>8 DEF UserPlanRow
  <2>3. userPlan' \in [Users -> UserPlanRow \cup {NoPlan}]
    BY <1>1, <1>8, <2>2 DEF TypeInv, TypeOK
  <2>4. credits' \subseteq Nat /\ commissions' \subseteq Users
    BY <1>1, <1>5, <1>8, CommissionTyped DEF TypeInv, TypeOK
  <2> QED
    BY <1>1, <1>5, <1>8, <2>1, <2>3, <2>4, RecordingTyped
<1> QED
  BY <1>6, <1>7, <1>8 DEF PayRemaining

LEMMA CheckPdfTyped ==
  ASSUME TypeInv, NEW w \in Workers, CheckPdf(w)
  PROVE  TypeInv'
<1>1. req[w].pc # "idle"
  BY DEF CheckPdf
<1>2. UNCHANGED <<db, nextId, orderRow>>
  BY DEF CheckPdf
<1>3. CASE \E s \in RowStatus : Finish(w, s) /\ UNCHANGED overlapped
  BY <1>1, <1>2, <1>3, FinishTyped, ServedTyped DEF Finish, TypeInv, TypeOK
<1>4. CASE GoTo(w, "lock") /\ NoteOverlap(w)
  BY <1>1, <1>2, <1>4, GoToTyped, OverlapTyped, ServedTyped DEF GoTo, CheckPdf
<1> QED
  BY <1>3, <1>4 DEF CheckPdf, RowStatus

LEMMA LockPdfTyped ==
  ASSUME TypeInv, NEW w \in Workers, LockPdf(w)
  PROVE  TypeInv'
<1>1. req[w].pc # "idle" /\ UNCHANGED <<db, nextId, orderRow, overlapped>>
  BY DEF LockPdf
<1>2. overlapped' \subseteq Orders
  BY <1>1 DEF TypeInv, TypeOK
<1>3. CASE Finish(w, "fulfilled")
  BY <1>1, <1>2, <1>3, FinishTyped, ServedTyped DEF Finish, RowStatus
<1>4. CASE GoTo(w, "write")
  BY <1>1, <1>2, <1>4, GoToTyped, ServedTyped DEF GoTo
<1> QED
  BY <1>3, <1>4 DEF LockPdf

LEMMA GrantPdfTyped ==
  ASSUME TypeInv, NEW w \in Workers, GrantPdf(w)
  PROVE  TypeInv'
<1> DEFINE a == CatalogPrice[orders[req[w].order].item]
<1>1. req[w].pc # "idle" /\ orders[req[w].order] \in OrderNotes
  BY Busy DEF GrantPdf
<1>2. a \in Nat
  BY <1>1, Items, FulfillmentAssumption DEF GrantPdf, Purpose
<1>3. RecordTransaction(w, a) /\ Finish(w, "fulfilled")
      /\ UNCHANGED <<userPlan, commissions, orderRow, overlapped>>
  BY DEF GrantPdf
<1>4. credits' \subseteq Nat
  BY DEF GrantPdf, TypeInv, TypeOK
<1> QED
  BY <1>1, <1>2, <1>3, <1>4, RecordingTyped DEF TypeInv, TypeOK

LEMMA ReadOrderRowTyped ==
  ASSUME TypeInv, NEW w \in Workers, ReadOrderRow(w)
  PROVE  TypeInv'
<1> DEFINE r == [req[w] EXCEPT !.pc = "save", !.seen = orderRow[req[w].order]]
<1>1. req[w].pc # "idle" /\ req[w] \in Request
  BY Busy DEF ReadOrderRow
<1>2. orderRow[req[w].order] \in RowStatus
  BY <1>1 DEF TypeInv, TypeOK, Request
<1>3. r \in Request
  BY <1>1, <1>2, RequestUpdates
<1>4. r.order = req[w].order /\ r.pc = "save"
  BY <1>1 DEF Request
<1>5. Serve(w, r) /\ UNCHANGED <<db, nextId, orderRow, overlapped>>
  BY DEF ReadOrderRow
<1> HIDE DEF r
<1> QED
  BY <1>1, <1>3, <1>4, <1>5, UpdateTyped, ServedTyped DEF TypeInv, TypeOK

LEMMA SaveOrderRowTyped ==
  ASSUME TypeInv, NEW w \in Workers, SaveOrderRow(w)
  PROVE  TypeInv'
<1>1. req[w] \in Request
  BY Busy DEF SaveOrderRow
<1>2. \A now \in RowStatus : SavedStatus(req[w].seen, now, req[w].outcome) \in RowStatus
  BY <1>1 DEF SavedStatus, Request
<1>3. orderRow' \in [Orders -> RowStatus]
  BY <1>1, <1>2 DEF SaveOrderRow, TypeInv, TypeOK, Request
<1>4. req' \in [Workers -> Request \cup {Idle}] /\ RequestsLinked'
  BY IdleTyped DEF SaveOrderRow, Answer
<1>5. deliveries' \subseteq deliveries
  BY DEF SaveOrderRow, Answer
<1>6. UNCHANGED <<db, shop, nextId, gateway, removing, today, faults, removals, overlapped>>
  BY DEF SaveOrderRow
<1> QED
  BY <1>3, <1>4, <1>5, <1>6, RestTyped DEF TypeInv, TypeOK, TablesLinked, db

LEMMA CrashTyped ==
  ASSUME TypeInv, NEW w \in Workers, Crash(w)
  PROVE  TypeInv'
<1>1. req' \in [Workers -> Request \cup {Idle}] /\ RequestsLinked'
  BY IdleTyped DEF Crash
<1> QED
  BY <1>1, MoveTyped DEF Crash, TypeInv, TypeOK

LEMMA LoseOrderRowTyped ==
  ASSUME TypeInv, NEW w \in Workers, LoseOrderRow(w)
  PROVE  TypeInv'
<1>1. req' \in [Workers -> Request \cup {Idle}] /\ RequestsLinked'
  BY IdleTyped DEF LoseOrderRow, Answer
<1>2. req[w].order \in Orders
  BY Busy DEF LoseOrderRow, Request
<1>3. unsaved' \subseteq Orders /\ deliveries' \subseteq deliveries
  BY <1>2 DEF LoseOrderRow, Answer, TypeInv, TypeOK
<1> QED
  BY <1>1, <1>3, MoveTyped DEF LoseOrderRow, TypeInv, TypeOK

\* Steps outside the requests: what they write is typed, and they keep the links.
LEMMA RemovalTyped ==
  ASSUME TypeInv, NEW u \in Users, RemoveUserPlan(u) \/ RemoveTransactions(u)
  PROVE  TypeInv'
<1>1. CASE RemoveUserPlan(u)
  <2>1. TypeOK'
    BY <1>1 DEF RemoveUserPlan, TypeInv, TypeOK, shop, gateway, faults
  <2> QED
    BY <1>1, <2>1 DEF RemoveUserPlan, TypeInv, TablesLinked, RequestsLinked, gateway, Purpose
<1>2. CASE RemoveTransactions(u)
  <2>1. ledger' \subseteq ledger
    BY <1>2 DEF RemoveTransactions
  <2>2. TypeOK'
    BY <1>2, <2>1 DEF RemoveTransactions, TypeInv, TypeOK, shop, gateway, faults
  <2> QED
    BY <1>2, <2>1, <2>2
       DEF RemoveTransactions, TypeInv, TablesLinked, RequestsLinked, gateway, Purpose
<1> QED
  BY <1>1, <1>2

LEMMA AdminEditTyped ==
  ASSUME TypeInv, AdminEdit
  PROVE  TypeInv'
<1>1. /\ price' \in [Plans -> Nat] /\ charge' \in Nat /\ onSale' \subseteq Plans
      /\ userPlan' \in [Users -> UserPlanRow \cup {NoPlan}]
  <2>1. CASE \E p \in Plans, a \in Amounts :
               price' = [price EXCEPT ![p] = a] /\ UNCHANGED <<charge, onSale, userPlan>>
    BY <2>1, FulfillmentAssumption DEF TypeInv, TypeOK
  <2>2. CASE \E a \in Amounts : charge' = a /\ UNCHANGED <<price, onSale, userPlan>>
    BY <2>2, FulfillmentAssumption DEF TypeInv, TypeOK
  <2>3. CASE \E p \in onSale :
               onSale' = onSale \ {p} /\ UNCHANGED <<price, charge, userPlan>>
    BY <2>3 DEF TypeInv, TypeOK
  <2>4. ASSUME NEW u \in Users, userPlan[u] # NoPlan,
               userPlan' = [userPlan EXCEPT ![u].is_active = FALSE],
               UNCHANGED <<price, charge, onSale>>
        PROVE  /\ price' \in [Plans -> Nat] /\ charge' \in Nat /\ onSale' \subseteq Plans
               /\ userPlan' \in [Users -> UserPlanRow \cup {NoPlan}]
    <3>1. [userPlan[u] EXCEPT !.is_active = FALSE] \in UserPlanRow
      BY <2>4 DEF TypeInv, TypeOK, UserPlanRow
    <3> QED
      BY <2>4, <3>1 DEF TypeInv, TypeOK
  <2> QED
    BY <2>1, <2>2, <2>3, <2>4 DEF AdminEdit
<1>2. edits' \in Nat
  BY DEF AdminEdit, TypeInv, TypeOK
<1>3. UNCHANGED <<ledger, credits, commissions, nextId, gateway, orderRow, deliveries,
                  req, removing, today, faults, removals, overlapped>>
  BY DEF AdminEdit
<1>4. TypeOK'
  BY <1>1, <1>2, <1>3 DEF TypeInv, TypeOK, gateway, faults
<1> QED
  BY <1>3, <1>4 DEF TypeInv, TablesLinked, RequestsLinked, gateway, Purpose

LEMMA NextDayTyped ==
  ASSUME TypeInv, NextDay
  PROVE  TypeInv'
<1>1. TypeOK'
  BY DEF NextDay, TypeInv, TypeOK, db, shop, gateway, faults
<1> QED
  BY <1>1 DEF NextDay, TypeInv, TablesLinked, RequestsLinked, db, gateway, Purpose

LEMMA StutterTyped ==
  ASSUME TypeInv, UNCHANGED vars
  PROVE  TypeInv'
<1>1. TypeOK'
  BY DEF vars, TypeInv, TypeOK
<1> QED
  BY <1>1 DEF vars, TypeInv, TablesLinked, RequestsLinked, Purpose

LEMMA NextTyped ==
  ASSUME TypeInv, [Next]_vars
  PROVE  TypeInv'
<1>1. CASE Checkout
  BY <1>1, PlanOrderTyped, ServiceChargeOrderTyped, AstrologyPdfOrderTyped DEF Checkout
<1>2. CASE \E w \in Workers : Progress(w)
  BY <1>2, VerifyFetchTyped, CheckPlanPurchaseTyped, ReadPurchaseTermsTyped,
     LockUserPlanTyped, ActivatePlanTyped, CheckServiceChargeTyped,
     ReadServiceChargeTyped, PayRemainingTyped, CheckPdfTyped, LockPdfTyped,
     GrantPdfTyped, ReadOrderRowTyped, SaveOrderRowTyped, LoseOrderRowTyped DEF Progress
<1> QED
  BY <1>1, <1>2, CaptureTyped, VerifyBeginTyped, WebhookBeginTyped, CrashTyped,
     RemovalTyped, AdminEditTyped, NextDayTyped, StutterTyped DEF Next

\* Every table, every order and every request record keeps its type, whatever
\* the requests, administrators, crashes and removals do (Fulfillment!TypeOK);
\* and references between them stay valid.
THEOREM TypeCorrect == Spec => []TypeInv
<1>1. Init => TypeInv
  BY InitTyped
<1>2. TypeInv /\ [Next]_vars => TypeInv'
  BY NextTyped
<1> QED
  BY <1>1, <1>2, PTL DEF Spec

THEOREM TypesKept == Spec => []TypeOK
<1>1. TypeInv => TypeOK
  BY DEF TypeInv
<1> QED
  BY <1>1, TypeCorrect, PTL

----------------------------------------------------------------------------
(***************************************************************************)
(* The safety invariants of Fulfillment, proved from type correctness and  *)
(* from an inductive strengthening of each.                                *)
(***************************************************************************)

\* No payment has two requests past the idempotency check without being marked,
\* and none is recorded while a request for it is past the check.
OverlapInv ==
  /\ \A v, w \in Workers, o \in Orders :
       (v # w /\ v \in InFlight(o) /\ w \in InFlight(o)) => o \in overlapped
  /\ \A w \in Workers, o \in Orders :
       (w \in InFlight(o) /\ Recorded(o)) => o \in overlapped
  /\ AtMostOnceUnlessOverlap

----------------------------------------------------------------------------
(* How a step changes who is in flight.                                      *)

Quiet ==
  /\ \A o \in Orders : InFlight(o)' \subseteq InFlight(o)
  /\ ledger' \subseteq ledger
  /\ overlapped' = overlapped

Enters(w) ==
  /\ ~ Recorded(req[w].order)
  /\ NoteOverlap(w)
  /\ ledger' = ledger
  /\ \A o \in Orders :
       InFlight(o)' \subseteq InFlight(o) \cup (IF o = req[w].order THEN {w} ELSE {})

Records(w) ==
  /\ w \in InFlight(req[w].order)
  /\ \E t : t.order = req[w].order /\ ledger' = ledger \cup {t}
  /\ overlapped' = overlapped
  /\ \A o \in Orders : InFlight(o)' \subseteq InFlight(o) \ {w}

LEMMA Leaves ==
  ASSUME TypeInv, NEW w \in Workers, NEW r, req' = [req EXCEPT ![w] = r],
         r.pc \notin {"terms", "lock", "write"}
  PROVE  \A o \in Orders : InFlight(o)' \subseteq InFlight(o) \ {w}
  BY DEF TypeInv, TypeOK, InFlight

LEMMA Stays ==
  ASSUME TypeInv, NEW w \in Workers, NEW r, req' = [req EXCEPT ![w] = r],
         r.order = req[w].order, req[w].pc \in {"terms", "lock", "write"}
  PROVE  \A o \in Orders : InFlight(o)' \subseteq InFlight(o)
  BY DEF TypeInv, TypeOK, InFlight

LEMMA Joins ==
  ASSUME TypeInv, NEW w \in Workers, NEW r, req' = [req EXCEPT ![w] = r],
         r.order = req[w].order
  PROVE  \A o \in Orders :
           InFlight(o)' \subseteq InFlight(o) \cup (IF o = req[w].order THEN {w} ELSE {})
  BY DEF TypeInv, TypeOK, InFlight

LEMMA FinishLeaves ==
  ASSUME TypeInv, NEW w \in Workers, req[w].pc # "idle", NEW s, Finish(w, s)
  PROVE  \A o \in Orders : InFlight(o)' \subseteq InFlight(o) \ {w}
<1> DEFINE r == [req[w] EXCEPT !.pc = "sync", !.outcome = s, !.locked = FALSE]
<1>1. r.pc = "sync"
  BY Busy DEF Request
<1>2. req' = [req EXCEPT ![w] = r]
  BY DEF Finish, Serve
<1> HIDE DEF r
<1> QED
  BY <1>1, <1>2, Leaves

LEMMA IdleLeaves ==
  ASSUME TypeInv, NEW w \in Workers, req' = [req EXCEPT ![w] = Idle]
  PROVE  \A o \in Orders : InFlight(o)' \subseteq InFlight(o) \ {w}
  BY Leaves DEF Idle

LEMMA FailLeaves ==
  ASSUME TypeInv, NEW w \in Workers, req[w].pc # "idle", Fail(w)
  PROVE  \A o \in Orders : InFlight(o)' \subseteq InFlight(o) \ {w}
<1>1. CASE Finish(w, "paid")
  BY <1>1, FinishLeaves
<1>2. CASE Serve(w, Idle)
  BY <1>2, IdleLeaves DEF Serve
<1> QED
  BY <1>1, <1>2 DEF Fail

----------------------------------------------------------------------------
LEMMA VerifyBeginFlight ==
  ASSUME TypeInv, NEW w \in Workers, NEW o \in Orders, VerifyBegin(w, o)
  PROVE  Quiet
<1>1. Serve(w, Idle) \/ \E x : Serve(w, NewRequest("verify", "none", o, "fetch", x))
  BY DEF VerifyBegin
<1>2. CASE Serve(w, Idle)
  BY <1>2, IdleLeaves DEF Serve, Quiet, VerifyBegin
<1>3. ASSUME NEW x, Serve(w, NewRequest("verify", "none", o, "fetch", x))
      PROVE  Quiet
  <2>1. NewRequest("verify", "none", o, "fetch", x).pc = "fetch"
    BY DEF NewRequest
  <2> QED
    BY <1>3, <2>1, Leaves DEF Serve, Quiet, VerifyBegin
<1> QED
  BY <1>1, <1>2, <1>3

LEMMA WebhookBeginFlight ==
  ASSUME TypeInv, NEW w \in Workers, NEW o \in Orders, NEW e \in Events,
         WebhookBegin(w, o, e)
  PROVE  Quiet
<1>1. NewRequest("webhook", e, o, "check", orders[o].amount).pc = "check"
  BY DEF NewRequest
<1> QED
  BY <1>1, Leaves DEF WebhookBegin, Serve, Quiet, db

LEMMA VerifyFetchFlight ==
  ASSUME TypeInv, NEW w \in Workers, VerifyFetch(w)
  PROVE  Quiet
<1>1. ledger' = ledger /\ overlapped' = overlapped
  BY DEF VerifyFetch, db
<1>2. CASE Serve(w, Idle)
  BY <1>1, <1>2, IdleLeaves DEF Serve, Quiet
<1>3. CASE Serve(w, [req[w] EXCEPT !.pc = "check"])
  <2>1. [req[w] EXCEPT !.pc = "check"].pc = "check"
    BY Busy DEF VerifyFetch, Request
  <2> QED
    BY <1>1, <1>3, <2>1, Leaves DEF Serve, Quiet
<1> QED
  BY <1>2, <1>3 DEF VerifyFetch

LEMMA CheckPlanPurchaseFlight ==
  ASSUME TypeInv, NEW w \in Workers, CheckPlanPurchase(w)
  PROVE  Quiet \/ Enters(w)
<1> DEFINE r == [req[w] EXCEPT !.pc = "terms", !.price = price[orders[req[w].order].item]]
<1>1. ledger' = ledger /\ req[w].pc # "idle" /\ req[w] \in Request
  BY Busy DEF CheckPlanPurchase, db
<1>2. CASE \E s : Finish(w, s) /\ UNCHANGED overlapped
  BY <1>1, <1>2, FinishLeaves DEF Quiet
<1>3. CASE ~ Recorded(req[w].order) /\ Serve(w, r) /\ NoteOverlap(w)
  <2>1. r.order = req[w].order
    BY <1>1 DEF Request
  <2>2. req' = [req EXCEPT ![w] = r]
    BY <1>3 DEF Serve
  <2> HIDE DEF r
  <2> QED
    BY <1>1, <1>3, <2>1, <2>2, Joins DEF Enters
<1> QED
  BY <1>2, <1>3 DEF CheckPlanPurchase

LEMMA CheckServiceChargeFlight ==
  ASSUME TypeInv, NEW w \in Workers, CheckServiceCharge(w)
  PROVE  Quiet \/ Enters(w)
<1> DEFINE r == [req[w] EXCEPT !.pc = "terms"]
<1>1. ledger' = ledger /\ req[w].pc # "idle" /\ req[w] \in Request
  BY Busy DEF CheckServiceCharge
<1>2. CASE \E s : Finish(w, s) /\ UNCHANGED overlapped
  BY <1>1, <1>2, FinishLeaves DEF Quiet
<1>3. CASE ~ Recorded(req[w].order) /\ GoTo(w, "terms") /\ NoteOverlap(w)
  <2>1. r.order = req[w].order
    BY <1>1 DEF Request
  <2>2. req' = [req EXCEPT ![w] = r]
    BY <1>3 DEF GoTo, Serve
  <2> HIDE DEF r
  <2> QED
    BY <1>1, <1>3, <2>1, <2>2, Joins DEF Enters
<1> QED
  BY <1>2, <1>3 DEF CheckServiceCharge, WithRemaining

LEMMA CheckPdfFlight ==
  ASSUME TypeInv, NEW w \in Workers, CheckPdf(w)
  PROVE  Quiet \/ Enters(w)
<1> DEFINE r == [req[w] EXCEPT !.pc = "lock"]
<1>1. ledger' = ledger /\ req[w].pc # "idle" /\ req[w] \in Request
  BY Busy DEF CheckPdf, db
<1>2. CASE \E s : Finish(w, s) /\ UNCHANGED overlapped
  BY <1>1, <1>2, FinishLeaves DEF Quiet
<1>3. CASE ~ Recorded(req[w].order) /\ GoTo(w, "lock") /\ NoteOverlap(w)
  <2>1. r.order = req[w].order
    BY <1>1 DEF Request
  <2>2. req' = [req EXCEPT ![w] = r]
    BY <1>3 DEF GoTo, Serve
  <2> HIDE DEF r
  <2> QED
    BY <1>1, <1>3, <2>1, <2>2, Joins DEF Enters
<1> QED
  BY <1>2, <1>3 DEF CheckPdf

\* The steps between the check and the commit.
LEMMA MiddleFlight ==
  ASSUME TypeInv, NEW w \in Workers,
         ReadPurchaseTerms(w) \/ LockUserPlan(w) \/ ReadServiceCharge(w) \/ LockPdf(w)
  PROVE  Quiet
<1>1. req[w] \in Request /\ req[w].pc \in {"terms", "lock"}
  BY Busy DEF ReadPurchaseTerms, LockUserPlan, ReadServiceCharge, LockPdf
<1>2. ledger' = ledger /\ overlapped' = overlapped
  BY DEF ReadPurchaseTerms, LockUserPlan, ReadServiceCharge, LockPdf, WithRemaining, db
<1>3. CASE Fail(w) \/ \E s : Finish(w, s)
  BY <1>1, <1>2, <1>3, FailLeaves, FinishLeaves DEF Quiet
<1>4. CASE \E r : r.order = req[w].order /\ Serve(w, r)
  BY <1>1, <1>2, <1>4, Stays DEF Serve, Quiet
<1>5. ReadPurchaseTerms(w) => \E r : r.order = req[w].order /\ Serve(w, r)
  <2> DEFINE r == [req[w] EXCEPT !.pc = "lock", !.charge = charge, !.day = today]
  <2>1. r.order = req[w].order
    BY <1>1 DEF Request
  <2> HIDE DEF r
  <2> QED
    BY <2>1 DEF ReadPurchaseTerms, r
<1>6. LockUserPlan(w) => \E r : r.order = req[w].order /\ Serve(w, r)
  <2> DEFINE r == [req[w] EXCEPT !.pc = "write", !.snap = userPlan[Buyer(w)],
                                 !.locked = (userPlan[Buyer(w)] # NoPlan)]
  <2>1. r.order = req[w].order
    BY <1>1 DEF Request
  <2> HIDE DEF r
  <2> QED
    BY <2>1 DEF LockUserPlan, r
<1>7. ReadServiceCharge(w) =>
        (Fail(w) \/ \E s : Finish(w, s)) \/ \E r : r.order = req[w].order /\ Serve(w, r)
  <2> DEFINE r == [req[w] EXCEPT !.pc = "lock", !.snap = Repaired(userPlan[Buyer(w)])]
  <2>1. r.order = req[w].order
    BY <1>1 DEF Request
  <2> HIDE DEF r
  <2> QED
    BY <2>1 DEF ReadServiceCharge, WithRemaining, r
<1>8. LockPdf(w) => (\E s : Finish(w, s)) \/ \E r : r.order = req[w].order /\ Serve(w, r)
  <2> DEFINE r == [req[w] EXCEPT !.pc = "write"]
  <2>1. r.order = req[w].order
    BY <1>1 DEF Request
  <2> HIDE DEF r
  <2> QED
    BY <2>1 DEF LockPdf, GoTo, r
<1> QED
  BY <1>3, <1>4, <1>5, <1>6, <1>7, <1>8

LEMMA RecordingFlight ==
  ASSUME TypeInv, NEW w \in Workers, req[w].pc \in {"lock", "write"}, NEW a,
         RecordTransaction(w, a), NEW s, Finish(w, s), UNCHANGED overlapped
  PROVE  Records(w)
<1> DEFINE t == [id |-> nextId, order |-> req[w].order, user |-> Buyer(w), amount |-> a]
<1>1. t.order = req[w].order /\ ledger' = ledger \cup {t}
  BY DEF RecordTransaction
<1>2. w \in InFlight(req[w].order)
  BY DEF InFlight
<1>3. \A o \in Orders : InFlight(o)' \subseteq InFlight(o) \ {w}
  BY FinishLeaves
<1> HIDE DEF t
<1> QED
  BY <1>1, <1>2, <1>3 DEF Records

LEMMA CommitFlight ==
  ASSUME TypeInv, NEW w \in Workers, ActivatePlan(w) \/ PayRemaining(w) \/ GrantPdf(w)
  PROVE  Quiet \/ Records(w)
<1>1. req[w].pc \in {"lock", "write"} /\ overlapped' = overlapped
  BY DEF ActivatePlan, PayRemaining, GrantPdf
<1>2. CASE \E a, s : RecordTransaction(w, a) /\ Finish(w, s)
  BY <1>1, <1>2, RecordingFlight
<1>3. CASE (Fail(w) \/ \E s : Finish(w, s)) /\ ledger' = ledger
  BY <1>1, <1>3, FailLeaves, FinishLeaves DEF Quiet
<1> QED
  BY <1>2, <1>3 DEF ActivatePlan, PayRemaining, GrantPdf

LEMMA OrderRowFlight ==
  ASSUME TypeInv, NEW w \in Workers, ReadOrderRow(w) \/ SaveOrderRow(w) \/ LoseOrderRow(w)
  PROVE  Quiet
<1>1. CASE ReadOrderRow(w)
  <2> DEFINE r == [req[w] EXCEPT !.pc = "save", !.seen = orderRow[req[w].order]]
  <2>1. r.pc = "save"
    BY <1>1, Busy DEF ReadOrderRow, Request
  <2>2. req' = [req EXCEPT ![w] = r] /\ ledger' = ledger /\ overlapped' = overlapped
    BY <1>1 DEF ReadOrderRow, Serve, db
  <2> HIDE DEF r
  <2> QED
    BY <2>1, <2>2, Leaves DEF Quiet
<1>2. CASE SaveOrderRow(w) \/ LoseOrderRow(w)
  BY <1>2, IdleLeaves DEF SaveOrderRow, LoseOrderRow, Answer, Quiet, db
<1> QED
  BY <1>1, <1>2

LEMMA FlightSteps ==
  ASSUME TypeInv, [Next]_vars
  PROVE  Quiet \/ \E w \in Workers : Enters(w) \/ Records(w)
<1>1. CASE UNCHANGED <<req, ledger, overlapped>>
  BY <1>1 DEF Quiet, InFlight
<1>2. CASE \E w \in Workers : Crash(w)
  BY <1>2, IdleLeaves DEF Crash, Quiet, db
<1>3. CASE \E u \in Users : RemoveTransactions(u)
  BY <1>3 DEF RemoveTransactions, Quiet, InFlight
<1>4. CASE \E w \in Workers : Progress(w)
  BY <1>4, VerifyFetchFlight, CheckPlanPurchaseFlight, CheckServiceChargeFlight,
     CheckPdfFlight, MiddleFlight, CommitFlight, OrderRowFlight DEF Progress
<1>5. CASE \E w \in Workers, o \in Orders :
             VerifyBegin(w, o) \/ \E e \in Events : WebhookBegin(w, o, e)
  BY <1>5, VerifyBeginFlight, WebhookBeginFlight
<1>6. Checkout \/ (\E o \in Orders : Capture(o)) \/ (\E u \in Users : RemoveUserPlan(u))
      \/ AdminEdit \/ NextDay \/ UNCHANGED vars => UNCHANGED <<req, ledger, overlapped>>
  BY DEF Checkout, PlanOrderView, ServiceChargeOrderView, AstrologyPdfOrderView, Capture,
         RemoveUserPlan, AdminEdit, NextDay, vars, db
<1> QED
  BY <1>1, <1>2, <1>3, <1>4, <1>5, <1>6 DEF Next

----------------------------------------------------------------------------
LEMMA OverlapStep ==
  ASSUME TypeInv, OverlapInv, [Next]_vars
  PROVE  OverlapInv'
<1>1. CASE Quiet
  BY <1>1 DEF OverlapInv, Quiet, Recorded, AtMostOnceUnlessOverlap
<1>2. ASSUME NEW w \in Workers, Enters(w)
      PROVE  OverlapInv'
  <2>1. overlapped \subseteq overlapped'
        /\ (InFlight(req[w].order) # {} => req[w].order \in overlapped')
    BY <1>2 DEF Enters, NoteOverlap
  <2> QED
    BY <1>2, <2>1 DEF OverlapInv, Enters, Recorded, AtMostOnceUnlessOverlap
<1>3. ASSUME NEW w \in Workers, Records(w)
      PROVE  OverlapInv'
  <2>1. PICK t : t.order = req[w].order /\ ledger' = ledger \cup {t}
    BY <1>3 DEF Records
  <2>2. \A x \in ledger : x.order \in Orders
    BY DEF TypeInv, TypeOK, Transaction
  <2>3. req[w].order \in Orders
    BY <1>3, Busy DEF Records, InFlight, Request
  <2>4. AtMostOnceUnlessOverlap'
    BY <1>3, <2>1, <2>2, <2>3 DEF OverlapInv, Records, Recorded, AtMostOnceUnlessOverlap
  <2>5. \A v \in Workers, o \in Orders :
          (v \in InFlight(o)' /\ Recorded(o)') => o \in overlapped'
    BY <1>3, <2>1 DEF OverlapInv, Records, Recorded
  <2> QED
    BY <1>3, <2>4, <2>5 DEF OverlapInv, Records
<1> QED
  BY <1>1, <1>2, <1>3, FlightSteps

LEMMA OverlapHolds == Spec => []OverlapInv
<1>1. Init => OverlapInv
  BY DEF Init, OverlapInv, AtMostOnceUnlessOverlap, InFlight, Idle
<1>2. TypeInv /\ OverlapInv /\ [Next]_vars => OverlapInv'
  BY OverlapStep
<1> QED
  BY <1>1, <1>2, TypeCorrect, PTL DEF Spec

\* A payment is recorded twice only if two requests were past its idempotency
\* check at once (Fulfillment!AtMostOnceUnlessOverlap), for any number of
\* threads, redeliveries, crashes and removals.
THEOREM AtMostOnce == Spec => []AtMostOnceUnlessOverlap
<1>1. OverlapInv => AtMostOnceUnlessOverlap
  BY DEF OverlapInv
<1> QED
  BY <1>1, OverlapHolds, PTL

----------------------------------------------------------------------------
(* What is shown as fulfilled is recorded.                                   *)

Verdicts == {"paid", "skipped", "fulfilled"}

Covered(o) == Recorded(o) \/ removals[orders[o].user] > 0

RemovalsCounted == \A u \in removing : removals[u] > 0

RowsFollowOrders == \A o \in Orders : orders[o] = NoOrder => orderRow[o] = "absent"

\* A verdict that is on its way to the order row is as true as one that has arrived.
VerdictsTrue ==
  \A w \in Workers : req[w].pc \in {"sync", "save"} =>
    /\ req[w].outcome \in Verdicts
    /\ req[w].outcome = "fulfilled" => Covered(req[w].order)

FulfilledInv ==
  RemovalsCounted /\ RowsFollowOrders /\ VerdictsTrue /\ FulfilledHasTransaction

----------------------------------------------------------------------------
(* The steps of a request up to its verdict.                                 *)

Steady ==
  /\ UNCHANGED <<orders, captured, removals, removing, orderRow>>
  /\ ledger \subseteq ledger'

Working(w) == \E r : req' = [req EXCEPT ![w] = r] /\ r.pc \notin {"sync", "save"}

\* The payment of the request in w is recorded after the step.
Entered(w) == \E t \in ledger' : t.order = req[w].order

Concludes(w) ==
  req[w] \in Request /\ \E s \in Verdicts : Finish(w, s) /\ (s = "fulfilled" => Entered(w))

Serving(w) == req[w].pc \notin {"sync", "save"} /\ Steady /\ (Working(w) \/ Concludes(w))

LEMMA WorkingBy ==
  ASSUME NEW w \in Workers, NEW r, Serve(w, r), r.pc \notin {"sync", "save"}
  PROVE  Working(w)
  BY DEF Serve, Working

LEMMA ConcludesBy ==
  ASSUME NEW w \in Workers, req[w] \in Request, NEW s \in Verdicts, Finish(w, s),
         s = "fulfilled" => Entered(w)
  PROVE  Concludes(w)
  BY DEF Concludes

LEMMA VerdictsAre == \A s \in {"paid", "skipped", "fulfilled"} : s \in Verdicts
  BY DEF Verdicts

LEMMA BeginServes ==
  ASSUME TypeInv, NEW w \in Workers, NEW o \in Orders,
         VerifyBegin(w, o) \/ \E e \in Events : WebhookBegin(w, o, e)
  PROVE  Serving(w)
<1>1. Steady
  <2>1. CASE VerifyBegin(w, o)
    BY <2>1 DEF VerifyBegin, Serve, Steady, gateway
  <2>2. CASE \E e \in Events : WebhookBegin(w, o, e)
    BY <2>2 DEF WebhookBegin, Serve, Steady, db, gateway
  <2> QED
    BY <2>1, <2>2
<1>2. \A k, e, x : NewRequest(k, e, o, "fetch", x).pc = "fetch"
                   /\ NewRequest(k, e, o, "check", x).pc = "check" /\ Idle.pc = "idle"
  BY DEF NewRequest, Idle
<1>5. req[w].pc = "idle"
  <2>1. req[w] = Idle
    BY DEF VerifyBegin, WebhookBegin
  <2> QED
    BY <1>2, <2>1
<1>3. CASE VerifyBegin(w, o)
  <2>1. Serve(w, Idle) \/ \E x : Serve(w, NewRequest("verify", "none", o, "fetch", x))
    BY <1>3 DEF VerifyBegin
  <2> QED
    BY <1>1, <1>2, <1>5, <2>1, WorkingBy DEF Serving
<1>4. CASE \E e \in Events : WebhookBegin(w, o, e)
  BY <1>1, <1>2, <1>4, <1>5, WorkingBy DEF WebhookBegin, Serving
<1> QED
  BY <1>3, <1>4

LEMMA FailConcludes ==
  ASSUME TypeInv, NEW w \in Workers, req[w] \in Request, Fail(w)
  PROVE  Working(w) \/ Concludes(w)
<1>1. CASE Finish(w, "paid")
  BY <1>1, ConcludesBy, VerdictsAre
<1>2. CASE Serve(w, Idle)
  <2>1. Idle.pc \notin {"sync", "save"}
    BY DEF Idle
  <2> QED
    BY <1>2, <2>1, WorkingBy
<1> QED
  BY <1>1, <1>2 DEF Fail

LEMMA CheckServes ==
  ASSUME TypeInv, NEW w \in Workers,
         VerifyFetch(w) \/ CheckPlanPurchase(w) \/ CheckServiceCharge(w) \/ CheckPdf(w)
  PROVE  Serving(w)
<1>1. req[w] \in Request /\ req[w].pc \in {"fetch", "check"}
  BY Busy DEF VerifyFetch, CheckPlanPurchase, CheckServiceCharge, CheckPdf
<1>2. Steady
  BY DEF VerifyFetch, CheckPlanPurchase, CheckServiceCharge, CheckPdf, WithRemaining, GoTo,
         Finish, Serve, Steady, db, gateway
<1>3. ledger' = ledger
  BY DEF VerifyFetch, CheckPlanPurchase, CheckServiceCharge, CheckPdf, db
<1>4. \A x \in {"check", "terms", "lock"} : [req[w] EXCEPT !.pc = x].pc = x
  BY <1>1 DEF Request
<1>5. \A x : [req[w] EXCEPT !.pc = "terms", !.price = x].pc = "terms"
  BY <1>1 DEF Request
<1>6. Recorded(req[w].order) => Entered(w)
  BY <1>3 DEF Recorded, Entered
<1>7. Working(w) \/ Concludes(w)
  <2>1. CASE VerifyFetch(w)
    <3>1. Idle.pc = "idle"
      BY DEF Idle
    <3> QED
      BY <2>1, <3>1, <1>4, WorkingBy DEF VerifyFetch
  <2>2. CASE CheckPlanPurchase(w)
    BY <2>2, <1>1, <1>6, <1>5, WorkingBy, ConcludesBy, VerdictsAre DEF CheckPlanPurchase
  <2>3. CASE CheckServiceCharge(w)
    BY <2>3, <1>1, <1>6, <1>4, WorkingBy, ConcludesBy, VerdictsAre
       DEF CheckServiceCharge, WithRemaining, GoTo
  <2>4. CASE CheckPdf(w)
    BY <2>4, <1>1, <1>6, <1>4, WorkingBy, ConcludesBy, VerdictsAre DEF CheckPdf, GoTo
  <2> QED
    BY <2>1, <2>2, <2>3, <2>4
<1> QED
  BY <1>1, <1>2, <1>7 DEF Serving

LEMMA MiddleServes ==
  ASSUME TypeInv, NEW w \in Workers,
         ReadPurchaseTerms(w) \/ LockUserPlan(w) \/ ReadServiceCharge(w) \/ LockPdf(w)
  PROVE  Serving(w)
<1>1. req[w] \in Request /\ req[w].pc \in {"terms", "lock"}
  BY Busy DEF ReadPurchaseTerms, LockUserPlan, ReadServiceCharge, LockPdf
<1>2. ledger' = ledger
  BY DEF ReadPurchaseTerms, LockUserPlan, ReadServiceCharge, LockPdf, db
<1>3. Steady
  BY DEF ReadPurchaseTerms, LockUserPlan, ReadServiceCharge, LockPdf, WithRemaining, GoTo,
         Finish, Fail, Serve, Steady, db, gateway
<1>4. \A x, y : /\ [req[w] EXCEPT !.pc = "lock", !.charge = x, !.day = y].pc = "lock"
                /\ [req[w] EXCEPT !.pc = "write", !.snap = x, !.locked = y].pc = "write"
                /\ [req[w] EXCEPT !.pc = "lock", !.snap = x].pc = "lock"
                /\ [req[w] EXCEPT !.pc = "write"].pc = "write"
  BY <1>1 DEF Request
<1>5. Recorded(req[w].order) => Entered(w)
  BY <1>2 DEF Recorded, Entered
<1>6. Working(w) \/ Concludes(w)
  <2>1. CASE ReadPurchaseTerms(w)
    BY <2>1, <1>4, WorkingBy DEF ReadPurchaseTerms
  <2>2. CASE LockUserPlan(w)
    BY <2>2, <1>4, WorkingBy DEF LockUserPlan
  <2>3. CASE ReadServiceCharge(w)
    BY <2>3, <1>1, <1>4, FailConcludes, WorkingBy, ConcludesBy, VerdictsAre
       DEF ReadServiceCharge, WithRemaining
  <2>4. CASE LockPdf(w)
    BY <2>4, <1>1, <1>5, <1>4, WorkingBy, ConcludesBy, VerdictsAre DEF LockPdf, GoTo
  <2> QED
    BY <2>1, <2>2, <2>3, <2>4
<1> QED
  BY <1>1, <1>3, <1>6 DEF Serving

LEMMA CommitServes ==
  ASSUME TypeInv, NEW w \in Workers, ActivatePlan(w) \/ PayRemaining(w) \/ GrantPdf(w)
  PROVE  Serving(w)
<1>1. req[w] \in Request /\ req[w].pc \in {"lock", "write"}
  BY Busy DEF ActivatePlan, PayRemaining, GrantPdf
<1>2. Steady
  BY DEF ActivatePlan, PayRemaining, GrantPdf, RecordTransaction, Finish, Fail, Serve,
         Steady, gateway
<1>3. ASSUME NEW a, RecordTransaction(w, a) PROVE Entered(w)
  <2> DEFINE t == [id |-> nextId, order |-> req[w].order, user |-> Buyer(w), amount |-> a]
  <2>1. t \in ledger' /\ t.order = req[w].order
    BY <1>3 DEF RecordTransaction
  <2> HIDE DEF t
  <2> QED
    BY <2>1 DEF Entered
<1>4. Working(w) \/ Concludes(w)
  BY <1>1, <1>3, FailConcludes, ConcludesBy, VerdictsAre DEF ActivatePlan, PayRemaining, GrantPdf
<1> QED
  BY <1>1, <1>2, <1>4 DEF Serving

----------------------------------------------------------------------------
(* The kinds of steps.                                                       *)

Resting == Steady /\ (req' = req \/ \E w \in Workers : req' = [req EXCEPT ![w] = Idle])

Ordering ==
  /\ UNCHANGED <<ledger, captured, req, removals, removing, overlapped>>
  /\ \/ UNCHANGED <<orders, orderRow>>
     \/ \E o \in Orders, row \in {"absent", "created"} :
          /\ orders[o] = NoOrder /\ orderRow' = [orderRow EXCEPT ![o] = row]
          /\ \E n : n # NoOrder /\ orders' = [orders EXCEPT ![o] = n]

LEMMA PlaceOrderOrders ==
  ASSUME NEW o \in Orders, NEW n, PlaceOrder(o, n), n.purpose # "none",
         UNCHANGED <<ledger, captured, req, removals, removing, overlapped>>
  PROVE  Ordering
<1>1. n # NoOrder
  BY DEF NoOrder
<1>2. PICK row \in {"absent", "created"} : orderRow' = [orderRow EXCEPT ![o] = row]
  BY DEF PlaceOrder
<1>3. orders[o] = NoOrder /\ orders' = [orders EXCEPT ![o] = n]
  BY DEF PlaceOrder
<1> QED
  BY <1>1, <1>2, <1>3 DEF Ordering

LEMMA CheckoutOrders == Checkout => Ordering
<1>1. ASSUME NEW o \in Orders, NEW u \in Users, NEW p \in Plans, NEW option \in Options,
             PlanOrderView(o, u, p, option)
      PROVE  Ordering
  <2> DEFINE n == [user |-> u, purpose |-> "plan_purchase", item |-> p, option |-> option,
                   amount |-> inr_to_paise(PurchaseAmount(option, price[p], charge))]
  <2>1. n.purpose # "none"
    OBVIOUS
  <2>2. PlaceOrder(o, n) /\ UNCHANGED <<ledger, captured, req, removals, removing, overlapped>>
    BY <1>1 DEF PlanOrderView, db
  <2> HIDE DEF n
  <2> QED
    BY <2>1, <2>2, PlaceOrderOrders
<1>2. ASSUME NEW o \in Orders, NEW u \in Users, ServiceChargeOrderView(o, u)
      PROVE  Ordering
  <2> DEFINE n == [user |-> u, purpose |-> "service_charge", item |-> "none",
                   option |-> PlanOnly, amount |-> inr_to_paise(ChargeRemaining(userPlan[u]))]
  <2>1. n.purpose # "none"
    OBVIOUS
  <2>2. /\ PlaceOrder(o, n) \/ UNCHANGED <<orders, orderRow>>
        /\ UNCHANGED <<ledger, captured, req, removals, removing, overlapped>>
    BY <1>2 DEF ServiceChargeOrderView
  <2> HIDE DEF n
  <2> QED
    BY <2>1, <2>2, PlaceOrderOrders DEF Ordering
<1>3. ASSUME NEW o \in Orders, NEW u \in Users, NEW p \in Products,
             AstrologyPdfOrderView(o, u, p)
      PROVE  Ordering
  <2> DEFINE n == [user |-> u, purpose |-> "astrology_pdf", item |-> p, option |-> PlanOnly,
                   amount |-> inr_to_paise(CatalogPrice[p])]
  <2>1. n.purpose # "none"
    OBVIOUS
  <2>2. PlaceOrder(o, n) /\ UNCHANGED <<ledger, captured, req, removals, removing, overlapped>>
    BY <1>3 DEF AstrologyPdfOrderView, db
  <2> HIDE DEF n
  <2> QED
    BY <2>1, <2>2, PlaceOrderOrders
<1> QED
  BY <1>1, <1>2, <1>3 DEF Checkout

LEMMA StepKinds ==
  ASSUME TypeInv, [Next]_vars
  PROVE  \/ \E w \in Workers : Serving(w) \/ ReadOrderRow(w) \/ SaveOrderRow(w)
         \/ Resting \/ Ordering \/ \E o \in Orders : Capture(o)
         \/ \E u \in Users : RemoveUserPlan(u) \/ RemoveTransactions(u)
<1>0. ASSUME NEW w \in Workers, LoseOrderRow(w) PROVE Resting
  BY <1>0 DEF LoseOrderRow, Answer, Resting, Steady, db, gateway
<1>1. CASE \E w \in Workers : Progress(w)
  BY <1>0, <1>1, CheckServes, MiddleServes, CommitServes DEF Progress
<1>2. CASE \E w \in Workers, o \in Orders :
             VerifyBegin(w, o) \/ \E e \in Events : WebhookBegin(w, o, e)
  BY <1>2, BeginServes
<1>3. CASE (\E w \in Workers : Crash(w)) \/ AdminEdit \/ NextDay \/ UNCHANGED vars
  BY <1>3 DEF Crash, AdminEdit, NextDay, vars, db, gateway, Resting, Steady
<1> QED
  BY <1>1, <1>2, <1>3, CheckoutOrders DEF Next

----------------------------------------------------------------------------
(* What is shown as fulfilled is recorded.                                   *)

\* What is recorded of a placed order, or lost to a removal, stays so.
LEMMA CoveredStays ==
  ASSUME TypeInv, FulfilledInv, [Next]_vars, NEW o \in Orders, orders[o] # NoOrder, Covered(o)
  PROVE  Covered(o)' /\ orders'[o] = orders[o]
<1>1. orders[o].user \in Users
  BY DEF TypeInv, TypeOK, OrderNotes
<1>2. CASE ledger \subseteq ledger' /\ UNCHANGED <<orders, removals>>
  BY <1>2 DEF Covered, Recorded
<1>3. CASE Ordering
  BY <1>3 DEF Covered, Recorded, Ordering, TypeInv, TypeOK
<1>4. ASSUME NEW u \in Users, RemoveUserPlan(u)
      PROVE  Covered(o)' /\ orders'[o] = orders[o]
  BY <1>1, <1>4 DEF RemoveUserPlan, Covered, Recorded, TypeInv, TypeOK, gateway
<1>5. ASSUME NEW u \in Users, RemoveTransactions(u)
      PROVE  Covered(o)' /\ orders'[o] = orders[o]
  <2>1. UNCHANGED <<orders, removals>> /\ removals[u] > 0
    BY <1>5 DEF RemoveTransactions, FulfilledInv, RemovalsCounted, gateway
  <2>2. CASE orders[o].user = u
    BY <2>1, <2>2 DEF Covered
  <2>3. CASE orders[o].user # u
    BY <1>5, <2>1, <2>3 DEF RemoveTransactions, Covered, Recorded, TypeInv, TablesLinked
  <2> QED
    BY <2>2, <2>3
<1>6. ((\E w \in Workers : Serving(w) \/ ReadOrderRow(w) \/ SaveOrderRow(w)) \/ Resting
         \/ \E x \in Orders : Capture(x))
       => ledger \subseteq ledger' /\ UNCHANGED <<orders, removals>>
  BY DEF Serving, ReadOrderRow, SaveOrderRow, Serve, Resting, Steady, Capture, db, gateway
<1> QED
  BY <1>2, <1>3, <1>4, <1>5, <1>6, StepKinds

LEMMA RemovalsStayCounted ==
  ASSUME TypeInv, FulfilledInv, [Next]_vars
  PROVE  RemovalsCounted'
<1>1. CASE UNCHANGED <<removing, removals>>
  BY <1>1 DEF FulfilledInv, RemovalsCounted
<1>2. ASSUME NEW u \in Users, RemoveUserPlan(u)
      PROVE  RemovalsCounted'
  BY <1>2 DEF RemoveUserPlan, FulfilledInv, RemovalsCounted, TypeInv, TypeOK
<1>3. ASSUME NEW u \in Users, RemoveTransactions(u)
      PROVE  RemovalsCounted'
  BY <1>3 DEF RemoveTransactions, FulfilledInv, RemovalsCounted
<1>4. ((\E w \in Workers : Serving(w) \/ ReadOrderRow(w) \/ SaveOrderRow(w)) \/ Resting
         \/ Ordering \/ \E x \in Orders : Capture(x))
       => UNCHANGED <<removing, removals>>
  BY DEF Serving, ReadOrderRow, SaveOrderRow, Serve, Resting, Steady, Capture, Ordering
<1> QED
  BY <1>1, <1>2, <1>3, <1>4, StepKinds

LEMMA SavedIs ==
  ASSUME NEW a, NEW b, NEW c
  PROVE  SavedStatus(a, b, c) \in {b, c}
  BY DEF SavedStatus

\* What a step of record_order_outcome does to the row.
LEMMA SaveRow ==
  ASSUME TypeInv, NEW w \in Workers, SaveOrderRow(w)
  PROVE  /\ req[w].pc = "save" /\ req[w].order \in captured /\ req[w].order \in Orders
         /\ orders[req[w].order] # NoOrder
         /\ UNCHANGED <<orders, captured, ledger, removals, removing, overlapped>>
         /\ \E s \in {orderRow[req[w].order], req[w].outcome} :
              orderRow' = [orderRow EXCEPT ![req[w].order] = s]
<1>1. req[w].pc = "save"
  BY DEF SaveOrderRow
<1>2. req[w].order \in captured /\ req[w].order \in Orders /\ orders[req[w].order] # NoOrder
  BY <1>1, Busy DEF TypeInv, TypeOK, TablesLinked
<1>3. orderRow' = [orderRow EXCEPT ![req[w].order] =
                     SavedStatus(req[w].seen, orderRow[req[w].order], req[w].outcome)]
  BY <1>2 DEF SaveOrderRow, TypeInv, TypeOK
<1>4. UNCHANGED <<orders, captured, ledger, removals, removing, overlapped>>
  BY DEF SaveOrderRow, db, gateway
<1>5. SavedStatus(req[w].seen, orderRow[req[w].order], req[w].outcome)
        \in {orderRow[req[w].order], req[w].outcome}
  BY SavedIs
<1> QED
  BY <1>1, <1>2, <1>3, <1>4, <1>5

LEMMA RowsStay ==
  ASSUME TypeInv, FulfilledInv, [Next]_vars
  PROVE  RowsFollowOrders'
<1>1. CASE UNCHANGED <<orders, orderRow>>
  BY <1>1 DEF FulfilledInv, RowsFollowOrders
<1>2. CASE Ordering
  BY <1>2 DEF Ordering, FulfilledInv, RowsFollowOrders, TypeInv, TypeOK
<1>3. ASSUME NEW w \in Workers, SaveOrderRow(w)
      PROVE  RowsFollowOrders'
  BY <1>3, SaveRow DEF FulfilledInv, RowsFollowOrders, TypeInv, TypeOK
<1>4. ((\E w \in Workers : Serving(w) \/ ReadOrderRow(w)) \/ Resting
         \/ (\E x \in Orders : Capture(x))
         \/ \E u \in Users : RemoveUserPlan(u) \/ RemoveTransactions(u))
       => UNCHANGED <<orders, orderRow>>
  BY DEF Serving, ReadOrderRow, Serve, Resting, Steady, Capture, RemoveUserPlan,
         RemoveTransactions, gateway
<1> QED
  BY <1>1, <1>2, <1>3, <1>4, StepKinds

LEMMA FulfilledStays ==
  ASSUME TypeInv, FulfilledInv, [Next]_vars
  PROVE  FulfilledHasTransaction'
<1> SUFFICES ASSUME NEW o \in Orders, orderRow'[o] = "fulfilled"
             PROVE  Covered(o)'
  BY DEF FulfilledHasTransaction, Covered
<1>1. CASE orderRow[o] = "fulfilled"
  <2>1. Covered(o) /\ orders[o] # NoOrder
    BY <1>1 DEF FulfilledInv, FulfilledHasTransaction, Covered, RowsFollowOrders
  <2> QED
    BY <2>1, CoveredStays
<1>2. ASSUME NEW w \in Workers, SaveOrderRow(w), orderRow[o] # "fulfilled"
      PROVE  Covered(o)'
  <2>1. o = req[w].order /\ req[w].outcome = "fulfilled" /\ orders[o] # NoOrder
    BY <1>2, SaveRow DEF TypeInv, TypeOK
  <2>2. Covered(o)
    BY <1>2, <2>1, SaveRow DEF FulfilledInv, VerdictsTrue
  <2> QED
    BY <2>1, <2>2, CoveredStays
<1>3. CASE Ordering
  BY <1>1, <1>3 DEF Ordering, TypeInv, TypeOK
<1>4. ((\E w \in Workers : Serving(w) \/ ReadOrderRow(w)) \/ Resting
         \/ (\E x \in Orders : Capture(x))
         \/ \E u \in Users : RemoveUserPlan(u) \/ RemoveTransactions(u))
       => UNCHANGED orderRow
  BY DEF Serving, ReadOrderRow, Serve, Resting, Steady, Capture, RemoveUserPlan,
         RemoveTransactions, gateway
<1> QED
  BY <1>1, <1>2, <1>3, <1>4, StepKinds

LEMMA VerdictsStay ==
  ASSUME TypeInv, FulfilledInv, [Next]_vars
  PROVE  VerdictsTrue'
<1> SUFFICES ASSUME NEW v \in Workers, req'[v].pc \in {"sync", "save"}
             PROVE  /\ req'[v].outcome \in Verdicts
                    /\ req'[v].outcome = "fulfilled" => Covered(req[v].order)'
  BY DEF VerdictsTrue
<1> DEFINE Goal == /\ req'[v].outcome \in Verdicts
                   /\ req'[v].outcome = "fulfilled" => Covered(req[v].order)'
<1>1. CASE req[v].pc \in {"sync", "save"} /\ req'[v].outcome = req[v].outcome
           /\ req'[v].order = req[v].order
  <2>1. req[v].order \in Orders /\ orders[req[v].order] # NoOrder
    BY <1>1, Busy DEF TypeInv, TypeOK, TablesLinked
  <2>2. req[v].outcome \in Verdicts
        /\ (req[v].outcome = "fulfilled" => Covered(req[v].order))
    BY <1>1 DEF FulfilledInv, VerdictsTrue
  <2>3. PICK o \in Orders : o = req[v].order
    BY <2>1
  <2>4. Covered(o) => Covered(o)'
    BY <2>1, <2>3, CoveredStays
  <2> QED
    BY <1>1, <2>2, <2>3, <2>4 DEF Covered, Recorded
<1>2. CASE req'[v] = req[v]
  BY <1>1, <1>2
<1>3. ASSUME NEW w \in Workers, Serving(w), req'[v] # req[v]
      PROVE  Goal
  <2>1. ~Working(w)
    BY <1>3 DEF Working, TypeInv, TypeOK
  <2>2. PICK s \in Verdicts : Finish(w, s) /\ (s = "fulfilled" => Entered(w))
    BY <1>3, <2>1 DEF Serving, Concludes
  <2> DEFINE r == [req[w] EXCEPT !.pc = "sync", !.outcome = s, !.locked = FALSE]
  <2>3. v = w /\ req'[v] = r
    BY <1>3, <2>2 DEF Finish, Serve, TypeInv, TypeOK
  <2>4. r.outcome = s /\ r.order = req[w].order
    BY <1>3, <2>1 DEF Serving, Concludes, Request
  <2> HIDE DEF r
  <2> QED
    BY <2>2, <2>3, <2>4 DEF Entered, Covered, Recorded
<1>4. ASSUME NEW w \in Workers, ReadOrderRow(w)
      PROVE  Goal
  <2> DEFINE r == [req[w] EXCEPT !.pc = "save", !.seen = orderRow[req[w].order]]
  <2>1. req[w].pc = "sync" /\ req[w] \in Request /\ req' = [req EXCEPT ![w] = r]
    BY <1>4, Busy DEF ReadOrderRow, Serve
  <2>2. r.outcome = req[w].outcome /\ r.order = req[w].order
    BY <2>1 DEF Request
  <2> HIDE DEF r
  <2> QED
    BY <2>1, <2>2, <1>1, <1>2 DEF TypeInv, TypeOK
<1>5. CASE \E w \in Workers : req' = [req EXCEPT ![w] = Idle]
  BY <1>2, <1>5 DEF Idle, TypeInv, TypeOK
<1>6. (\E w \in Workers : SaveOrderRow(w)) \/ Resting
       => req' = req \/ \E w \in Workers : req' = [req EXCEPT ![w] = Idle]
  BY DEF SaveOrderRow, Answer, Resting
<1>7. Ordering \/ (\E x \in Orders : Capture(x))
         \/ (\E u \in Users : RemoveUserPlan(u) \/ RemoveTransactions(u))
       => req' = req
  BY DEF Ordering, Capture, RemoveUserPlan, RemoveTransactions
<1> HIDE DEF Goal
<1>8. Goal
  BY <1>2, <1>3, <1>4, <1>5, <1>6, <1>7, StepKinds DEF Goal
<1> QED
  BY <1>8 DEF Goal

LEMMA FulfilledInit == Init => FulfilledInv
  BY DEF Init, FulfilledInv, RemovalsCounted, RowsFollowOrders, VerdictsTrue,
         FulfilledHasTransaction, Idle

LEMMA FulfilledStep ==
  ASSUME TypeInv, FulfilledInv, [Next]_vars
  PROVE  FulfilledInv'
  BY RemovalsStayCounted, RowsStay, VerdictsStay, FulfilledStays DEF FulfilledInv

LEMMA FulfilledHolds == Spec => []FulfilledInv
<1>1. TypeInv /\ FulfilledInv /\ [Next]_vars => FulfilledInv'
  BY FulfilledStep
<1> QED
  BY <1>1, FulfilledInit, TypeCorrect, PTL DEF Spec

\* An order that is shown as fulfilled has a transaction, unless its member has removed a
\* plan (Fulfillment!FulfilledHasTransaction; record_order_outcome).
THEOREM FulfilledIsRecorded == Spec => []FulfilledHasTransaction
<1>1. FulfilledInv => FulfilledHasTransaction
  BY DEF FulfilledInv
<1> QED
  BY <1>1, FulfilledHolds, PTL

----------------------------------------------------------------------------
(* Every step is a step of Settlement, or none.                              *)

LEMMA ShownSame ==
  ASSUME UNCHANGED orderRow
  PROVE  Shown' = Shown
  BY DEF Shown

LEMMA LeftSame ==
  ASSUME UNCHANGED <<orders, removals>>
  PROVE  Left' = Left
  BY DEF Left

\* Steps of requests that write no order row: a booking, a contest or nothing.
LEMMA SteadyRefines ==
  ASSUME TypeInv, OverlapInv, [Next]_vars, Steady
  PROVE  Books!Next \/ UNCHANGED Books!vars
<1>1. UNCHANGED <<captured, Shown, Left>> /\ ledger \subseteq ledger'
  BY ShownSame, LeftSame DEF Steady
<1>2. CASE Quiet
  BY <1>1, <1>2 DEF Quiet, Books!vars
<1>3. ASSUME NEW w \in Workers, Enters(w), overlapped' # overlapped
      PROVE  Books!Next
  <2>1. /\ InFlight(req[w].order) # {} /\ overlapped' = overlapped \cup {req[w].order}
        /\ ~Recorded(req[w].order) /\ ledger' = ledger
    BY <1>3 DEF Enters, NoteOverlap
  <2>2. req[w].order \in captured /\ req[w].order \in Orders
    BY <2>1, Busy DEF InFlight, Request
  <2>3. Books!Contest(req[w].order)
    BY <1>1, <2>1, <2>2 DEF Books!Contest, Books!Booked, Recorded
  <2> QED
    BY <2>2, <2>3 DEF Books!Next
<1>4. ASSUME NEW w \in Workers, Records(w)
      PROVE  Books!Next
  <2>1. req[w].order \in captured /\ req[w].order \in Orders
    BY <1>4, Busy DEF Records, InFlight, Request
  <2>2. Recorded(req[w].order) => req[w].order \in overlapped
    BY <1>4, <2>1 DEF Records, OverlapInv
  <2>3. Books!Book(req[w].order)
    BY <1>1, <1>4, <2>1, <2>2 DEF Books!Book, Books!Booked, Recorded, Records
  <2> QED
    BY <2>1, <2>3 DEF Books!Next
<1>5. ASSUME NEW w \in Workers, Enters(w), overlapped' = overlapped
      PROVE  UNCHANGED Books!vars
  BY <1>1, <1>5 DEF Enters, Books!vars
<1> QED
  BY <1>2, <1>3, <1>4, <1>5, FlightSteps

LEMMA SaveRefines ==
  ASSUME TypeInv, FulfilledInv, NEW w \in Workers, SaveOrderRow(w)
  PROVE  Books!Next \/ UNCHANGED Books!vars
<1> DEFINE o == req[w].order
<1>1. PICK s \in {orderRow[o], req[w].outcome} : orderRow' = [orderRow EXCEPT ![o] = s]
  BY SaveRow
<1>2. /\ o \in captured /\ o \in Orders /\ req[w].pc = "save"
      /\ UNCHANGED <<orders, captured, ledger, removals, overlapped>>
      /\ orders[o] # NoOrder
  BY SaveRow
<1>3. Left' = Left
  BY <1>2, LeftSame
<1>4. CASE orderRow' = orderRow
  BY <1>2, <1>3, <1>4, ShownSame DEF Books!vars
<1>5. CASE orderRow' # orderRow
  <2>1. s = req[w].outcome /\ s \in Verdicts
        /\ (s = "fulfilled" => Recorded(o) \/ removals[orders[o].user] > 0)
    BY <1>1, <1>2, <1>5 DEF FulfilledInv, VerdictsTrue, Covered, TypeInv, TypeOK
  <2>2. Shown' = [Shown EXCEPT ![o] = s]
    BY <1>1, <1>2, <2>1 DEF Shown, Verdicts, TypeInv, TypeOK
  <2>3. s = "fulfilled" => Recorded(o) \/ o \in Left
    BY <1>2, <2>1 DEF Left
  <2>4. Books!Show(o, s)
    BY <1>2, <1>3, <2>2, <2>3 DEF Books!Show, Books!Booked, Recorded
  <2> QED
    BY <1>2, <2>1, <2>4 DEF Books!Next, Verdicts
<1> QED
  BY <1>4, <1>5

LEMMA OrderingRefines ==
  ASSUME TypeInv, FulfilledInv, Ordering
  PROVE  Books!Leave
<1>1. UNCHANGED <<ledger, captured, removals, overlapped>>
  BY DEF Ordering
<1>2. CASE UNCHANGED <<orders, orderRow>>
  BY <1>1, <1>2, ShownSame, LeftSame DEF Books!Leave
<1>3. ASSUME NEW o \in Orders, NEW row \in {"absent", "created"}, NEW n, orders[o] = NoOrder,
             orderRow' = [orderRow EXCEPT ![o] = row], orders' = [orders EXCEPT ![o] = n]
      PROVE  Books!Leave
  <2>1. Shown' = Shown
    BY <1>3 DEF Shown, FulfilledInv, RowsFollowOrders, TypeInv, TypeOK
  <2>2. Left \subseteq Left'
    BY <1>1, <1>3 DEF Left, TypeInv, TypeOK
  <2> QED
    BY <1>1, <2>1, <2>2 DEF Books!Leave
<1> QED
  BY <1>2, <1>3 DEF Ordering

LEMMA RemovalRefines ==
  ASSUME TypeInv, FulfilledInv, NEW u \in Users, RemoveUserPlan(u) \/ RemoveTransactions(u)
  PROVE  Books!Leave \/ Books!Erase
<1>1. CASE RemoveUserPlan(u)
  <2>1. UNCHANGED <<captured, ledger, overlapped, orders, Shown>>
    BY <1>1, ShownSame DEF RemoveUserPlan, gateway
  <2>2. Left \subseteq Left'
    BY <1>1, <2>1 DEF RemoveUserPlan, Left, TypeInv, TypeOK, OrderNotes
  <2> QED
    BY <2>1, <2>2 DEF Books!Leave
<1>2. CASE RemoveTransactions(u)
  <2>1. UNCHANGED <<captured, overlapped, Shown, Left>>
    BY <1>2, ShownSame, LeftSame DEF RemoveTransactions, gateway
  <2>2. ledger' \subseteq ledger /\ \A t \in ledger \ ledger' : t.user = u
    BY <1>2 DEF RemoveTransactions
  <2>3. removals[u] > 0
    BY <1>2 DEF RemoveTransactions, FulfilledInv, RemovalsCounted
  <2>4. \A t \in ledger \ ledger' : t.order \in Left
    BY <2>2, <2>3 DEF Left, TypeInv, TypeOK, TablesLinked, Transaction
  <2> QED
    BY <2>1, <2>2, <2>4 DEF Books!Erase
<1> QED
  BY <1>1, <1>2

LEMMA BooksStep ==
  ASSUME TypeInv, OverlapInv, FulfilledInv, [Next]_vars
  PROVE  [Books!Next]_(Books!vars)
<1>1. CASE Steady
  BY <1>1, SteadyRefines
<1>2. ASSUME NEW w \in Workers, SaveOrderRow(w) PROVE Books!Next \/ UNCHANGED Books!vars
  BY <1>2, SaveRefines
<1>3. CASE Ordering
  BY <1>3, OrderingRefines DEF Books!Next
<1>4. ASSUME NEW o \in Orders, Capture(o) PROVE Books!Next
  <2>1. UNCHANGED <<ledger, overlapped, Shown, Left>>
    BY <1>4, ShownSame, LeftSame DEF Capture, db
  <2>2. Books!Pay(o)
    BY <1>4, <2>1 DEF Capture, Books!Pay
  <2> QED
    BY <2>2 DEF Books!Next
<1>5. ASSUME NEW u \in Users, RemoveUserPlan(u) \/ RemoveTransactions(u) PROVE Books!Next
  BY <1>5, RemovalRefines DEF Books!Next
<1>6. (\E w \in Workers : Serving(w) \/ ReadOrderRow(w)) \/ Resting => Steady
  BY DEF Serving, Resting, ReadOrderRow, Serve, Steady, db, gateway
<1> QED
  BY <1>1, <1>2, <1>3, <1>4, <1>5, <1>6, StepKinds

LEMMA BooksInit == Init => Books!Init
  BY DEF Init, Books!Init, Left, Shown

\* Fulfilment keeps the promise of Settlement: whatever verify calls, deliveries, crashes
\* and removals do, each step books, contests, shows, forgets or does nothing, as allowed.
THEOREM Settles == Spec => BooksKept
<1>1. TypeInv /\ OverlapInv /\ FulfilledInv /\ [Next]_vars => [Books!Next]_(Books!vars)
  BY BooksStep
<1> QED
  BY <1>1, BooksInit, TypeCorrect, OverlapHolds, FulfilledHolds, PTL
     DEF Spec, BooksKept, Books!Spec

----------------------------------------------------------------------------
(***************************************************************************)
(* What the row lock of activate_plan_purchase and the second computation  *)
(* of its amount guarantee, proved for every number of members and         *)
(* threads.                                                                *)
(***************************************************************************)

\* Only a plan purchase about to write holds a lock, on a row nobody has changed.
HeldIsCurrent ==
  \A w \in Workers :
    (req[w] # Idle /\ req[w].locked) =>
      /\ req[w].pc = "write" /\ Purpose(w) = "plan_purchase"
      /\ userPlan[Buyer(w)] = req[w].snap

OneHolder == \A v, w \in Workers, u \in Users : (Holds(v, u) /\ Holds(w, u)) => v = w

LockInv == HeldIsCurrent /\ OneHolder

----------------------------------------------------------------------------
(* What a step does to a lock and to a locked row.                           *)

\* A captured order is never placed again.
LEMMA OrdersStay ==
  ASSUME TypeInv, [Next]_vars, NEW o \in captured
  PROVE  o \in captured' /\ orders'[o] = orders[o]
<1>1. o \in Orders /\ orders[o] # NoOrder
  BY DEF TypeInv, TypeOK, TablesLinked
<1>2. CASE Ordering
  BY <1>1, <1>2 DEF Ordering, TypeInv, TypeOK
<1>3. ~Ordering => UNCHANGED orders /\ captured \subseteq captured'
  BY StepKinds DEF Serving, Steady, Resting, ReadOrderRow, SaveOrderRow, Serve, Capture,
     RemoveUserPlan, RemoveTransactions, gateway
<1> QED
  BY <1>2, <1>3

\* A request that is not moved has the purpose and the buyer it had.
LEMMA BuyerStays ==
  ASSUME TypeInv, [Next]_vars, NEW w \in Workers, req[w].pc # "idle",
         req'[w].order = req[w].order
  PROVE  Buyer(w)' = Buyer(w) /\ Purpose(w)' = Purpose(w)
  BY Busy, OrdersStay DEF Buyer, Purpose

Unlocks(w) == req'[w] = Idle \/ ~ req'[w].locked

\* The step changes no request but w's.
Only(w) == \A v \in Workers \ {w} : req'[v] = req[v]

LEMMA ServeOnly ==
  ASSUME TypeInv, NEW w \in Workers, NEW r, Serve(w, r)
  PROVE  Only(w) /\ req'[w] = r
  BY DEF Serve, Only, TypeInv, TypeOK

LEMMA FinishUnlocks ==
  ASSUME TypeInv, NEW w \in Workers, req[w].pc # "idle", NEW s, Finish(w, s)
  PROVE  Only(w) /\ Unlocks(w) /\ req'[w].pc = "sync"
<1> DEFINE r == [req[w] EXCEPT !.pc = "sync", !.outcome = s, !.locked = FALSE]
<1>1. r.pc = "sync" /\ ~ r.locked
  BY Busy DEF Request
<1>2. Serve(w, r)
  BY DEF Finish
<1> HIDE DEF r
<1> QED
  BY <1>1, <1>2, ServeOnly DEF Unlocks

LEMMA IdleUnlocks ==
  ASSUME TypeInv, NEW w \in Workers, req' = [req EXCEPT ![w] = Idle]
  PROVE  Only(w) /\ Unlocks(w) /\ req'[w].pc # "write"
  BY DEF Only, Unlocks, Idle, TypeInv, TypeOK

LEMMA FailUnlocks ==
  ASSUME TypeInv, NEW w \in Workers, req[w].pc # "idle", Fail(w)
  PROVE  Only(w) /\ Unlocks(w) /\ req'[w].pc # "write"
<1>1. CASE Finish(w, "paid")
  BY <1>1, FinishUnlocks
<1>2. CASE Serve(w, Idle)
  BY <1>2, IdleUnlocks DEF Serve
<1> QED
  BY <1>1, <1>2 DEF Fail

\* A move that leaves locked alone, from where nothing is locked.
LEMMA MoveUnlocks ==
  ASSUME TypeInv, LockInv, NEW w \in Workers, req[w].pc \notin {"idle", "write"},
         NEW r, r.locked = req[w].locked, Serve(w, r)
  PROVE  Only(w) /\ Unlocks(w)
<1>1. req[w] \in Request /\ req[w] # Idle
  BY Busy DEF Idle
<1>2. ~ req[w].locked
  BY <1>1 DEF LockInv, HeldIsCurrent, Request
<1> QED
  BY <1>2, ServeOnly DEF Unlocks

LEMMA BeginUnlocks ==
  ASSUME TypeInv, NEW w \in Workers, NEW o \in Orders,
         VerifyBegin(w, o) \/ \E e \in Events : WebhookBegin(w, o, e)
  PROVE  Only(w) /\ Unlocks(w)
<1>1. \A k, e, pc, x : ~ NewRequest(k, e, o, pc, x).locked
  BY DEF NewRequest
<1>2. CASE VerifyBegin(w, o)
  <2>1. Serve(w, Idle) \/ \E x : Serve(w, NewRequest("verify", "none", o, "fetch", x))
    BY <1>2 DEF VerifyBegin
  <2> QED
    BY <2>1, <1>1, ServeOnly DEF Unlocks
<1>3. CASE \E e \in Events : WebhookBegin(w, o, e)
  BY <1>1, <1>3, ServeOnly DEF WebhookBegin, Unlocks
<1> QED
  BY <1>2, <1>3

LEMMA ProgressUnlocks ==
  ASSUME TypeInv, LockInv, NEW w \in Workers, Progress(w), ~ LockUserPlan(w)
  PROVE  Only(w) /\ Unlocks(w)
<1>0. req[w].pc # "idle" /\ req[w] \in Request
  BY Busy DEF Progress, VerifyFetch, CheckPlanPurchase, ReadPurchaseTerms, ActivatePlan,
     CheckServiceCharge, ReadServiceCharge, PayRemaining, CheckPdf, LockPdf, GrantPdf,
     ReadOrderRow, SaveOrderRow, LoseOrderRow
<1> DEFINE Done == Only(w) /\ Unlocks(w)
<1>1. \A s : Finish(w, s) => Done
  BY <1>0, FinishUnlocks
<1>2. Fail(w) => Done
  BY <1>0, FailUnlocks
<1>3. ASSUME NEW pc, GoTo(w, pc), req[w].pc # "write" PROVE Done
  <2> DEFINE r == [req[w] EXCEPT !.pc = pc]
  <2>1. r.locked = req[w].locked
    BY <1>0 DEF Request
  <2>2. Serve(w, r)
    BY <1>3 DEF GoTo
  <2> HIDE DEF r
  <2> QED
    BY <1>0, <1>3, <2>1, <2>2, MoveUnlocks
<1> HIDE DEF Done
<1>4. CASE VerifyFetch(w)
  <2>1. CASE Serve(w, Idle)
    BY <2>1, IdleUnlocks DEF Serve, Done
  <2>2. CASE GoTo(w, "check")
    BY <1>3, <1>4, <2>2 DEF VerifyFetch, Done
  <2> QED
    BY <1>4, <2>1, <2>2 DEF VerifyFetch, GoTo, Done
<1>5. CASE CheckPlanPurchase(w)
  <2> DEFINE r == [req[w] EXCEPT !.pc = "terms", !.price = price[orders[req[w].order].item]]
  <2>1. r.locked = req[w].locked
    BY <1>0 DEF Request
  <2>2. Serve(w, r) \/ \E s : Finish(w, s)
    BY <1>5 DEF CheckPlanPurchase
  <2> HIDE DEF r
  <2>3. req[w].pc = "check"
    BY <1>5 DEF CheckPlanPurchase
  <2> QED
    BY <1>1, <2>1, <2>2, <2>3, MoveUnlocks DEF Done
<1>6. CASE ReadPurchaseTerms(w)
  <2> DEFINE r == [req[w] EXCEPT !.pc = "lock", !.charge = charge, !.day = today]
  <2>1. r.locked = req[w].locked
    BY <1>0 DEF Request
  <2>2. Serve(w, r) /\ req[w].pc = "terms"
    BY <1>6 DEF ReadPurchaseTerms
  <2> HIDE DEF r
  <2> QED
    BY <2>1, <2>2, MoveUnlocks DEF Done
<1>7. CASE ActivatePlan(w) \/ GrantPdf(w)
  BY <1>1, <1>7 DEF ActivatePlan, GrantPdf, Done
<1>8. CASE CheckServiceCharge(w)
  BY <1>1, <1>3, <1>8 DEF CheckServiceCharge, WithRemaining, Done
<1>9. CASE ReadServiceCharge(w)
  <2> DEFINE r == [req[w] EXCEPT !.pc = "lock", !.snap = Repaired(userPlan[Buyer(w)])]
  <2>1. r.locked = req[w].locked
    BY <1>0 DEF Request
  <2>2. (Serve(w, r) \/ Fail(w) \/ \E s : Finish(w, s)) /\ req[w].pc = "terms"
    BY <1>9 DEF ReadServiceCharge, WithRemaining
  <2> HIDE DEF r
  <2> QED
    BY <1>1, <1>2, <2>1, <2>2, MoveUnlocks DEF Done
<1>10. CASE PayRemaining(w)
  BY <1>1, <1>2, <1>10 DEF PayRemaining, Done
<1>11. CASE CheckPdf(w) \/ LockPdf(w)
  BY <1>1, <1>3, <1>11 DEF CheckPdf, LockPdf, Done
<1>12. CASE ReadOrderRow(w)
  <2> DEFINE r == [req[w] EXCEPT !.pc = "save", !.seen = orderRow[req[w].order]]
  <2>1. r.locked = req[w].locked
    BY <1>0 DEF Request
  <2>2. Serve(w, r) /\ req[w].pc = "sync"
    BY <1>12 DEF ReadOrderRow
  <2> HIDE DEF r
  <2> QED
    BY <2>1, <2>2, MoveUnlocks DEF Done
<1>13. CASE SaveOrderRow(w) \/ LoseOrderRow(w)
  BY <1>13, IdleUnlocks DEF SaveOrderRow, LoseOrderRow, Answer, Done
<1> QED
  BY <1>4, <1>5, <1>6, <1>7, <1>8, <1>9, <1>10, <1>11, <1>12, <1>13 DEF Progress, Done

\* Outside LockUserPlan a step leaves a request as it is or without a lock.
LEMMA LockMoves ==
  ASSUME TypeInv, LockInv, [Next]_vars
  PROVE  \/ req' = req
         \/ \E w \in Workers : Only(w) /\ (LockUserPlan(w) \/ Unlocks(w))
<1>1. CASE \E w \in Workers : Progress(w)
  <2>1. PICK w \in Workers : Progress(w)
    BY <1>1
  <2>2. CASE LockUserPlan(w)
    BY <2>2, ServeOnly DEF LockUserPlan
  <2> QED
    BY <2>1, <2>2, ProgressUnlocks
<1>2. CASE \E w \in Workers, o \in Orders :
             VerifyBegin(w, o) \/ \E e \in Events : WebhookBegin(w, o, e)
  BY <1>2, BeginUnlocks
<1>3. CASE \E w \in Workers : Crash(w)
  BY <1>3, IdleUnlocks DEF Crash
<1>4. Checkout \/ (\E o \in Orders : Capture(o)) \/ AdminEdit \/ NextDay \/ UNCHANGED vars
      \/ (\E u \in Users : RemoveUserPlan(u) \/ RemoveTransactions(u)) => req' = req
  BY DEF Checkout, PlanOrderView, ServiceChargeOrderView, AstrologyPdfOrderView, Capture,
         RemoveUserPlan, RemoveTransactions, AdminEdit, NextDay, vars
<1> QED
  BY <1>1, <1>2, <1>3, <1>4 DEF Next

----------------------------------------------------------------------------
(* Who writes a row that is locked.                                          *)

Others(u) == \A x \in Users \ {u} : userPlan'[x] = userPlan[x]

\* The row of u is written while nobody holds it, or by its holder, which lets go.
Written(u) == Others(u) /\ \A v \in Workers : Holds(v, u) => req'[v].pc # "write"

LEMMA UnlockedWritten ==
  ASSUME NEW u \in Users, Unlocked(u), Others(u)
  PROVE  Written(u)
  BY DEF Unlocked, Written

LEMMA RepairWrites ==
  ASSUME TypeInv, NEW u \in Users, StoreRepair(u)
  PROVE  userPlan' = userPlan \/ Written(u)
<1>1. CASE Repaired(userPlan[u]) = userPlan[u]
  BY <1>1 DEF StoreRepair, TypeInv, TypeOK
<1>2. CASE Repaired(userPlan[u]) # userPlan[u]
  <2>1. Unlocked(u) /\ Others(u)
    BY <1>2 DEF StoreRepair, Others, TypeInv, TypeOK
  <2> QED
    BY <2>1, UnlockedWritten
<1> QED
  BY <1>1, <1>2

LEMMA ProgressWrites ==
  ASSUME TypeInv, NEW w \in Workers, Progress(w)
  PROVE  userPlan' = userPlan \/ \E u \in Users : Written(u)
<1>1. CASE ActivatePlan(w)
  <2> DEFINE u == Buyer(w)
  <2>1. req[w].pc # "idle" /\ u \in Users /\ LockFree(u, w) /\ Others(u)
    BY <1>1, Busy DEF ActivatePlan, Others, TypeInv, TypeOK
  <2>2. req'[w].pc = "sync"
    BY <1>1, <2>1, FinishUnlocks DEF ActivatePlan
  <2>3. Written(u)
    BY <2>1, <2>2 DEF Written, LockFree
  <2> QED
    BY <2>1, <2>3
<1>2. CASE PayRemaining(w)
  <2> DEFINE u == Buyer(w)
  <2>1. req[w].pc = "lock" /\ u \in Users /\ LockFree(u, w)
    BY <1>2, Busy DEF PayRemaining
  <2>2. Unlocked(u)
    BY <2>1 DEF Unlocked, LockFree, Holds
  <2>3. userPlan' = userPlan \/ Others(u)
    BY <1>2, <2>1 DEF PayRemaining, Others, TypeInv, TypeOK
  <2> QED
    BY <2>1, <2>2, <2>3, UnlockedWritten
<1>3. CASE CheckServiceCharge(w) \/ ReadServiceCharge(w)
  <2>1. Buyer(w) \in Users
    BY <1>3, Busy DEF CheckServiceCharge, ReadServiceCharge
  <2>2. userPlan' = userPlan \/ StoreRepair(Buyer(w))
    BY <1>3 DEF CheckServiceCharge, ReadServiceCharge, WithRemaining
  <2> QED
    BY <2>1, <2>2, RepairWrites
<1>4. CASE VerifyFetch(w) \/ CheckPlanPurchase(w) \/ ReadPurchaseTerms(w) \/ LockUserPlan(w)
           \/ CheckPdf(w) \/ LockPdf(w) \/ GrantPdf(w) \/ ReadOrderRow(w) \/ SaveOrderRow(w)
           \/ LoseOrderRow(w)
  BY <1>4 DEF VerifyFetch, CheckPlanPurchase, ReadPurchaseTerms, LockUserPlan, CheckPdf,
     LockPdf, GrantPdf, ReadOrderRow, SaveOrderRow, LoseOrderRow, db
<1> QED
  BY <1>1, <1>2, <1>3, <1>4 DEF Progress

LEMMA RowWrites ==
  ASSUME TypeInv, [Next]_vars
  PROVE  userPlan' = userPlan \/ \E u \in Users : Written(u)
<1>1. CASE \E w \in Workers : Progress(w)
  BY <1>1, ProgressWrites
<1>2. ASSUME NEW o \in Orders, NEW u \in Users, ServiceChargeOrderView(o, u)
      PROVE  userPlan' = userPlan \/ Written(u)
  BY <1>2, RepairWrites DEF ServiceChargeOrderView
<1>3. ASSUME NEW w \in Workers, NEW o \in Orders, VerifyBegin(w, o)
      PROVE  userPlan' = userPlan \/ \E u \in Users : Written(u)
  <2>1. orders[o] \in OrderNotes
    BY <1>3 DEF VerifyBegin, TypeInv, TypeOK, TablesLinked
  <2> QED
    BY <1>3, <2>1, Items, RepairWrites DEF VerifyBegin
<1>4. ASSUME NEW u \in Users, RemoveUserPlan(u)
      PROVE  userPlan' = userPlan \/ Written(u)
  <2>1. Others(u) /\ (userPlan[u] = NoPlan => userPlan' = userPlan)
        /\ (userPlan[u] # NoPlan => Unlocked(u))
    BY <1>4 DEF RemoveUserPlan, Others, TypeInv, TypeOK
  <2> QED
    BY <2>1, UnlockedWritten
<1>5. CASE AdminEdit
  <2>1. userPlan' = userPlan \/ \E u \in Users : Unlocked(u) /\ Others(u)
    BY <1>5 DEF AdminEdit, Others, TypeInv, TypeOK
  <2> QED
    BY <2>1, UnlockedWritten
<1>6. (\E o \in Orders : Capture(o)) \/ NextDay \/ UNCHANGED vars
      \/ (\E w \in Workers, o \in Orders, e \in Events : WebhookBegin(w, o, e))
      \/ (\E w \in Workers : Crash(w)) \/ (\E u \in Users : RemoveTransactions(u))
        => userPlan' = userPlan
  BY DEF Capture, NextDay, vars, WebhookBegin, Crash, RemoveTransactions, db
<1>7. Checkout => userPlan' = userPlan
                  \/ \E o \in Orders, u \in Users : ServiceChargeOrderView(o, u)
  BY DEF Checkout, PlanOrderView, AstrologyPdfOrderView, db
<1> QED
  BY <1>1, <1>2, <1>3, <1>4, <1>5, <1>6, <1>7 DEF Next

----------------------------------------------------------------------------
(* The lock excludes.                                                        *)

LEMMA HeldStays ==
  ASSUME TypeInv, LockInv, [Next]_vars
  PROVE  HeldIsCurrent'
<1> SUFFICES ASSUME NEW w \in Workers, req'[w] # Idle, req'[w].locked
             PROVE  /\ req'[w].pc = "write" /\ Purpose(w)' = "plan_purchase"
                    /\ userPlan'[Buyer(w)'] = req'[w].snap
  BY DEF HeldIsCurrent
<1>1. CASE req'[w] = req[w]
  <2>1. /\ req[w].pc = "write" /\ Purpose(w) = "plan_purchase"
        /\ userPlan[Buyer(w)] = req[w].snap
    BY <1>1 DEF LockInv, HeldIsCurrent
  <2>2. Buyer(w)' = Buyer(w) /\ Purpose(w)' = Purpose(w) /\ Buyer(w) \in Users
    BY <1>1, <2>1, BuyerStays, Busy
  <2>3. Holds(w, Buyer(w))
    BY <1>1, <2>1 DEF Holds
  <2>4. userPlan'[Buyer(w)] = userPlan[Buyer(w)]
    BY <1>1, <2>1, <2>2, <2>3, RowWrites DEF Written, Others
  <2> QED
    BY <1>1, <2>1, <2>2, <2>4
<1>2. CASE LockUserPlan(w)
  <2> DEFINE r == [req[w] EXCEPT !.pc = "write", !.snap = userPlan[Buyer(w)],
                                 !.locked = (userPlan[Buyer(w)] # NoPlan)]
  <2>1. req[w] \in Request /\ req[w].pc # "idle"
    BY <1>2, Busy DEF LockUserPlan
  <2>2. r.pc = "write" /\ r.snap = userPlan[Buyer(w)] /\ r.order = req[w].order
    BY <2>1 DEF Request
  <2>3. req'[w] = r /\ userPlan' = userPlan /\ Purpose(w) = "plan_purchase"
    BY <1>2, ServeOnly DEF LockUserPlan, db
  <2> HIDE DEF r
  <2> QED
    BY <2>1, <2>2, <2>3, BuyerStays
<1> QED
  BY <1>1, <1>2, LockMoves DEF Only, Unlocks

LEMMA HolderStays ==
  ASSUME TypeInv, LockInv, [Next]_vars
  PROVE  OneHolder'
<1> SUFFICES ASSUME NEW v \in Workers, NEW w \in Workers, NEW u \in Users,
                    Holds(v, u)', Holds(w, u)', v # w
             PROVE  FALSE
  BY DEF OneHolder
<1>1. ASSUME NEW x \in Workers, Holds(x, u)', req'[x] = req[x]
      PROVE  Holds(x, u)
  <2>1. req[x].pc # "idle" /\ req[x].locked
    BY <1>1 DEF Holds
  <2> QED
    BY <1>1, <2>1, BuyerStays DEF Holds
<1>2. ASSUME NEW x \in Workers, NEW y \in Workers, x # y, Holds(x, u)', Holds(y, u)',
             Only(x), LockUserPlan(x) \/ Unlocks(x)
      PROVE  FALSE
  <2>1. Holds(y, u)
    BY <1>1, <1>2 DEF Only
  <2>2. LockUserPlan(x)
    BY <1>2 DEF Unlocks, Holds, Idle
  <2> DEFINE r == [req[x] EXCEPT !.pc = "write", !.snap = userPlan[Buyer(x)],
                                 !.locked = (userPlan[Buyer(x)] # NoPlan)]
  <2>3. req[x] \in Request /\ req[x].pc # "idle"
    BY <2>2, Busy DEF LockUserPlan
  <2>4. (r.locked <=> userPlan[Buyer(x)] # NoPlan) /\ r.order = req[x].order
    BY <2>3 DEF Request
  <2>5. req'[x] = r
    BY <2>2, ServeOnly DEF LockUserPlan
  <2> HIDE DEF r
  <2>6. Buyer(x) = u /\ userPlan[u] # NoPlan
    BY <1>2, <2>3, <2>4, <2>5, BuyerStays DEF Holds
  <2> QED
    BY <1>2, <2>1, <2>2, <2>6 DEF LockUserPlan, LockFree
<1>3. CASE req' = req
  BY <1>1, <1>3 DEF LockInv, OneHolder
<1>4. ASSUME NEW x \in Workers, Only(x), LockUserPlan(x) \/ Unlocks(x)
      PROVE  FALSE
  <2>1. CASE x \notin {v, w}
    BY <1>1, <1>4, <2>1 DEF Only, LockInv, OneHolder
  <2> QED
    BY <1>2, <1>4, <2>1
<1> QED
  BY <1>3, <1>4, LockMoves

LEMMA LockHolds == Spec => []LockInv
<1>1. Init => LockInv
  BY DEF Init, LockInv, HeldIsCurrent, OneHolder, Holds, Idle
<1>2. TypeInv /\ LockInv /\ [Next]_vars => LockInv'
  BY HeldStays, HolderStays DEF LockInv
<1> QED
  BY <1>1, <1>2, TypeCorrect, PTL DEF Spec

\* While a purchase holds the lock on a member's row, the row it read is the row in the
\* table (Fulfillment!LockedSnapshotIsCurrent; activate_plan_purchase).
THEOREM SnapshotHolds == Spec => []LockedSnapshotIsCurrent
<1>1. LockInv => LockedSnapshotIsCurrent
  BY DEF LockInv, HeldIsCurrent, LockedSnapshotIsCurrent, Idle
<1> QED
  BY <1>1, LockHolds, PTL

----------------------------------------------------------------------------
(* A purchase under the lock loses nothing.                                  *)

\* A request leaves "write" for "sync" by committing.
LEMMA Commits ==
  ASSUME TypeInv, LockInv, [Next]_vars, NEW w \in Workers, req[w] # Idle, req[w].locked,
         req'[w].pc = "sync"
  PROVE  ActivatePlan(w)
<1>1. req[w].pc = "write" /\ Purpose(w) = "plan_purchase"
  BY DEF LockInv, HeldIsCurrent
<1>2. Idle.pc = "idle"
  BY DEF Idle
<1>3. ASSUME NEW v \in Workers, Progress(v) PROVE v = w
  <2>1. CASE LockUserPlan(v)
    BY <1>1, <2>1, ServeOnly DEF LockUserPlan, Only
  <2> QED
    BY <1>1, <1>3, <2>1, ProgressUnlocks DEF Only
<1>4. CASE \E v \in Workers : Progress(v)
  <2>1. Progress(w)
    BY <1>3, <1>4
  <2>2. ~ (VerifyFetch(w) \/ CheckPlanPurchase(w) \/ ReadPurchaseTerms(w) \/ LockUserPlan(w))
    BY <1>1 DEF VerifyFetch, CheckPlanPurchase, ReadPurchaseTerms, LockUserPlan
  <2>3. ~ (CheckServiceCharge(w) \/ ReadServiceCharge(w) \/ PayRemaining(w))
    BY <1>1 DEF CheckServiceCharge, ReadServiceCharge, PayRemaining
  <2>4. ~ (CheckPdf(w) \/ LockPdf(w) \/ GrantPdf(w) \/ ReadOrderRow(w) \/ SaveOrderRow(w)
             \/ LoseOrderRow(w))
    BY <1>1 DEF CheckPdf, LockPdf, GrantPdf, ReadOrderRow, SaveOrderRow, LoseOrderRow
  <2> QED
    BY <2>1, <2>2, <2>3, <2>4 DEF Progress
<1>5. ASSUME NEW v \in Workers, NEW o \in Orders,
             VerifyBegin(v, o) \/ \E e \in Events : WebhookBegin(v, o, e)
      PROVE  FALSE
  <2>1. v # w
    BY <1>1, <1>2, <1>5 DEF VerifyBegin, WebhookBegin
  <2> QED
    BY <1>1, <1>5, <2>1, BeginUnlocks DEF Only
<1>6. ASSUME NEW v \in Workers, Crash(v) PROVE FALSE
  BY <1>1, <1>2, <1>6 DEF Crash, TypeInv, TypeOK
<1>7. Checkout \/ (\E o \in Orders : Capture(o)) \/ AdminEdit \/ NextDay \/ UNCHANGED vars
      \/ (\E u \in Users : RemoveUserPlan(u) \/ RemoveTransactions(u)) => req' = req
  BY DEF Checkout, PlanOrderView, ServiceChargeOrderView, AstrologyPdfOrderView, Capture,
         RemoveUserPlan, RemoveTransactions, AdminEdit, NextDay, vars
<1> QED
  BY <1>1, <1>4, <1>5, <1>6, <1>7 DEF Next

LEMMA AddsUpStep ==
  ASSUME TypeInv, LockInv, [Next]_vars, NEW w \in Workers,
         req[w].pc = "write", req[w].locked, req'[w].pc = "sync",
         CurrentlyActive(userPlan[Buyer(w)], req[w].day)
  PROVE  /\ userPlan'[Buyer(w)].valid_until
              = userPlan[Buyer(w)].valid_until + Duration[orders[req[w].order].item]
         /\ \A q \in Quotas :
              Metered(userPlan[Buyer(w)].plan, q) =>
                EffectiveLimit(userPlan'[Buyer(w)], q) - userPlan'[Buyer(w)].used[q]
                  >= EffectiveLimit(userPlan[Buyer(w)], q) - userPlan[Buyer(w)].used[q]
<1> DEFINE u == Buyer(w)
           r == req[w]
           p == orders[r.order].item
           new == Activated(r.snap, RowKey(u), p, orders[r.order].option,
                            r.price, r.charge, r.day)
<1>1. req[w] # Idle
  BY DEF Idle
<1>2. Purpose(w) = "plan_purchase" /\ r.snap = userPlan[u]
  BY <1>1 DEF LockInv, HeldIsCurrent
<1>3. u \in Users /\ orders[r.order] \in OrderNotes
  BY Busy
<1>4. p \in Plans
  BY <1>2, <1>3, Items DEF Purpose
<1>5. userPlan[u] \in UserPlanRow
  BY <1>3, RowsDiffer DEF CurrentlyActive, TypeInv, TypeOK
<1>6. userPlan'[u] = new
  BY <1>1, <1>3, Commits DEF ActivatePlan, TypeInv, TypeOK
<1> HIDE DEF p
<1>7. new = Activated(userPlan[u], RowKey(u), p, orders[r.order].option,
                      r.price, r.charge, r.day)
  BY <1>2
<1> HIDE DEF new
<1> QED
  BY <1>4, <1>5, <1>6, <1>7, ActivatedAddsUp DEF p

\* A purchase under the row lock adds its days to an active plan and carries the unused
\* quota forward (Fulfillment!LockedPurchaseAddsUp; activate_plan_purchase).
THEOREM AddsUp == Spec => LockedPurchaseAddsUp
<1>1. TypeInv /\ LockInv /\ [Next]_vars =>
        [\A w \in Workers :
           LET u == Buyer(w)
           IN (req[w].pc = "write" /\ req[w].locked /\ req'[w].pc = "sync"
                 /\ CurrentlyActive(userPlan[u], req[w].day))
              => /\ userPlan'[u].valid_until
                      = userPlan[u].valid_until + Duration[orders[req[w].order].item]
                 /\ \A q \in Quotas :
                      Metered(userPlan[u].plan, q) =>
                        EffectiveLimit(userPlan'[u], q) - userPlan'[u].used[q]
                          >= EffectiveLimit(userPlan[u], q) - userPlan[u].used[q]]_vars
  BY AddsUpStep
<1> QED
  BY <1>1, TypeCorrect, LockHolds, PTL DEF Spec, LockedPurchaseAddsUp

----------------------------------------------------------------------------
(* What is recorded is what was paid.                                        *)

\* The price a plan-only purchase carries from the comparison of amounts to its entry.
PriceAgreed ==
  \A w \in Workers :
    (req[w].pc \in {"terms", "lock", "write"} /\ Purpose(w) = "plan_purchase"
       /\ orders[req[w].order].option = PlanOnly)
      => inr_to_paise(req[w].price) = orders[req[w].order].amount

AmountInv == PriceAgreed /\ PlanOnlyAmountExact

\* The price a request carries is compared once and then kept.
Agrees(w) ==
  \/ Purpose(w) # "plan_purchase"
  \/ inr_to_paise(PurchaseAmount(orders[req[w].order].option, req'[w].price, charge))
       = orders[req[w].order].amount
  \/ req[w].pc \in {"terms", "lock"} /\ req'[w].price = req[w].price

LEMMA PurchaseMoves ==
  ASSUME TypeInv, NEW w \in Workers, Progress(w), req'[w].pc \in {"terms", "lock", "write"}
  PROVE  req[w].pc # "idle" /\ req'[w].order = req[w].order /\ Agrees(w)
<1>1. req[w].pc # "idle" /\ req[w] \in Request
  BY Busy DEF Progress, VerifyFetch, CheckPlanPurchase, ReadPurchaseTerms, ActivatePlan,
     LockUserPlan, CheckServiceCharge, ReadServiceCharge, PayRemaining, CheckPdf, LockPdf,
     GrantPdf, ReadOrderRow, SaveOrderRow, LoseOrderRow
<1>2. \A s : ~ Finish(w, s)
  BY <1>1, FinishUnlocks
<1>3. ~ Serve(w, Idle) /\ ~ Fail(w)
  BY <1>2, ServeOnly DEF Fail, Idle
<1>4. ASSUME NEW pc, GoTo(w, pc)
      PROVE  req'[w].order = req[w].order /\ req'[w].pc = pc
  <2> DEFINE r == [req[w] EXCEPT !.pc = pc]
  <2>1. r.order = req[w].order /\ r.pc = pc
    BY <1>1 DEF Request
  <2>2. Serve(w, r)
    BY <1>4 DEF GoTo
  <2> HIDE DEF r
  <2> QED
    BY <2>1, <2>2, ServeOnly
<1>5. ~ VerifyFetch(w)
  <2>1. ~ GoTo(w, "check")
    BY <1>4
  <2> QED
    BY <1>3, <2>1 DEF VerifyFetch, GoTo
<1>6. ~ (ActivatePlan(w) \/ GrantPdf(w) \/ PayRemaining(w))
  BY <1>2, <1>3 DEF ActivatePlan, GrantPdf, PayRemaining
<1>7. ~ (ReadOrderRow(w) \/ SaveOrderRow(w) \/ LoseOrderRow(w))
  <2>1. CASE ReadOrderRow(w)
    <3> DEFINE r == [req[w] EXCEPT !.pc = "save", !.seen = orderRow[req[w].order]]
    <3>1. r.pc = "save"
      BY <1>1 DEF Request
    <3>2. Serve(w, r)
      BY <2>1 DEF ReadOrderRow
    <3> HIDE DEF r
    <3> QED
      BY <3>1, <3>2, ServeOnly
  <2>2. CASE SaveOrderRow(w) \/ LoseOrderRow(w)
    BY <2>2 DEF SaveOrderRow, LoseOrderRow, Answer, Idle, TypeInv, TypeOK
  <2> QED
    BY <2>1, <2>2
<1>8. CASE CheckPlanPurchase(w)
  <2> DEFINE p == price[orders[req[w].order].item]
             r == [req[w] EXCEPT !.pc = "terms", !.price = p]
  <2>1. r.order = req[w].order /\ r.price = p
    BY <1>1 DEF Request
  <2>2. /\ Serve(w, r)
        /\ inr_to_paise(PurchaseAmount(orders[req[w].order].option, p, charge))
             = orders[req[w].order].amount
    BY <1>2, <1>8 DEF CheckPlanPurchase
  <2> HIDE DEF r, p
  <2> QED
    BY <1>1, <2>1, <2>2, ServeOnly DEF Agrees
<1>9. CASE ReadPurchaseTerms(w)
  <2> DEFINE r == [req[w] EXCEPT !.pc = "lock", !.charge = charge, !.day = today]
  <2>1. r.order = req[w].order /\ r.price = req[w].price
    BY <1>1 DEF Request
  <2>2. Serve(w, r) /\ req[w].pc = "terms"
    BY <1>9 DEF ReadPurchaseTerms
  <2> HIDE DEF r
  <2> QED
    BY <2>1, <2>2, ServeOnly DEF Agrees
<1>10. CASE LockUserPlan(w)
  <2> DEFINE r == [req[w] EXCEPT !.pc = "write", !.snap = userPlan[Buyer(w)],
                                 !.locked = (userPlan[Buyer(w)] # NoPlan)]
  <2>1. r.order = req[w].order /\ r.price = req[w].price
    BY <1>1 DEF Request
  <2>2. Serve(w, r) /\ req[w].pc = "lock"
    BY <1>10 DEF LockUserPlan
  <2> HIDE DEF r
  <2> QED
    BY <2>1, <2>2, ServeOnly DEF Agrees
<1>11. CASE ReadServiceCharge(w)
  <2> DEFINE r == [req[w] EXCEPT !.pc = "lock", !.snap = Repaired(userPlan[Buyer(w)])]
  <2>1. r.order = req[w].order
    BY <1>1 DEF Request
  <2>2. Serve(w, r) /\ Purpose(w) = "service_charge"
    BY <1>2, <1>3, <1>11 DEF ReadServiceCharge, WithRemaining
  <2> HIDE DEF r
  <2> QED
    BY <1>1, <2>1, <2>2, ServeOnly DEF Agrees
<1>12. CASE CheckServiceCharge(w) \/ CheckPdf(w) \/ LockPdf(w)
  <2>1. Purpose(w) # "plan_purchase" /\ \E pc \in {"terms", "lock", "write"} : GoTo(w, pc)
    BY <1>2, <1>12 DEF CheckServiceCharge, WithRemaining, CheckPdf, LockPdf
  <2> QED
    BY <1>1, <1>4, <2>1 DEF Agrees
<1> QED
  BY <1>5, <1>6, <1>7, <1>8, <1>9, <1>10, <1>11, <1>12 DEF Progress

LEMMA PriceMoves ==
  ASSUME TypeInv, LockInv, [Next]_vars, NEW w \in Workers,
         req'[w].pc \in {"terms", "lock", "write"}
  PROVE  \/ req'[w] = req[w]
         \/ req[w].pc # "idle" /\ req'[w].order = req[w].order /\ Agrees(w)
<1>1. ASSUME NEW v \in Workers, Progress(v), v # w PROVE req'[w] = req[w]
  <2>1. CASE LockUserPlan(v)
    BY <1>1, <2>1, ServeOnly DEF LockUserPlan, Only
  <2> QED
    BY <1>1, <2>1, ProgressUnlocks DEF Only
<1>2. ASSUME NEW v \in Workers, Progress(v)
      PROVE  \/ req'[w] = req[w]
             \/ req[w].pc # "idle" /\ req'[w].order = req[w].order /\ Agrees(w)
  <2>1. CASE v = w
    BY <1>2, <2>1, PurchaseMoves
  <2> QED
    BY <1>1, <1>2, <2>1
<1>3. ASSUME NEW v \in Workers, NEW o \in Orders,
             VerifyBegin(v, o) \/ \E e \in Events : WebhookBegin(v, o, e)
      PROVE  req'[w] = req[w]
  <2>1. \E r : Serve(v, r) /\ r.pc \notin {"terms", "lock", "write"}
    <3>1. \A k, e, x : /\ NewRequest(k, e, o, "fetch", x).pc = "fetch"
                       /\ NewRequest(k, e, o, "check", x).pc = "check" /\ Idle.pc = "idle"
      BY DEF NewRequest, Idle
    <3>2. CASE VerifyBegin(v, o)
      <4>1. Serve(v, Idle) \/ \E x : Serve(v, NewRequest("verify", "none", o, "fetch", x))
        BY <3>2 DEF VerifyBegin
      <4> QED
        BY <3>1, <4>1
    <3>3. CASE \E e \in Events : WebhookBegin(v, o, e)
      BY <3>1, <3>3 DEF WebhookBegin
    <3> QED
      BY <1>3, <3>2, <3>3
  <2> QED
    BY <2>1, ServeOnly DEF Only
<1>4. ASSUME NEW v \in Workers, Crash(v) PROVE req'[w] = req[w]
  BY <1>4 DEF Crash, Idle, TypeInv, TypeOK
<1>5. Checkout \/ (\E o \in Orders : Capture(o)) \/ AdminEdit \/ NextDay \/ UNCHANGED vars
      \/ (\E u \in Users : RemoveUserPlan(u) \/ RemoveTransactions(u)) => req' = req
  BY DEF Checkout, PlanOrderView, ServiceChargeOrderView, AstrologyPdfOrderView, Capture,
         RemoveUserPlan, RemoveTransactions, AdminEdit, NextDay, vars
<1> QED
  BY <1>2, <1>3, <1>4, <1>5 DEF Next

\* A new entry is one of a purchase at the price it carries, or of another purpose.
NewEntry(w, t) ==
  /\ req[w].pc # "idle" /\ t.order = req[w].order
  /\ \/ Purpose(w) # "plan_purchase"
     \/ /\ req[w].pc = "write"
        /\ t.amount = PurchaseAmount(orders[req[w].order].option, req[w].price, req[w].charge)

LEMMA NewEntries ==
  ASSUME TypeInv, [Next]_vars, NEW t \in ledger' \ ledger
  PROVE  \E w \in Workers : NewEntry(w, t)
<1>1. ASSUME NEW w \in Workers, NEW a, RecordTransaction(w, a)
      PROVE  t.order = req[w].order /\ t.amount = a
  BY <1>1 DEF RecordTransaction
<1>2. ASSUME NEW w \in Workers, ActivatePlan(w) \/ PayRemaining(w) \/ GrantPdf(w)
      PROVE  NewEntry(w, t)
  BY <1>1, <1>2 DEF ActivatePlan, PayRemaining, GrantPdf, NewEntry
<1>3. ASSUME NEW w \in Workers, Progress(w)
      PROVE  ledger' = ledger \/ ActivatePlan(w) \/ PayRemaining(w) \/ GrantPdf(w)
  BY <1>3 DEF Progress, VerifyFetch, CheckPlanPurchase, ReadPurchaseTerms, LockUserPlan,
     CheckServiceCharge, ReadServiceCharge, WithRemaining, CheckPdf, LockPdf, ReadOrderRow,
     SaveOrderRow, LoseOrderRow, db
<1>4. ~ (\E w \in Workers : Progress(w)) => ledger' \subseteq ledger
  BY DEF Next, Checkout, PlanOrderView, ServiceChargeOrderView, AstrologyPdfOrderView, Capture,
     VerifyBegin, WebhookBegin, Crash, RemoveUserPlan, RemoveTransactions, AdminEdit, NextDay,
     vars, db
<1> QED
  BY <1>2, <1>3, <1>4

LEMMA AmountStep ==
  ASSUME TypeInv, LockInv, AmountInv, [Next]_vars
  PROVE  AmountInv'
<1>1. ASSUME NEW w \in Workers, req'[w].pc \in {"terms", "lock", "write"},
             Purpose(w)' = "plan_purchase", orders'[req'[w].order].option = PlanOnly
      PROVE  inr_to_paise(req'[w].price) = orders'[req'[w].order].amount
  <2>1. req[w].pc # "idle" /\ req'[w].order = req[w].order
    BY <1>1, PriceMoves
  <2>2. /\ Purpose(w) = "plan_purchase" /\ req[w].order \in captured
        /\ orders'[req'[w].order] = orders[req[w].order]
    BY <1>1, <2>1, Busy, BuyerStays, OrdersStay
  <2>3. CASE req'[w] = req[w]
    BY <1>1, <2>2, <2>3 DEF AmountInv, PriceAgreed
  <2>4. CASE Agrees(w)
    BY <1>1, <2>2, <2>4, PlanOnlyPays DEF Agrees, AmountInv, PriceAgreed
  <2> QED
    BY <1>1, <2>3, <2>4, PriceMoves
<1>2. ASSUME NEW t \in ledger', orders'[t.order].purpose = "plan_purchase",
             orders'[t.order].option = PlanOnly
      PROVE  inr_to_paise(t.amount) = orders'[t.order].amount
  <2>1. CASE t \in ledger
    <3>1. t.order \in captured
      BY <2>1 DEF TypeInv, TablesLinked
    <3> QED
      BY <1>2, <2>1, <3>1, OrdersStay DEF AmountInv, PlanOnlyAmountExact
  <2>2. CASE t \notin ledger
    <3>1. PICK w \in Workers : NewEntry(w, t)
      BY <2>2, NewEntries
    <3>2. t.order = req[w].order /\ orders'[t.order] = orders[t.order]
      BY <3>1, Busy, OrdersStay DEF NewEntry
    <3>3. Purpose(w) = "plan_purchase" /\ orders[req[w].order].option = PlanOnly
      BY <1>2, <3>2 DEF Purpose
    <3>4. req[w].pc = "write" /\ t.amount = req[w].price
      BY <3>1, <3>3, PlanOnlyPays DEF NewEntry
    <3> QED
      BY <3>2, <3>3, <3>4 DEF AmountInv, PriceAgreed
  <2> QED
    BY <2>1, <2>2
<1> QED
  BY <1>1, <1>2 DEF AmountInv, PriceAgreed, PlanOnlyAmountExact

LEMMA AmountHolds == Spec => []AmountInv
<1>1. Init => AmountInv
  BY DEF Init, AmountInv, PriceAgreed, PlanOnlyAmountExact, Idle
<1>2. TypeInv /\ LockInv /\ AmountInv /\ [Next]_vars => AmountInv'
  BY AmountStep
<1> QED
  BY <1>1, <1>2, TypeCorrect, LockHolds, PTL DEF Spec

\* A plan_only purchase is recorded for exactly the captured amount, whatever
\* administrators do to prices (Fulfillment!PlanOnlyAmountExact; _fulfill_plan_purchase_impl).
THEOREM AmountExact == Spec => []PlanOnlyAmountExact
<1>1. AmountInv => PlanOnlyAmountExact
  BY DEF AmountInv
<1> QED
  BY <1>1, AmountHolds, PTL

----------------------------------------------------------------------------
(***************************************************************************)
(* An acknowledged webhook event has left its trace on the order row, or   *)
(* the one failure the code swallows took it: proved for every number of   *)
(* orders, threads and events, whichever rows fail and however often.      *)
(***************************************************************************)

Noted(o) == orderRow[o] \in Verdicts

\* What a request has read of the order row: a row it did not find has not been created
\* since, and a verdict it found still stands.
RowsRead ==
  \A w \in Workers : req[w].pc = "save" =>
    /\ req[w].seen = "absent" => orderRow[req[w].order] # "created"
    /\ req[w].seen \in Verdicts => Noted(req[w].order)

AcknowledgedInv == RowsRead /\ AcknowledgedIsNoted

----------------------------------------------------------------------------
LEMMA RowStatusIs == \A s \in RowStatus : s \in {"absent", "created"} \/ s \in Verdicts
  BY DEF RowStatus, Verdicts

\* The second statement of record_order_outcome leaves a verdict on the row.
LEMMA SavedIsVerdict ==
  ASSUME NEW seen \in RowStatus, NEW now \in RowStatus, NEW new \in Verdicts,
         seen = "absent" => now # "created", seen \in Verdicts => now \in Verdicts
  PROVE  SavedStatus(seen, now, new) \in Verdicts
<1>1. CASE seen = "absent"
  BY <1>1, RowStatusIs DEF SavedStatus
<1>2. CASE seen = "created"
  <2>1. Rank(new) >= Rank(seen)
    BY <1>2 DEF Rank, Verdicts
  <2> QED
    BY <1>2, <2>1 DEF SavedStatus, Applies
<1>3. CASE seen \in Verdicts
  <2>1. seen # "absent"
    BY <1>3 DEF Verdicts
  <2> QED
    BY <1>3, <2>1 DEF SavedStatus
<1> QED
  BY <1>1, <1>2, <1>3, RowStatusIs

LEMMA SaveNotes ==
  ASSUME TypeInv, FulfilledInv, AcknowledgedInv, NEW w \in Workers, SaveOrderRow(w)
  PROVE  /\ orderRow'[req[w].order] \in Verdicts
         /\ \A o \in Orders \ {req[w].order} : orderRow'[o] = orderRow[o]
<1>1. req[w] \in Request /\ req[w].pc = "save" /\ req[w].order \in Orders
  BY SaveRow, Busy
<1>2. orderRow' = [orderRow EXCEPT ![req[w].order] =
                     SavedStatus(req[w].seen, orderRow[req[w].order], req[w].outcome)]
  BY <1>1 DEF SaveOrderRow, TypeInv, TypeOK
<1>3. SavedStatus(req[w].seen, orderRow[req[w].order], req[w].outcome) \in Verdicts
  <2>1. req[w].seen \in RowStatus /\ orderRow[req[w].order] \in RowStatus
    BY <1>1 DEF Request, TypeInv, TypeOK
  <2>2. req[w].outcome \in Verdicts
    BY <1>1 DEF FulfilledInv, VerdictsTrue
  <2> QED
    BY <1>1, <2>1, <2>2, SavedIsVerdict DEF AcknowledgedInv, RowsRead, Noted
<1> QED
  BY <1>1, <1>2, <1>3 DEF Noted, TypeInv, TypeOK

\* The row of a captured order changes only to a verdict.
LEMMA CapturedRows ==
  ASSUME TypeInv, FulfilledInv, AcknowledgedInv, [Next]_vars, NEW o \in captured
  PROVE  orderRow'[o] = orderRow[o] \/ Noted(o)'
<1>1. o \in Orders /\ orders[o] # NoOrder
  BY DEF TypeInv, TypeOK, TablesLinked
<1>2. CASE Ordering
  BY <1>1, <1>2 DEF Ordering, TypeInv, TypeOK
<1>3. ASSUME NEW w \in Workers, SaveOrderRow(w)
      PROVE  orderRow'[o] = orderRow[o] \/ Noted(o)'
  <2>1. CASE o = req[w].order
    BY <1>3, <2>1, SaveNotes DEF Noted
  <2> QED
    BY <1>1, <1>3, <2>1, SaveNotes
<1>4. ((\E w \in Workers : Serving(w) \/ ReadOrderRow(w)) \/ Resting
         \/ (\E x \in Orders : Capture(x))
         \/ \E u \in Users : RemoveUserPlan(u) \/ RemoveTransactions(u))
       => orderRow' = orderRow
  BY DEF Serving, ReadOrderRow, Serve, Resting, Steady, Capture, RemoveUserPlan,
         RemoveTransactions, gateway
<1> QED
  BY <1>2, <1>3, <1>4, StepKinds

\* A step that brings no request to "save" leaves those that are there as they are.
LEMMA SaveMoves ==
  ASSUME TypeInv, [Next]_vars, NEW v \in Workers, req'[v].pc = "save"
  PROVE  req'[v] = req[v] \/ ReadOrderRow(v)
<1>1. ASSUME NEW w \in Workers, NEW r, req' = [req EXCEPT ![w] = r], r.pc # "save"
      PROVE  req'[v] = req[v]
  BY <1>1 DEF TypeInv, TypeOK
<1>2. Idle.pc # "save"
  BY DEF Idle
<1>3. ASSUME NEW w \in Workers, Serving(w)
      PROVE  req'[v] = req[v]
  <2>1. CASE Working(w)
    BY <1>1, <2>1 DEF Working
  <2>2. CASE Concludes(w)
    <3>1. PICK s : Finish(w, s) /\ req[w] \in Request
      BY <2>2 DEF Concludes
    <3> DEFINE r == [req[w] EXCEPT !.pc = "sync", !.outcome = s, !.locked = FALSE]
    <3>2. req' = [req EXCEPT ![w] = r] /\ r.pc # "save"
      BY <3>1 DEF Finish, Serve, Request
    <3> HIDE DEF r
    <3> QED
      BY <1>1, <3>2
  <2> QED
    BY <1>3, <2>1, <2>2 DEF Serving
<1>4. ASSUME NEW w \in Workers, ReadOrderRow(w)
      PROVE  req'[v] = req[v] \/ ReadOrderRow(v)
  BY <1>4 DEF ReadOrderRow, Serve, TypeInv, TypeOK
<1>5. (\E w \in Workers : SaveOrderRow(w)) \/ Resting => req'[v] = req[v]
  BY <1>1, <1>2 DEF SaveOrderRow, Answer, Resting
<1>6. Ordering \/ (\E x \in Orders : Capture(x))
         \/ (\E u \in Users : RemoveUserPlan(u) \/ RemoveTransactions(u)) => req' = req
  BY DEF Ordering, Capture, RemoveUserPlan, RemoveTransactions
<1> QED
  BY <1>3, <1>4, <1>5, <1>6, StepKinds

LEMMA RowsReadStay ==
  ASSUME TypeInv, FulfilledInv, AcknowledgedInv, [Next]_vars
  PROVE  RowsRead'
<1> SUFFICES ASSUME NEW v \in Workers, req'[v].pc = "save"
             PROVE  /\ req'[v].seen = "absent" => orderRow'[req'[v].order] # "created"
                    /\ req'[v].seen \in Verdicts => Noted(req[v].order)'
  BY DEF RowsRead, Noted
<1>1. CASE req'[v] = req[v]
  <2>1. req[v].order \in captured
    BY <1>1, Busy
  <2>2. \A s \in Verdicts : s # "created"
    BY DEF Verdicts
  <2>3. /\ req[v].seen = "absent" => orderRow[req[v].order] # "created"
        /\ req[v].seen \in Verdicts => Noted(req[v].order)
    BY <1>1 DEF AcknowledgedInv, RowsRead
  <2>4. \/ orderRow'[req[v].order] = orderRow[req[v].order]
        \/ orderRow'[req[v].order] \in Verdicts
    BY <2>1, CapturedRows DEF Noted
  <2> QED
    BY <1>1, <2>2, <2>3, <2>4 DEF Noted
<1>2. CASE ReadOrderRow(v)
  <2> DEFINE r == [req[v] EXCEPT !.pc = "save", !.seen = orderRow[req[v].order]]
  <2>1. req[v].pc = "sync" /\ req[v] \in Request /\ req' = [req EXCEPT ![v] = r]
        /\ orderRow' = orderRow
    BY <1>2, Busy DEF ReadOrderRow, Serve
  <2>2. r.seen = orderRow[req[v].order] /\ r.order = req[v].order
    BY <2>1 DEF Request
  <2>3. req'[v] = r
    BY <2>1 DEF TypeInv, TypeOK
  <2> HIDE DEF r
  <2> QED
    BY <2>1, <2>2, <2>3 DEF Noted
<1> QED
  BY <1>1, <1>2, SaveMoves

\* Events go when they are acknowledged and come when a payment is captured.
LEMMA DeliveryMoves ==
  ASSUME [Next]_vars
  PROVE  \/ UNCHANGED <<deliveries, captured, unsaved>>
         \/ \E o \in Orders : Capture(o)
         \/ \E w \in Workers : SaveOrderRow(w) \/ LoseOrderRow(w)
<1>1. ASSUME NEW w \in Workers, Progress(w), ~ SaveOrderRow(w), ~ LoseOrderRow(w)
      PROVE  UNCHANGED <<deliveries, captured, unsaved>>
  BY <1>1 DEF Progress, VerifyFetch, CheckPlanPurchase, ReadPurchaseTerms, LockUserPlan,
     ActivatePlan, CheckServiceCharge, ReadServiceCharge, WithRemaining, PayRemaining,
     CheckPdf, LockPdf, GrantPdf, ReadOrderRow, GoTo, Finish, Fail, Serve, gateway, faults
<1>2. Checkout \/ AdminEdit \/ NextDay \/ UNCHANGED vars
      \/ (\E w \in Workers, o \in Orders :
            VerifyBegin(w, o) \/ \E e \in Events : WebhookBegin(w, o, e))
      \/ (\E w \in Workers : Crash(w))
      \/ (\E u \in Users : RemoveUserPlan(u) \/ RemoveTransactions(u))
        => UNCHANGED <<deliveries, captured, unsaved>>
  BY DEF Checkout, PlanOrderView, ServiceChargeOrderView, AstrologyPdfOrderView, VerifyBegin,
     WebhookBegin, Serve, Crash, RemoveUserPlan, RemoveTransactions, AdminEdit, NextDay, vars,
     gateway, faults
<1> QED
  BY <1>1, <1>2 DEF Next

LEMMA AcknowledgedStays ==
  ASSUME TypeInv, FulfilledInv, AcknowledgedInv, [Next]_vars
  PROVE  AcknowledgedIsNoted'
<1> SUFFICES ASSUME NEW o \in captured', o \notin unsaved', NEW e \in Events,
                    <<o, e>> \notin deliveries'
             PROVE  orderRow'[o] \notin {"absent", "created"}
  BY DEF AcknowledgedIsNoted
<1>1. \A s \in Verdicts : s \notin {"absent", "created"}
  BY DEF Verdicts
<1>0. o \notin unsaved
  BY DeliveryMoves DEF Capture, SaveOrderRow, LoseOrderRow, faults
<1>2. CASE o \in captured /\ <<o, e>> \notin deliveries
  <2>1. orderRow[o] \notin {"absent", "created"}
    BY <1>0, <1>2 DEF AcknowledgedInv, AcknowledgedIsNoted
  <2> QED
    BY <1>1, <1>2, <2>1, CapturedRows DEF Noted
<1>3. ASSUME NEW w \in Workers, SaveOrderRow(w), <<o, e>> \in deliveries
      PROVE  orderRow'[o] \notin {"absent", "created"}
  <2>1. o = req[w].order
    BY <1>3 DEF SaveOrderRow, Answer
  <2> QED
    BY <1>1, <1>3, <2>1, SaveNotes DEF Noted
<1>6. ASSUME NEW w \in Workers, LoseOrderRow(w), <<o, e>> \in deliveries
      PROVE  orderRow'[o] \notin {"absent", "created"}
  <2>1. o = req[w].order /\ Acknowledges(req[w])
    BY <1>6 DEF LoseOrderRow, Answer
  <2>2. Settled(o) /\ orderRow' = orderRow
    BY <1>6, <2>1 DEF LoseOrderRow
  <2> QED
    BY <2>2 DEF Settled
<1>4. ASSUME NEW x \in Orders, Capture(x) PROVE o \in captured /\ <<o, e>> \notin deliveries
  BY <1>4 DEF Capture
<1>5. ASSUME NEW w \in Workers, SaveOrderRow(w) PROVE o \in captured
  BY <1>5, SaveRow
<1>7. ASSUME NEW w \in Workers, LoseOrderRow(w) PROVE o \in captured
  BY <1>7 DEF LoseOrderRow, gateway
<1> QED
  BY <1>2, <1>3, <1>4, <1>5, <1>6, <1>7, DeliveryMoves

LEMMA AcknowledgedHolds == Spec => []AcknowledgedInv
<1>1. Init => AcknowledgedInv
  BY DEF Init, AcknowledgedInv, RowsRead, AcknowledgedIsNoted, Idle
<1>2. TypeInv /\ FulfilledInv /\ AcknowledgedInv /\ [Next]_vars => AcknowledgedInv'
  BY RowsReadStay, AcknowledgedStays DEF AcknowledgedInv
<1> QED
  BY <1>1, <1>2, TypeCorrect, FulfilledHolds, PTL DEF Spec

\* A webhook event that was acknowledged has left a verdict on the order row, whatever
\* crashes and other requests lie between, unless record_order_outcome swallowed a failure
\* to read or save that row (Fulfillment!AcknowledgedIsNoted; razorpay_records.py:181).
THEOREM Acknowledged == Spec => []AcknowledgedIsNoted
<1>1. AcknowledgedInv => AcknowledgedIsNoted
  BY DEF AcknowledgedInv
<1> QED
  BY <1>1, AcknowledgedHolds, PTL
=============================================================================
