-------------------------------- MODULE Desk --------------------------------
(***************************************************************************)
(* One member's payments at the desk (admin_panel/): sales confirmed by a  *)
(* one-time code (staff_payments), sales and renewals without one          *)
(* (staff_subscriptions), cash entered, verified, rejected and voided by   *)
(* the office (cash_payments), and the commissions that hang on them.      *)
(*                                                                         *)
(* A database transaction is one step here, except that the sale takes its *)
(* lock on the member's row in a step of its own: Fulfillment opens the    *)
(* activation of a plan up. Checking a code is one step: Accounts opens    *)
(* that up. Everything around the transactions is a step per query, and a  *)
(* request may stop for good between any two.                              *)
(***************************************************************************)
EXTENDS Integers, FiniteSets

CONSTANTS
  Staff, Workers,
  Amounts,       \* the prices a plan is sold for
  MaxSales,      \* bound of the model: plans_transaction rows ever
  MaxCodes,      \* bound of the model: codes sent to the member
  Mixes          \* bound of the model: the kinds of requests of one behaviour, and its sales

None == "none"

ASSUME DeskAssumption ==
  /\ MaxSales \in Nat /\ MaxCodes \in Nat
  /\ IsFiniteSet(Workers) /\ None \notin Staff \cup Workers

Kinds == {"send", "login", "confirm", "pay", "subscribe", "renew", "post", "verify", "reject",
          "void", "branch_verify", "complete", "paid", "wait", "expire", "break"}
Sales == 1..MaxSales

VARIABLES
  txn,         \* txn[t]: the transaction row t, or NoTxn; staff and sold (whether a plan
               \* was recorded with it) are history
  entries,     \* the PaymentEntry rows
  review,      \* review[t]: what the PaymentReview row of t says, or None
  commission,  \* commission[t]: status of the commission earned by sale t, or None
  plan,        \* the sales whose days are in the member's UserPlan row; {} is no row
  sent,        \* codes sent to the member
  code,        \* staff whose newest code for the member is still good
  login,       \* the newest code sent to the member to log in with is still good
  confirmed,   \* staff for whom the cache holds the member's confirmation
  receipts,    \* PaymentReceiptSequence.last_number
  holder,      \* the request that has the member's row locked, or None
  mix,         \* the kinds of requests, and the number of sales, made in this behaviour
  req,         \* req[w]: the request worker w is serving
  given,       \* history: given[s], codes accepted from the member for s, of either kind
  shared,      \* history: staff whose confirmation two requests saw at once
  contested,   \* history: transactions with two decisions at once, or one broken off
  rebooked,    \* history: entries that two managers verified at once
  squeezed     \* history: sales made, or decided on, while a void was under way

rows == <<txn, entries, review, commission, plan>>
desk == <<sent, code, login, confirmed, receipts>>
history == <<given, shared, contested, rebooked, squeezed>>
vars == <<rows, desk, holder, mix, req, history>>

NoTxn == [amount |-> 0, cash |-> FALSE, status |-> None, staff |-> None, sold |-> FALSE]
Entry == [receipt : Nat, staff : Staff, amount : Amounts, status : {"pending", "verified", "completed"},
          txn : Sales \cup {0}, fresh : BOOLEAN, booked : 0..MaxSales]
Pcs == {"key", "drop", "code", "login", "receipt", "lock", "sale", "setkey", "status", "review",
        "remaining", "check", "erase", "book", "finish"}
Request ==
  [pc : Pcs, kind : Kinds, staff : Staff \cup {None}, amount : Amounts \cup {0},
   subject : Sales \cup {0} \cup Nat,    \* the transaction or receipt it is about
   last : BOOLEAN,                       \* void: no other successful sale was found
   paid : SUBSET Sales]                  \* history: commissions paid since it looked
Idle == [pc |-> "idle"]

TypeOK ==
  /\ \A t \in Sales : txn[t] = NoTxn \/
       txn[t] \in [amount : Amounts, cash : BOOLEAN, staff : Staff \cup {None}, sold : BOOLEAN,
                   status : {"pending", "success", "failed", "gone"}]
  /\ entries \subseteq Entry
  /\ review \in [Sales -> {None, "verified", "rejected"}]
  /\ commission \in [Sales -> {None, "pending", "paid"}]
  /\ plan \subseteq Sales
  /\ sent \in 0..MaxCodes /\ code \subseteq Staff /\ login \in BOOLEAN /\ confirmed \subseteq Staff
  /\ receipts \in Nat /\ holder \in Workers \cup {None}
  /\ mix \in Mixes
  /\ req \in [Workers -> Request \cup {Idle}]
  /\ given \in [Staff -> Nat] /\ shared \subseteq Staff
  /\ contested \subseteq Sales /\ rebooked \subseteq Nat /\ squeezed \subseteq Sales

----------------------------------------------------------------------------
Busy(w) == req[w] # Idle
At(w, pc) == Busy(w) /\ req[w].pc = pc
Go(w, pc) == req' = [req EXCEPT ![w].pc = pc]
Done(w) == req' = [req EXCEPT ![w] = Idle]

Used == {t \in Sales : txn[t] # NoTxn}
Unused(t) == t \in 1..mix.sales /\ t = Cardinality(Used) + 1
Rows == {t \in Used : txn[t].status # "gone"}
Successes == {t \in Rows : txn[t].status = "success"}
Voids == {w \in Workers : Busy(w) /\ req[w].kind = "void"}

\* An entry the desk no longer makes: one still to be verified by the branch manager.
Pending(s, a) ==
  [receipt |-> 0, staff |-> s, amount |-> a, status |-> "pending",
   txn |-> 0, fresh |-> FALSE, booked |-> 0]

Init ==
  /\ txn = [t \in Sales |-> NoTxn] /\ review = [t \in Sales |-> None]
  /\ commission = [t \in Sales |-> None] /\ plan = {}
  /\ mix \in Mixes
  /\ entries \in IF "branch_verify" \in mix.kinds THEN {{Pending(s, a)} : s \in Staff, a \in Amounts} ELSE {{}}
  /\ sent = 0 /\ code = {} /\ login = FALSE /\ confirmed = {} /\ receipts = 0 /\ holder = None
  /\ req = [w \in Workers |-> Idle]
  /\ given = [s \in Staff |-> 0]
  /\ shared = {} /\ contested = {} /\ rebooked = {} /\ squeezed = {}

New(kind, pc, s, a, subject) ==
  [pc |-> pc, kind |-> kind, staff |-> s, amount |-> a, subject |-> subject,
   last |-> FALSE, paid |-> {}]
Start(w, r) == ~Busy(w) /\ r.kind \in mix.kinds /\ req' = [req EXCEPT ![w] = r]

\* record_staff_plan_purchase: days on top of those the plan still has, a successful
\* transaction, and by its signal a commission of the member's staff.
Record(t, a, cash, s) ==
  /\ plan' = plan \cup {t}
  /\ txn' = [txn EXCEPT ![t] =
              [amount |-> a, cash |-> cash, status |-> "success", staff |-> s, sold |-> TRUE]]
  /\ commission' = [commission EXCEPT ![t] = "pending"]
  /\ squeezed' = IF Voids # {} THEN squeezed \cup {t} ELSE squeezed

----------------------------------------------------------------------------
(* A sale confirmed by the member (staff_payments/views.py).                 *)

\* StaffPaymentCustomerOtpSendAPIView
SendCode(s) ==
  /\ "send" \in mix.kinds /\ sent < MaxCodes
  /\ sent' = sent + 1 /\ code' = code \cup {s}
  /\ UNCHANGED <<rows, login, confirmed, receipts, holder, mix, req, history>>

\* RegisterView and ResendOTPView (Accounts): a code for the member's own login, to a number
\* the desk or an import may have made an account of since. It is used there, or runs out.
SendLogin ==
  /\ "login" \in mix.kinds /\ sent < MaxCodes
  /\ sent' = sent + 1 /\ login' = TRUE
  /\ UNCHANGED <<rows, code, confirmed, receipts, holder, mix, req, history>>

LogIn ==
  /\ login /\ login' = FALSE
  /\ UNCHANGED <<rows, sent, code, confirmed, receipts, holder, mix, req, history>>

\* StaffPaymentCustomerOtpVerifyAPIView: the code is used up, then its mark is cached.
Confirm(w, s) ==
  /\ s \in code
  /\ Start(w, New("confirm", "setkey", s, 0, 0))
  /\ code' = code \ {s} /\ given' = [given EXCEPT ![s] = @ + 1]
  /\ UNCHANGED <<rows, sent, login, confirmed, receipts, holder, mix, shared, contested, rebooked, squeezed>>

SetKey(w) ==
  /\ At(w, "setkey")
  /\ confirmed' = confirmed \cup {req[w].staff}
  /\ Done(w)
  /\ UNCHANGED <<rows, sent, code, login, receipts, holder, mix, history>>

\* StaffPaymentListCreateView.post
Pay(w, s, a) ==
  /\ Start(w, New("pay", "key", s, a, 0))
  /\ UNCHANGED <<rows, desk, holder, mix, history>>

\* The cached mark is read, and deleted in a second call; without it the code is asked for.
ReadKey(w) ==
  LET s == req[w].staff IN
  /\ At(w, "key")
  /\ Go(w, IF s \in confirmed THEN "drop" ELSE "code")
  /\ shared' = IF \E v \in Workers : At(v, "drop") /\ req[v].staff = s
               THEN shared \cup {s} ELSE shared
  /\ UNCHANGED <<rows, desk, holder, mix, given, contested, rebooked, squeezed>>

\* Mutant: the mark is left in the cache.
LookAtKey(w) ==
  /\ At(w, "drop") /\ Go(w, "receipt")
  /\ UNCHANGED <<rows, desk, holder, mix, history>>

DropKey(w) ==
  /\ At(w, "drop")
  /\ confirmed' = confirmed \ {req[w].staff}
  /\ Go(w, "receipt")
  /\ UNCHANGED <<rows, sent, code, login, receipts, holder, mix, history>>

\* The code typed is that of the desk, or else it is tried as the member's login code.
TakeCode(w) ==
  LET s == req[w].staff IN
  /\ At(w, "code")
  /\ \/ /\ s \in code /\ Go(w, "receipt")
        /\ code' = code \ {s} /\ given' = [given EXCEPT ![s] = @ + 1]
     \/ Go(w, "login") /\ UNCHANGED <<code, given>>
  /\ UNCHANGED <<rows, sent, login, confirmed, receipts, holder, mix, shared, contested, rebooked, squeezed>>

\* validate_otp
TakeLogin(w) ==
  /\ At(w, "login")
  /\ \/ /\ login /\ Go(w, "receipt")
        /\ login' = FALSE /\ given' = [given EXCEPT ![req[w].staff] = @ + 1]
     \/ Done(w) /\ UNCHANGED <<login, given>>
  /\ UNCHANGED <<rows, sent, code, confirmed, receipts, holder, mix, shared, contested, rebooked, squeezed>>

\* allocate_next_receipt_id, in a transaction of its own.
TakeReceipt(w) ==
  /\ At(w, "receipt")
  /\ receipts' = receipts + 1
  /\ req' = [req EXCEPT ![w].pc = "lock", ![w].subject = receipts + 1]
  /\ UNCHANGED <<rows, sent, code, login, confirmed, holder, mix, history>>

\* Mutant: the member's row is not locked.
LockNothing(w) ==
  /\ At(w, "lock")
  /\ IF \E e \in entries : e.staff = req[w].staff /\ e.fresh THEN Done(w) ELSE Go(w, "sale")
  /\ UNCHANGED <<rows, desk, holder, mix, history>>

\* The transaction begins: the member's row is locked, then the duplicate check.
LockMember(w) ==
  /\ At(w, "lock") /\ holder = None
  /\ IF \E e \in entries : e.staff = req[w].staff /\ e.fresh
     THEN Done(w) /\ UNCHANGED holder
     ELSE Go(w, "sale") /\ holder' = w
  /\ UNCHANGED <<rows, desk, mix, history>>

Sell(w, t) ==
  LET r == req[w] IN
  /\ At(w, "sale") /\ Unused(t)
  /\ \E cash \in BOOLEAN : Record(t, r.amount, cash, r.staff)
  /\ entries' = entries \cup
       {[receipt |-> r.subject, staff |-> r.staff, amount |-> r.amount, status |-> "verified",
         txn |-> t, fresh |-> TRUE, booked |-> 1]}
  /\ holder' = None
  /\ Done(w)
  /\ UNCHANGED <<review, desk, mix, given, shared, contested, rebooked>>

\* STAFF_PAYMENT_SAME_CUSTOMER_COOLDOWN_SECONDS have passed.
Cool ==
  /\ "wait" \in mix.kinds
  /\ entries' = {[e EXCEPT !.fresh = FALSE] : e \in entries}
  /\ UNCHANGED <<txn, review, commission, plan, desk, holder, mix, req, history>>

\* The cached mark, or the code, runs out; so does a code after too many wrong ones.
Expire(s) ==
  /\ "expire" \in mix.kinds /\ s \in confirmed \cup code
  /\ confirmed' = confirmed \ {s} /\ code' = code \ {s}
  /\ UNCHANGED <<rows, sent, login, receipts, holder, mix, req, history>>

----------------------------------------------------------------------------
(* Entries left to the branch manager.                                       *)

\* Mutant: the status of the entry is not looked at.
OpenAnyEntry(w, e) ==
  /\ Start(w, New("branch_verify", "book", None, e.amount, e.receipt))
  /\ rebooked' = IF \E v \in Workers : At(v, "book") /\ req[v].subject = e.receipt
                 THEN rebooked \cup {e.receipt} ELSE rebooked
  /\ UNCHANGED <<rows, desk, holder, mix, given, shared, contested, squeezed>>

\* BranchPaymentVerifyAPIView: the status is checked before the transaction.
OpenEntry(w, e) ==
  /\ e.status = "pending"
  /\ Start(w, New("branch_verify", "book", None, e.amount, e.receipt))
  /\ rebooked' = IF \E v \in Workers : At(v, "book") /\ req[v].subject = e.receipt
                 THEN rebooked \cup {e.receipt} ELSE rebooked
  /\ UNCHANGED <<rows, desk, holder, mix, given, shared, contested, squeezed>>

\* The sale and the save of the entry, as verified whatever it has become.
BookEntry(w, t) ==
  LET r == req[w] IN
  /\ At(w, "book") /\ Unused(t)
  /\ IF \E e \in entries : e.receipt = r.subject
     THEN /\ \E cash \in BOOLEAN : Record(t, r.amount, cash, None)
          /\ entries' = {IF e.receipt = r.subject
                         THEN [e EXCEPT !.status = "verified", !.txn = t, !.booked = @ + 1]
                         ELSE e : e \in entries}
     ELSE UNCHANGED <<plan, txn, commission, squeezed, entries>>
  /\ Done(w)
  /\ UNCHANGED <<review, desk, holder, mix, given, shared, contested, rebooked>>

\* BranchPaymentCompleteAPIView
OpenComplete(w, e) ==
  /\ e.status = "verified"
  /\ Start(w, New("complete", "finish", None, 0, e.receipt))
  /\ UNCHANGED <<rows, desk, holder, mix, history>>

Finish(w) ==
  /\ At(w, "finish")
  /\ entries' = {IF e.receipt = req[w].subject THEN [e EXCEPT !.status = "completed"] ELSE e
                 : e \in entries}
  /\ Done(w)
  /\ UNCHANGED <<txn, review, commission, plan, desk, holder, mix, history>>

----------------------------------------------------------------------------
(* Sales without a code (staff_subscriptions/services.py).                   *)

\* record_staff_plan_purchase on its own.
Subscribe(t, a) ==
  /\ "subscribe" \in mix.kinds /\ Unused(t)
  /\ \E cash \in BOOLEAN : Record(t, a, cash, None)
  /\ UNCHANGED <<entries, review, desk, holder, mix, req, given, shared, contested, rebooked>>

\* renew_staff_plan: only the plan on file, the one of the latest sale, is extended, and
\* from a sale of that plan.
OnFile(a) == \E u \in plan : txn[u].amount = a /\ \A v \in plan : v <= u
Renew(t, a) ==
  /\ "renew" \in mix.kinds /\ Unused(t) /\ OnFile(a)
  /\ \E u \in Rows : txn[u].amount = a
  /\ \E cash \in BOOLEAN : Record(t, a, cash, None)
  /\ UNCHANGED <<entries, review, desk, holder, mix, req, given, shared, contested, rebooked>>

----------------------------------------------------------------------------
(* The office's ledger (cash_payments/views.py).                             *)

\* PaymentsListAPIView.post: a pending transaction; nothing activates a plan for it.
Post(t, a) ==
  /\ "post" \in mix.kinds /\ Unused(t)
  /\ txn' = [txn EXCEPT ![t] =
              [amount |-> a, cash |-> TRUE, status |-> "pending", staff |-> None, sold |-> FALSE]]
  /\ UNCHANGED <<entries, review, commission, plan, desk, holder, mix, req, history>>

Deciding(t) == \E w \in Workers : Busy(w) /\ req[w].kind \in {"verify", "reject"} /\ req[w].subject = t
Contest(t) == contested' = IF Deciding(t) THEN contested \cup {t} ELSE contested

\* VerifyPaymentAPIView and RejectPaymentAPIView: only the first looks at the status.
Decide(w, kind, t) ==
  /\ t \in Rows
  /\ kind = "verify" => txn[t].cash /\ txn[t].status = "pending"
  /\ Start(w, New(kind, "status", None, 0, t))
  /\ Contest(t)
  /\ UNCHANGED <<rows, desk, holder, mix, given, shared, rebooked, squeezed>>

\* The save of a row that is gone is an error.
SetStatus(w) ==
  LET t == req[w].subject IN
  /\ At(w, "status")
  /\ IF t \in Rows
     THEN /\ txn' = [txn EXCEPT ![t].status = IF req[w].kind = "verify" THEN "success" ELSE "failed"]
          /\ Go(w, "review")
     ELSE Done(w) /\ UNCHANGED txn
  /\ squeezed' = IF Voids # {} THEN squeezed \cup Successes ELSE squeezed
  /\ UNCHANGED <<entries, review, commission, plan, desk, holder, mix, given, shared, contested, rebooked>>

\* Mutant: get_or_create in place of update_or_create.
ReviewOnce(w) ==
  LET t == req[w].subject IN
  /\ At(w, "review")
  /\ review' = IF t \in Rows /\ review[t] = None
               THEN [review EXCEPT ![t] = IF req[w].kind = "verify" THEN "verified" ELSE "rejected"]
               ELSE review
  /\ Done(w)
  /\ UNCHANGED <<txn, entries, commission, plan, desk, holder, mix, history>>

SetReview(w) ==
  LET t == req[w].subject IN
  /\ At(w, "review")
  /\ review' = IF t \in Rows
               THEN [review EXCEPT ![t] = IF req[w].kind = "verify" THEN "verified" ELSE "rejected"]
               ELSE review
  /\ Done(w)
  /\ UNCHANGED <<txn, entries, commission, plan, desk, holder, mix, history>>

----------------------------------------------------------------------------
(* _void_verified_cash_payment.                                              *)

OpenVoid(w, t) ==
  /\ t \in Successes /\ txn[t].cash
  /\ Start(w, New("void", "remaining", None, txn[t].amount, t))
  /\ squeezed' = squeezed \cup (IF Voids # {} THEN Successes ELSE {})
  /\ UNCHANGED <<rows, desk, holder, mix, given, shared, contested, rebooked>>

\* Mutant: the other sales of the member are not looked at.
ReadPlanOnly(w) ==
  /\ At(w, "remaining")
  /\ req' = [req EXCEPT ![w].pc = "check", ![w].last = TRUE]
  /\ UNCHANGED <<rows, desk, holder, mix, history>>

\* remaining_success
ReadRemaining(w) ==
  /\ At(w, "remaining")
  /\ req' = [req EXCEPT ![w].pc = "check", ![w].last = Successes \ {req[w].subject} = {}]
  /\ UNCHANGED <<rows, desk, holder, mix, history>>

\* matching_commissions: those of the same amount, while the plan they were earned with
\* is the one on file (subscription__plan_id).
Matching(w) ==
  {t \in Sales : commission[t] # None /\ txn[t].amount = req[w].amount /\ OnFile(req[w].amount)}

\* Mutant: only the commissions of the sale itself are looked at.
CheckMatching(w) ==
  /\ At(w, "check")
  /\ IF \E t \in Matching(w) : commission[t] = "paid" THEN Done(w)
     ELSE req' = [req EXCEPT ![w].pc = "erase", ![w].paid = {}]
  /\ UNCHANGED <<rows, desk, holder, mix, history>>

\* Which paid commissions stop the void: all of the plan's when the plan goes.
CheckPaid(w) ==
  LET looked == IF req[w].last /\ plan # {} THEN Sales ELSE Matching(w) IN
  /\ At(w, "check")
  /\ IF \E t \in looked : commission[t] = "paid" THEN Done(w)
     ELSE req' = [req EXCEPT ![w].pc = "erase", ![w].paid = {}]
  /\ UNCHANGED <<rows, desk, holder, mix, history>>

Erase(w) ==
  LET r == req[w]
      unpaid == {t \in Matching(w) : commission[t] # "paid"}
      dropped == IF r.last /\ plan # {} THEN Sales ELSE unpaid
  IN
  /\ At(w, "erase")
  /\ commission' = [t \in Sales |-> IF t \in dropped THEN None ELSE commission[t]]
  /\ plan' = IF r.last THEN {} ELSE plan
  /\ entries' = {e \in entries : e.txn # r.subject}
  /\ review' = [review EXCEPT ![r.subject] = None]
  /\ txn' = [txn EXCEPT ![r.subject].status = "gone"]
  /\ Done(w)
  /\ UNCHANGED <<desk, holder, mix, history>>

\* MarkPaid (Earnings): the commission of sale t is paid out.
PayCommission(t) ==
  /\ "paid" \in mix.kinds /\ commission[t] = "pending"
  /\ commission' = [commission EXCEPT ![t] = "paid"]
  /\ req' = [w \in Workers |-> IF w \in Voids THEN [req[w] EXCEPT !.paid = @ \cup {t}] ELSE req[w]]
  /\ UNCHANGED <<txn, entries, review, plan, desk, holder, mix, history>>

\* The worker dies, or a query fails; an open transaction is rolled back.
BreakOff(w) ==
  /\ "break" \in mix.kinds /\ Busy(w)
  /\ holder' = IF holder = w THEN None ELSE holder
  /\ contested' = IF At(w, "review") THEN contested \cup {req[w].subject} ELSE contested
  /\ Done(w)
  /\ UNCHANGED <<rows, desk, mix, given, shared, rebooked, squeezed>>

PayStep(w) ==
  \/ SetKey(w) \/ ReadKey(w) \/ DropKey(w) \/ TakeCode(w) \/ TakeLogin(w)
  \/ TakeReceipt(w) \/ LockMember(w)
  \/ \E t \in Sales : Sell(w, t) \/ BookEntry(w, t)
OfficeStep(w) ==
  Finish(w) \/ SetStatus(w) \/ SetReview(w) \/ ReadRemaining(w) \/ CheckPaid(w) \/ Erase(w)

Next ==
  \/ \E w \in Workers :
       \/ \E s \in Staff : Confirm(w, s) \/ \E a \in Amounts : Pay(w, s, a)
       \/ \E e \in entries : OpenEntry(w, e) \/ OpenComplete(w, e)
       \/ \E t \in Sales : Decide(w, "verify", t) \/ Decide(w, "reject", t) \/ OpenVoid(w, t)
       \/ PayStep(w) \/ OfficeStep(w) \/ BreakOff(w)
  \/ \E s \in Staff : SendCode(s) \/ Expire(s)
  \/ \E t \in Sales :
       \/ \E a \in Amounts : Subscribe(t, a) \/ Renew(t, a) \/ Post(t, a)
       \/ PayCommission(t)
  \/ SendLogin \/ LogIn \/ Cool

Spec == Init /\ [][Next]_vars

----------------------------------------------------------------------------
(* Properties.                                                               *)

\* A member of staff records no more sales than codes were accepted from the member for
\* them, the desk's or the member's own login codes, unless two requests saw the same
\* confirmation before either deleted it (StaffPaymentListCreateView.post).
ConfirmedSales ==
  \A s \in Staff \ shared : Cardinality({t \in Used : txn[t].staff = s}) <= given[s]

\* Not so, by validate_otp: what confirms a payment "must match send + verify + final
\* payment create" (staff_payments/services.py:68), so no payment takes a login code.
DeskCodeConfirms == [][login /\ ~login' => given' = given]_vars

\* A second sale of the same staff to the member within the cooldown is refused, even
\* when both were submitted at once (_staff_payment_duplicate_check under the lock).
OneFreshEntry ==
  \A d, e \in entries : d.fresh /\ e.fresh /\ d.staff = e.staff => d = e

\* An entry is turned into a sale once, unless two managers had it open as pending at
\* the same time (BranchPaymentVerifyAPIView).
BookedOnce == \A e \in entries : e.booked <= 1 \/ e.receipt \in rebooked

\* What the office decided on a payment is what its review says, unless two decisions
\* were made at once or one broke off between its two writes.
ReviewAgrees ==
  \A t \in Rows \ contested :
    ~Deciding(t) /\ review[t] # None => (review[t] = "rejected" <=> txn[t].status = "failed")

\* A sale that stands has its days in the member's plan, whatever was voided around it,
\* unless a void was under way when it, or a decision about it, was made.
SaleKeepsPlan ==
  \A t \in Successes \ squeezed : txn[t].sold => t \in plan

\* A void takes no commission that was already paid out when it looked.
PaidCommissionKept ==
  [][\A t \in Sales : commission[t] = "paid" =>
       commission'[t] = "paid" \/ \E w \in Voids : At(w, "erase") /\ t \in req[w].paid]_vars

=============================================================================
