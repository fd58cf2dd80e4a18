------------------------------ MODULE Earnings ------------------------------
(***************************************************************************)
(* What the staff earn: commissions from sale to payment                   *)
(* (admin_panel/commissions) and the monthly payroll that adds them to the *)
(* salaries (admin_panel/payroll).                                         *)
(*                                                                         *)
(* Approving, paying and cancelling read a row, test its status in Python  *)
(* and save the row: two statements with no lock between them.  Generating *)
(* a month's payroll asks first whether the month has records, then        *)
(* inserts one record per member of staff in a transaction; the inserts of *)
(* an open transaction are kept in its request, and a second insert of the *)
(* same key waits for it (unique constraint uniq_salary_staff_month).      *)
(***************************************************************************)
EXTENDS Naturals, FiniteSets

CONSTANTS
  Staff,        \* numbers, in the order the staff list is read
  Commissions,
  Earner,       \* Earner[c]: who made the sale
  Workers,
  MaxMonth,     \* bound of the model
  Mixes         \* bound of the model: what is done together in one behaviour

ASSUME EarningsAssumption ==
  /\ Staff \subseteq Nat /\ IsFiniteSet(Staff)
  /\ Earner \in [Commissions -> Staff]
  /\ MaxMonth \in Nat

VARIABLES
  commission,   \* commission[c]: the admin_commission row
  salary,       \* salary[s][m]: the admin_salary_record row
  employed,     \* staff that are active
  month,        \* the current month
  mix,          \* the kinds of requests made; "hire": the staff changes, too
  req,          \* req[w]: the request worker w is serving
  raced,        \* history: commissions two requests had open at once
  late,         \* history: requests whose row was paid after they read it
  lists         \* history: lists[m], the staff lists read by the generations of m

vars == <<commission, salary, employed, month, mix, req, raced, late, lists>>

Months == 0..MaxMonth
Never == [in |-> "never"]
PaidIn(m) == [in |-> "month", month |-> m]

None == [status |-> "none"]
CommissionRow == [status : {"pending", "approved", "paid", "cancelled"},
                  paidAt : {Never} \cup {PaidIn(m) : m \in Months}]
SalaryRow == [status : {"draft", "approved", "paid"}, counted : SUBSET Commissions]

OnCommission == {"approve", "pay", "cancel"}
OnSalary == {"approve_salary", "pay_salary"}

Idle == [kind |-> "idle"]
Request ==
  [kind : OnCommission, c : Commissions]
  \cup [kind : OnSalary, s : Staff, m : Months]
  \cup [kind : {"generate"}, m : Months, pc : {"open", "rows"}, todo : SUBSET Staff,
        rows : SUBSET [s : Staff, counted : SUBSET Commissions]]

TypeOK ==
  /\ commission \in [Commissions -> CommissionRow \cup {None}]
  /\ salary \in [Staff -> [Months -> SalaryRow \cup {None}]]
  /\ employed \subseteq Staff
  /\ month \in Months
  /\ mix \in Mixes
  /\ req \in [Workers -> Request \cup {Idle}]
  /\ raced \subseteq Commissions /\ late \subseteq Workers
  /\ lists \in [Months -> SUBSET SUBSET Staff]

Init ==
  /\ commission = [c \in Commissions |-> None]
  /\ salary = [s \in Staff |-> [m \in Months |-> None]]
  /\ employed \in SUBSET Staff
  /\ month = 0
  /\ mix \in Mixes
  /\ req = [w \in Workers |-> Idle]
  /\ raced = {} /\ late = {}
  /\ lists = [m \in Months |-> {}]

----------------------------------------------------------------------------
Done(w) == req' = [req EXCEPT ![w] = Idle] /\ late' = late \ {w}

\* The requests, other than w's, that read a row before it became paid.
Stale(kinds, w, Same(_)) == {v \in Workers \ {w} : req[v].kind \in kinds /\ Same(req[v])}

----------------------------------------------------------------------------
(* Commissions.                                                              *)

\* create_commission_on_subscription_purchase, or a manual commission.
Earn(c) ==
  /\ commission[c] = None /\ mix \cap OnCommission # {}
  /\ commission' = [commission EXCEPT ![c] = [status |-> "pending", paidAt |-> Never]]
  /\ UNCHANGED <<salary, employed, month, mix, req, raced, late, lists>>

\* The status a request insists on.
Requires(kind) ==
  CASE kind \in {"approve", "cancel"} -> "pending"
    [] kind = "pay" -> "approved"
    [] kind = "approve_salary" -> "draft"
    [] kind = "pay_salary" -> "approved"

\* Mutant: the action is saved in place of the status it leads to.
SavesKind(kind) == kind

\* The status it saves.
Saves(kind) ==
  CASE kind \in {"approve", "approve_salary"} -> "approved"
    [] kind \in {"pay", "pay_salary"} -> "paid"
    [] kind = "cancel" -> "cancelled"

\* Mutant: the status of a commission is not looked at.
OpenAnyCommission(w, kind, c) ==
  /\ req[w] = Idle /\ kind \in mix
  /\ commission[c] # None
  /\ req' = [req EXCEPT ![w] = [kind |-> kind, c |-> c]]
  /\ raced' = IF \E v \in Workers : req[v].kind \in OnCommission /\ req[v].c = c
              THEN raced \cup {c} ELSE raced
  /\ UNCHANGED <<commission, salary, employed, month, mix, late, lists>>

\* The row is read and its status tested.
OpenCommission(w, kind, c) ==
  /\ req[w] = Idle /\ kind \in mix
  /\ commission[c].status = Requires(kind)
  /\ req' = [req EXCEPT ![w] = [kind |-> kind, c |-> c]]
  /\ raced' = IF \E v \in Workers : req[v].kind \in OnCommission /\ req[v].c = c
              THEN raced \cup {c} ELSE raced
  /\ UNCHANGED <<commission, salary, employed, month, mix, late, lists>>

\* save(update_fields=...): approve and cancel leave paid_at alone.
SaveCommission(w) ==
  /\ req[w].kind \in OnCommission
  /\ LET c == req[w].c  kind == req[w].kind IN
       /\ commission' = [commission EXCEPT
            ![c].status = Saves(kind),
            ![c].paidAt = IF kind = "pay" THEN PaidIn(month) ELSE @]
       /\ req' = [req EXCEPT ![w] = Idle]
       /\ late' = (late \ {w}) \cup
            IF kind = "pay" THEN Stale(OnCommission, w, LAMBDA r : r.c = c) ELSE {}
  /\ UNCHANGED <<salary, employed, month, mix, raced, lists>>

\* bulk-approve: one UPDATE of those that are pending when it runs.
BulkApprove(C) ==
  /\ \E c \in C : commission[c].status = "pending"
  /\ commission' = [c \in Commissions |->
       IF c \in C /\ commission[c].status = "pending"
       THEN [commission[c] EXCEPT !.status = "approved"] ELSE commission[c]]
  /\ UNCHANGED <<salary, employed, month, mix, req, raced, late, lists>>

----------------------------------------------------------------------------
(* Payroll.                                                                  *)

HasRecords(m) == \E s \in Staff : salary[s][m] # None

\* GeneratePayrollAPIView: not for a future month, nor a month that has records.
OpenGenerate(w, m) ==
  /\ req[w] = Idle /\ "generate" \in mix
  /\ m <= month
  /\ ~ HasRecords(m)
  /\ req' = [req EXCEPT ![w] =
       [kind |-> "generate", m |-> m, pc |-> "open", todo |-> {}, rows |-> {}]]
  /\ UNCHANGED <<commission, salary, employed, month, mix, raced, late, lists>>

\* The transaction begins: the records there are, then the staff.
ReadStaff(w) ==
  /\ req[w].kind = "generate" /\ req[w].pc = "open"
  /\ req' = [req EXCEPT ![w].pc = "rows",
                        ![w].todo = {s \in employed : salary[s][req[w].m] = None}]
  /\ lists' = [lists EXCEPT ![req[w].m] = @ \cup {employed}]
  /\ UNCHANGED <<commission, salary, employed, month, mix, raced, late>>

Writing(w) == req[w].kind = "generate" /\ req[w].pc = "rows"

\* The next member of staff.
NextStaff(w) == CHOOSE s \in req[w].todo : \A t \in req[w].todo : s <= t

\* An uncommitted record of s and m in another transaction.
Held(s, m, w) ==
  \E v \in Workers \ {w} : Writing(v) /\ req[v].m = m /\ \E r \in req[v].rows : r.s = s

\* Mutant: the paid commissions of all months.
SumOfAllPaid(s, m) == {c \in Commissions : Earner[c] = s /\ commission[c].status = "paid"}

\* commission_sum_paid_in_month
SumPaidInMonth(s, m) ==
  {c \in Commissions : Earner[c] = s /\ commission[c].status = "paid"
                         /\ commission[c].paidAt = PaidIn(m)}

\* Mutant: the records are not inserted in one transaction.
InsertAndCommit(w) ==
  /\ Writing(w) /\ req[w].todo # {}
  /\ LET s == NextStaff(w)  m == req[w].m IN
       IF salary[s][m] # None
       THEN Done(w) /\ UNCHANGED salary
       ELSE /\ salary' = [salary EXCEPT ![s][m] =
                 [status |-> "draft", counted |-> SumPaidInMonth(s, m)]]
            /\ req' = [req EXCEPT ![w].todo = @ \ {s}] /\ UNCHANGED late
  /\ UNCHANGED <<commission, employed, month, mix, raced, lists>>

\* One record.  A record committed meanwhile breaks the unique constraint, and the
\* transaction is rolled back with an IntegrityError.
InsertRecord(w) ==
  /\ Writing(w) /\ req[w].todo # {}
  /\ LET s == NextStaff(w)  m == req[w].m IN
       /\ ~ Held(s, m, w)
       /\ IF salary[s][m] # None
          THEN Done(w)
          ELSE /\ req' = [req EXCEPT
                    ![w].todo = @ \ {s},
                    ![w].rows = @ \cup {[s |-> s, counted |-> SumPaidInMonth(s, m)]}]
               /\ UNCHANGED late
  /\ UNCHANGED <<commission, salary, employed, month, mix, raced, lists>>

CommitRecords(w) ==
  /\ Writing(w) /\ req[w].todo = {}
  /\ salary' = [s \in Staff |-> [m \in Months |->
       IF m = req[w].m /\ \E r \in req[w].rows : r.s = s
       THEN [status |-> "draft", counted |-> (CHOOSE r \in req[w].rows : r.s = s).counted]
       ELSE salary[s][m]]]
  /\ Done(w)
  /\ UNCHANGED <<commission, employed, month, mix, raced, lists>>

\* Approving and paying a salary: read and test, then save.
OpenSalary(w, kind, s, m) ==
  /\ req[w] = Idle /\ kind \in mix
  /\ salary[s][m].status = Requires(kind)
  /\ req' = [req EXCEPT ![w] = [kind |-> kind, s |-> s, m |-> m]]
  /\ UNCHANGED <<commission, salary, employed, month, mix, raced, late, lists>>

SaveSalary(w) ==
  /\ req[w].kind \in OnSalary
  /\ LET s == req[w].s  m == req[w].m IN
       /\ salary' = [salary EXCEPT ![s][m].status = Saves(req[w].kind)]
       /\ req' = [req EXCEPT ![w] = Idle]
       /\ late' = (late \ {w}) \cup
            IF req[w].kind = "pay_salary"
            THEN Stale(OnSalary, w, LAMBDA r : r.s = s /\ r.m = m) ELSE {}
  /\ UNCHANGED <<commission, employed, month, mix, raced, lists>>

----------------------------------------------------------------------------
\* A worker dies; an open transaction is rolled back.
Crash(w) ==
  /\ req[w] # Idle
  /\ Done(w)
  /\ UNCHANGED <<commission, salary, employed, month, mix, raced, lists>>

\* Somebody is hired, or leaves.
ChangeStaff(s) ==
  /\ "hire" \in mix
  /\ employed' = IF s \in employed THEN employed \ {s} ELSE employed \cup {s}
  /\ UNCHANGED <<commission, salary, month, mix, req, raced, late, lists>>

NextMonth ==
  /\ month < MaxMonth
  /\ month' = month + 1
  /\ UNCHANGED <<commission, salary, employed, mix, req, raced, late, lists>>

Next ==
  \/ \E c \in Commissions : Earn(c)
  \/ \E w \in Workers, kind \in OnCommission, c \in Commissions : OpenCommission(w, kind, c)
  \/ \E C \in SUBSET Commissions : BulkApprove(C)
  \/ \E w \in Workers, m \in Months : OpenGenerate(w, m)
  \/ \E w \in Workers, kind \in OnSalary, s \in Staff, m \in Months : OpenSalary(w, kind, s, m)
  \/ \E w \in Workers : SaveCommission(w) \/ ReadStaff(w) \/ InsertRecord(w)
                          \/ CommitRecords(w) \/ SaveSalary(w) \/ Crash(w)
  \/ \E s \in Staff : ChangeStaff(s)
  \/ NextMonth

Spec == Init /\ [][Next]_vars

----------------------------------------------------------------------------
(* Properties.                                                               *)

\* A commission is part of at most one salary, unless two requests had it open at
\* the same time: a late approval makes a paid commission payable again, in another
\* month.
CountedOnce ==
  \A c \in Commissions \ raced :
    \A m, n \in Months :
      LET s == Earner[c] IN
        salary[s][m] # None /\ salary[s][n] # None
          /\ c \in salary[s][m].counted /\ c \in salary[s][n].counted => m = n

\* A month's payroll is never half generated: if it has a record, it has one for
\* everybody on a staff list that some generation of the month read, whichever
\* generations ran at the same time or died.
PayrollWhole ==
  \A m \in Months :
    HasRecords(m) => \E L \in lists[m] : \A s \in L : salary[s][m] # None

\* What has been paid stays paid, but for a request that read the row before.
PaidStays ==
  [][/\ \A c \in Commissions :
          commission[c].status = "paid" /\ commission'[c] # commission[c] =>
            \E w \in late : req[w].kind \in OnCommission /\ req[w].c = c /\ req'[w] = Idle
     /\ \A s \in Staff, m \in Months :
          salary[s][m].status = "paid" /\ salary'[s][m] # salary[s][m] =>
            \E w \in late : req[w].kind \in OnSalary /\ req[w].s = s /\ req[w].m = m
                              /\ req'[w] = Idle]_vars

\* "Sum of paid commissions in this month" (payroll/models.py:28): once the month is
\* over, a salary counts every commission paid in it.
SalaryHasMonthsCommissions ==
  \A s \in Staff : \A m \in {n \in Months : n < month} :
    salary[s][m] # None => salary[s][m].counted = SumPaidInMonth(s, m)
=============================================================================
