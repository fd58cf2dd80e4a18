--------------------------- MODULE EarningsProofs ---------------------------
(***************************************************************************)
(* Proofs about Earnings, for every staff, every set of commissions, every *)
(* number of months and of requests at a time.                             *)
(***************************************************************************)
EXTENDS Earnings, WellFoundedInduction, TLAPS

On(w, c) == req[w].kind \in OnCommission /\ req[w].c = c
OnRecord(w, s, m) == req[w].kind \in OnSalary /\ req[w].s = s /\ req[w].m = m

\* A request is about a row that exists; a generation has nothing before it reads the staff.
RequestsLinked ==
  /\ \A w \in Workers, c \in Commissions : On(w, c) => commission[c] # None
  /\ \A w \in Workers, s \in Staff, m \in Months : OnRecord(w, s, m) => salary[s][m] # None
  /\ \A w \in Workers : req[w].kind = "generate" /\ req[w].pc = "open" => req[w].rows = {}

TypeInv == TypeOK /\ RequestsLinked

----------------------------------------------------------------------------
(* The requests.                                                             *)

CommissionRequest == [kind : OnCommission, c : Commissions]
SalaryRequest == [kind : OnSalary, s : Staff, m : Months]
GenerateRequest ==
  [kind : {"generate"}, m : Months, pc : {"open", "rows"}, todo : SUBSET Staff,
   rows : SUBSET [s : Staff, counted : SUBSET Commissions]]

LEMMA RequestIs ==
  ASSUME TypeOK, NEW w \in Workers
  PROVE  /\ req[w].kind \in OnCommission => req[w] \in CommissionRequest
         /\ req[w].kind \in OnSalary => req[w] \in SalaryRequest
         /\ req[w].kind = "generate" => req[w] \in GenerateRequest
         /\ req[w] \in Request \/ req[w] = Idle
<1>1. req[w] \in Request \cup {Idle}
  BY DEF TypeOK
<1>2. Request = CommissionRequest \cup SalaryRequest \cup GenerateRequest
  BY DEF Request, CommissionRequest, SalaryRequest, GenerateRequest
<1>3. \A r \in CommissionRequest : r.kind \in OnCommission
  BY DEF CommissionRequest
<1>4. \A r \in SalaryRequest : r.kind \in OnSalary
  BY DEF SalaryRequest
<1>5. \A r \in GenerateRequest : r.kind = "generate"
  BY DEF GenerateRequest
<1>6. Idle.kind = "idle"
  BY DEF Idle
<1> QED
  BY <1>1, <1>2, <1>3, <1>4, <1>5, <1>6 DEF OnCommission, OnSalary

LEMMA Placed ==
  ASSUME TypeOK, NEW w \in Workers, NEW r \in Request \cup {Idle}, req' = [req EXCEPT ![w] = r]
  PROVE  req' \in [Workers -> Request \cup {Idle}]
  BY DEF TypeOK

LEMMA RequestKinds ==
  CommissionRequest \cup SalaryRequest \cup GenerateRequest \subseteq Request
  BY DEF Request, CommissionRequest, SalaryRequest, GenerateRequest

LEMMA SavesType ==
  /\ \A kind \in OnCommission : Saves(kind) \in {"approved", "paid", "cancelled"}
  /\ \A kind \in OnSalary : Saves(kind) \in {"approved", "paid"}
  /\ \A kind \in OnCommission : Saves(kind) = "paid" => kind = "pay"
  /\ \A kind \in OnSalary : Saves(kind) = "paid" => kind = "pay_salary"
  BY DEF Saves, OnCommission, OnSalary

LEMMA RequiresOpen ==
  /\ \A kind \in OnCommission : Requires(kind) \in {"pending", "approved"}
  /\ \A kind \in OnSalary : Requires(kind) \in {"draft", "approved"}
  BY DEF Requires, OnCommission, OnSalary

----------------------------------------------------------------------------
(* The least of a set of numbers: the member of staff whose turn it is.      *)

Below == {ss \in Nat \X Nat : ss[1] < ss[2]}

LEMMA Least ==
  ASSUME NEW S \in SUBSET Nat, S # {}
  PROVE  \E x \in S : \A y \in S : x <= y
<1>1. IsWellFoundedOn(Below, Nat)
  BY NatLessThanWellFounded DEF OpToRel, Below
<1>2. PICK x \in S : \A y \in S : ~(<<y, x>> \in Below)
  BY <1>1, WFMin
<1>3. \A y \in S : ~(y < x)
  BY <1>2 DEF Below
<1> QED
  BY <1>3

LEMMA NextStaffIs ==
  ASSUME TypeOK, NEW w \in Workers, Writing(w), req[w].todo # {}
  PROVE  NextStaff(w) \in req[w].todo /\ NextStaff(w) \in Staff
<1>1. req[w].todo \subseteq Staff
  BY RequestIs DEF Writing, GenerateRequest
<1>2. \E s \in req[w].todo : \A t \in req[w].todo : s <= t
  BY <1>1, Least, EarningsAssumption
<1> QED
  BY <1>1, <1>2 DEF NextStaff

----------------------------------------------------------------------------
(* Types.                                                                    *)

LEMMA TypeInit == Init => TypeInv
<1> SUFFICES ASSUME Init PROVE TypeInv
  OBVIOUS
<1>1. TypeOK
  <2>1. month \in Months
    BY EarningsAssumption DEF Init, Months
  <2>2. mix \in Mixes
    BY DEF Init
  <2>3. /\ commission \in [Commissions -> CommissionRow \cup {None}]
        /\ salary \in [Staff -> [Months -> SalaryRow \cup {None}]]
        /\ req \in [Workers -> Request \cup {Idle}]
    BY DEF Init
  <2> QED
    BY <2>1, <2>2, <2>3 DEF Init, TypeOK
<1>2. RequestsLinked
  BY DEF Init, RequestsLinked, On, OnRecord, Idle, OnCommission, OnSalary
<1> QED
  BY <1>1, <1>2 DEF TypeInv

LEMMA TypeStep == TypeInv /\ [Next]_vars => TypeOK'
<1> SUFFICES ASSUME TypeInv, [Next]_vars PROVE TypeOK'
  OBVIOUS
<1>t. TypeOK
  BY DEF TypeInv
<1>1. ASSUME NEW c \in Commissions, Earn(c) PROVE TypeOK'
  <2>1. [status |-> "pending", paidAt |-> Never] \in CommissionRow
    BY DEF CommissionRow
  <2> QED
    BY <1>1, <1>t, <2>1 DEF TypeOK, Earn
<1>2. ASSUME NEW w \in Workers, NEW kind \in OnCommission, NEW c \in Commissions,
             OpenCommission(w, kind, c)
      PROVE  TypeOK'
  <2>1. [kind |-> kind, c |-> c] \in Request \cup {Idle}
    BY RequestKinds DEF CommissionRequest
  <2>2. req' \in [Workers -> Request \cup {Idle}]
    BY <1>2, <1>t, <2>1, Placed DEF OpenCommission
  <2>3. raced' \subseteq Commissions
    BY <1>2, <1>t DEF OpenCommission, TypeOK
  <2> QED
    BY <1>2, <1>t, <2>2, <2>3 DEF TypeOK, OpenCommission
<1>3. ASSUME NEW w \in Workers, SaveCommission(w) PROVE TypeOK'
  <2> DEFINE c == req[w].c
             kind == req[w].kind
  <2>1. c \in Commissions /\ kind \in OnCommission
    BY <1>3, <1>t, RequestIs DEF SaveCommission, CommissionRequest
  <2>2. commission[c] \in CommissionRow
    BY <2>1 DEF TypeInv, TypeOK, RequestsLinked, On
  <2>3. Saves(kind) \in {"approved", "paid", "cancelled"} /\ PaidIn(month) \in {PaidIn(m) : m \in Months}
    BY <2>1, <1>t, SavesType DEF TypeOK
  <2>4. commission' = [commission EXCEPT
            ![c].status = Saves(kind), ![c].paidAt = IF kind = "pay" THEN PaidIn(month) ELSE @]
    BY <1>3 DEF SaveCommission
  <2> DEFINE row == [commission[c] EXCEPT !.status = Saves(kind),
                       !.paidAt = IF kind = "pay" THEN PaidIn(month) ELSE @]
  <2>5. row \in CommissionRow
    BY <2>2, <2>3 DEF CommissionRow
  <2>6. commission' = [commission EXCEPT ![c] = row]
    BY <2>4
  <2> HIDE DEF row
  <2>7. commission' \in [Commissions -> CommissionRow \cup {None}]
    BY <1>t, <2>5, <2>6 DEF TypeOK
  <2>8. req' \in [Workers -> Request \cup {Idle}]
    BY <1>3, <1>t, Placed DEF SaveCommission
  <2>9. late' \subseteq Workers
    BY <1>3, <1>t DEF SaveCommission, Stale, TypeOK
  <2> QED
    BY <1>3, <1>t, <2>7, <2>8, <2>9 DEF TypeOK, SaveCommission
<1>4. ASSUME NEW C \in SUBSET Commissions, BulkApprove(C) PROVE TypeOK'
  <2>1. ASSUME NEW c \in Commissions, commission[c].status = "pending"
        PROVE  [commission[c] EXCEPT !.status = "approved"] \in CommissionRow
    <3>1. commission[c] \in CommissionRow
      BY <1>t, <2>1 DEF TypeOK, None
    <3> QED
      BY <3>1 DEF CommissionRow
  <2>2. commission' \in [Commissions -> CommissionRow \cup {None}]
    BY <1>4, <1>t, <2>1 DEF BulkApprove, TypeOK
  <2> QED
    BY <1>4, <1>t, <2>2 DEF TypeOK, BulkApprove
<1>5. ASSUME NEW w \in Workers, NEW m \in Months, OpenGenerate(w, m) PROVE TypeOK'
  <2>1. [kind |-> "generate", m |-> m, pc |-> "open", todo |-> {}, rows |-> {}] \in Request \cup {Idle}
    BY RequestKinds DEF GenerateRequest
  <2>2. req' \in [Workers -> Request \cup {Idle}]
    BY <1>5, <1>t, <2>1, Placed DEF OpenGenerate
  <2> QED
    BY <1>5, <1>t, <2>2 DEF TypeOK, OpenGenerate
<1>6. ASSUME NEW w \in Workers, ReadStaff(w) PROVE TypeOK'
  <2> DEFINE todo == {s \in employed : salary[s][req[w].m] = None}
             r == [req[w] EXCEPT !.pc = "rows", !.todo = todo]
  <2>1. req[w] \in GenerateRequest
    BY <1>6, <1>t, RequestIs DEF ReadStaff
  <2>2. todo \subseteq Staff
    BY <1>t DEF TypeOK
  <2>3. r \in Request \cup {Idle}
    BY <2>1, <2>2, RequestKinds DEF GenerateRequest
  <2>4. req' = [req EXCEPT ![w] = r]
    BY <1>6 DEF ReadStaff
  <2> HIDE DEF r
  <2>5. req' \in [Workers -> Request \cup {Idle}]
    BY <1>t, <2>3, <2>4, Placed
  <2>6. lists' \in [Months -> SUBSET SUBSET Staff]
    BY <1>6, <1>t, <2>1 DEF ReadStaff, TypeOK, GenerateRequest
  <2> QED
    BY <1>6, <1>t, <2>5, <2>6 DEF TypeOK, ReadStaff
<1>7. ASSUME NEW w \in Workers, InsertRecord(w) PROVE TypeOK'
  <2> DEFINE s == NextStaff(w)
             counted == SumPaidInMonth(s, req[w].m)
             r == [req[w] EXCEPT !.todo = @ \ {s}, !.rows = @ \cup {[s |-> s, counted |-> counted]}]
  <2>1. req[w] \in GenerateRequest /\ s \in Staff
    BY <1>7, <1>t, RequestIs, NextStaffIs DEF InsertRecord, Writing
  <2>2. counted \subseteq Commissions
    BY DEF SumPaidInMonth
  <2>3. r \in Request \cup {Idle}
    <3> HIDE DEF s, counted
    <3>1. [s |-> s, counted |-> counted] \in [s : Staff, counted : SUBSET Commissions]
      BY <2>1, <2>2
    <3>2. /\ req[w].todo \ {s} \in SUBSET Staff
          /\ req[w].rows \cup {[s |-> s, counted |-> counted]}
               \in SUBSET [s : Staff, counted : SUBSET Commissions]
      BY <2>1, <3>1 DEF GenerateRequest
    <3>3. r \in GenerateRequest
      BY <2>1, <3>2 DEF GenerateRequest
    <3> QED
      BY <3>3, RequestKinds
  <2>4. Done(w) \/ (req' = [req EXCEPT ![w] = r] /\ UNCHANGED late)
    BY <1>7 DEF InsertRecord
  <2> HIDE DEF r
  <2>5. req' \in [Workers -> Request \cup {Idle}] /\ late' \subseteq Workers
    BY <1>t, <2>3, <2>4, Placed DEF Done, TypeOK
  <2> QED
    BY <1>7, <1>t, <2>5 DEF TypeOK, InsertRecord
<1>8. ASSUME NEW w \in Workers, CommitRecords(w) PROVE TypeOK'
  <2>1. req[w] \in GenerateRequest
    BY <1>8, <1>t, RequestIs DEF CommitRecords, Writing
  <2>2. ASSUME NEW s \in Staff, \E r \in req[w].rows : r.s = s
        PROVE  [status |-> "draft", counted |-> (CHOOSE r \in req[w].rows : r.s = s).counted] \in SalaryRow
    <3>1. PICK r \in req[w].rows : r = CHOOSE q \in req[w].rows : q.s = s
      BY <2>2
    <3>2. r.counted \subseteq Commissions
      BY <2>1 DEF GenerateRequest
    <3> QED
      BY <3>1, <3>2 DEF SalaryRow
  <2>3. salary' \in [Staff -> [Months -> SalaryRow \cup {None}]]
    BY <1>8, <1>t, <2>2 DEF CommitRecords, TypeOK
  <2>4. req' \in [Workers -> Request \cup {Idle}] /\ late' \subseteq Workers
    BY <1>8, <1>t, Placed DEF CommitRecords, Done, TypeOK
  <2> QED
    BY <1>8, <1>t, <2>3, <2>4 DEF TypeOK, CommitRecords
<1>9. ASSUME NEW w \in Workers, NEW kind \in OnSalary, NEW s \in Staff, NEW m \in Months,
             OpenSalary(w, kind, s, m)
      PROVE  TypeOK'
  <2>1. [kind |-> kind, s |-> s, m |-> m] \in Request \cup {Idle}
    BY RequestKinds DEF SalaryRequest
  <2>2. req' \in [Workers -> Request \cup {Idle}]
    BY <1>9, <1>t, <2>1, Placed DEF OpenSalary
  <2> QED
    BY <1>9, <1>t, <2>2 DEF TypeOK, OpenSalary
<1>10. ASSUME NEW w \in Workers, SaveSalary(w) PROVE TypeOK'
  <2> DEFINE s == req[w].s
             m == req[w].m
             row == [salary[s][m] EXCEPT !.status = Saves(req[w].kind)]
  <2>1. s \in Staff /\ m \in Months /\ req[w].kind \in OnSalary
    BY <1>10, <1>t, RequestIs DEF SaveSalary, SalaryRequest
  <2>2. salary[s][m] \in SalaryRow
    BY <2>1 DEF TypeInv, TypeOK, RequestsLinked, OnRecord
  <2>3. row \in SalaryRow
    BY <2>1, <2>2, SavesType DEF SalaryRow
  <2>4. salary' = [salary EXCEPT ![s][m] = row]
    BY <1>10 DEF SaveSalary
  <2> HIDE DEF row
  <2>5. salary' \in [Staff -> [Months -> SalaryRow \cup {None}]]
    BY <1>t, <2>1, <2>3, <2>4 DEF TypeOK
  <2>6. req' \in [Workers -> Request \cup {Idle}]
    BY <1>10, <1>t, Placed DEF SaveSalary
  <2>7. late' \subseteq Workers
    BY <1>10, <1>t DEF SaveSalary, Stale, TypeOK
  <2> QED
    BY <1>10, <1>t, <2>5, <2>6, <2>7 DEF TypeOK, SaveSalary
<1>11. ASSUME NEW w \in Workers, Crash(w) PROVE TypeOK'
  <2>1. req' \in [Workers -> Request \cup {Idle}] /\ late' \subseteq Workers
    BY <1>11, <1>t, Placed DEF Crash, Done, TypeOK
  <2> QED
    BY <1>11, <1>t, <2>1 DEF TypeOK, Crash
<1>12. ASSUME NEW s \in Staff, ChangeStaff(s) PROVE TypeOK'
  BY <1>12, <1>t DEF TypeOK, ChangeStaff
<1>13. CASE NextMonth
  <2>1. month' \in Months
    BY <1>13, <1>t, EarningsAssumption DEF NextMonth, TypeOK, Months
  <2> QED
    BY <1>13, <1>t, <2>1 DEF TypeOK, NextMonth
<1>14. CASE UNCHANGED vars
  BY <1>14, <1>t DEF TypeOK, vars
<1> QED
  BY <1>1, <1>2, <1>3, <1>4, <1>5, <1>6, <1>7, <1>8, <1>9, <1>10, <1>11, <1>12, <1>13, <1>14
     DEF Next

----------------------------------------------------------------------------
(* What a step does to a request, a commission and a salary.                 *)

\* Mine: the record that w inserts next.
NextRecord(w) == [s |-> NextStaff(w), counted |-> SumPaidInMonth(NextStaff(w), req[w].m)]

Inserts(w) ==
  /\ Writing(w) /\ req[w].todo # {} /\ ~Held(NextStaff(w), req[w].m, w)
  /\ salary[NextStaff(w)][req[w].m] = None
  /\ Writing(w)' /\ req'[w].m = req[w].m
  /\ req'[w].todo = req[w].todo \ {NextStaff(w)}
  /\ req'[w].rows = req[w].rows \cup {NextRecord(w)}

Reads(w) ==
  /\ req[w].kind = "generate" /\ req[w].pc = "open"
  /\ Writing(w)' /\ req'[w].m = req[w].m /\ req'[w].rows = {}
  /\ req'[w].todo = {s \in employed : salary[s][req[w].m] = None}
  /\ employed \in lists'[req[w].m]

Moves(w) ==
  \/ req'[w] = req[w]
  \/ req'[w] = Idle
  \/ \E kind \in OnCommission, c \in Commissions :
       OpenCommission(w, kind, c) /\ req'[w] = [kind |-> kind, c |-> c]
  \/ \E kind \in OnSalary, s \in Staff, m \in Months :
       OpenSalary(w, kind, s, m) /\ req'[w] = [kind |-> kind, s |-> s, m |-> m]
  \/ req'[w].kind = "generate" /\ req'[w].pc = "open" /\ req'[w].rows = {}
  \/ Reads(w)
  \/ Inserts(w)

LEMMA RequestMoves ==
  ASSUME TypeInv, [Next]_vars, NEW w \in Workers
  PROVE  Moves(w)
<1>t. TypeOK
  BY DEF TypeInv
<1>f. req = [v \in Workers |-> req[v]]
  BY <1>t DEF TypeOK
<1>1. ASSUME NEW v \in Workers, NEW kind \in OnCommission, NEW c \in Commissions,
             OpenCommission(v, kind, c)
      PROVE  Moves(w)
  <2>1. req' = [req EXCEPT ![v] = [kind |-> kind, c |-> c]]
    BY <1>1 DEF OpenCommission
  <2>2. CASE v = w
    BY <1>1, <1>t, <2>1, <2>2 DEF Moves, TypeOK
  <2>3. CASE v # w
    BY <1>t, <2>1, <2>3 DEF Moves, TypeOK
  <2> QED
    BY <2>2, <2>3
<1>2. ASSUME NEW v \in Workers, NEW kind \in OnSalary, NEW s \in Staff, NEW m \in Months,
             OpenSalary(v, kind, s, m)
      PROVE  Moves(w)
  <2>1. req' = [req EXCEPT ![v] = [kind |-> kind, s |-> s, m |-> m]]
    BY <1>2 DEF OpenSalary
  <2>2. CASE v = w
    BY <1>2, <1>t, <2>1, <2>2 DEF Moves, TypeOK
  <2>3. CASE v # w
    BY <1>t, <2>1, <2>3 DEF Moves, TypeOK
  <2> QED
    BY <2>2, <2>3
<1>3. ASSUME NEW v \in Workers, NEW m \in Months, OpenGenerate(v, m) PROVE Moves(w)
  BY <1>3, <1>t DEF OpenGenerate, Moves, TypeOK
<1>4. ASSUME NEW v \in Workers, ReadStaff(v) PROVE Moves(w)
  <2>1. req[v] \in GenerateRequest /\ req[v].rows = {}
    BY <1>4, <1>t, RequestIs DEF ReadStaff, TypeInv, RequestsLinked
  <2> DEFINE r == [req[v] EXCEPT !.pc = "rows", !.todo = {s \in employed : salary[s][req[v].m] = None}]
  <2>2. req' = [req EXCEPT ![v] = r]
    BY <1>4 DEF ReadStaff
  <2>3. /\ r.kind = "generate" /\ r.pc = "rows" /\ r.m = req[v].m /\ r.rows = {}
        /\ r.todo = {s \in employed : salary[s][req[v].m] = None}
    BY <1>4, <2>1 DEF ReadStaff, GenerateRequest
  <2> HIDE DEF r
  <2>4. CASE v = w
    <3>1. req'[w] = r
      BY <1>t, <2>2, <2>4 DEF TypeOK
    <3>2. employed \in lists'[req[w].m]
      BY <1>4, <1>t, <2>1, <2>4 DEF ReadStaff, TypeOK, GenerateRequest
    <3> QED
      BY <1>4, <2>3, <2>4, <3>1, <3>2 DEF Moves, Reads, ReadStaff, Writing
  <2>5. CASE v # w
    BY <1>t, <2>2, <2>5 DEF Moves, TypeOK
  <2> QED
    BY <2>4, <2>5
<1>5. ASSUME NEW v \in Workers, InsertRecord(v) PROVE Moves(w)
  <2>1. req[v] \in GenerateRequest
    BY <1>5, <1>t, RequestIs DEF InsertRecord, Writing
  <2> DEFINE r == [req[v] EXCEPT !.todo = @ \ {NextStaff(v)}, !.rows = @ \cup {NextRecord(v)}]
  <2>2. Done(v) \/ (req' = [req EXCEPT ![v] = r] /\ salary[NextStaff(v)][req[v].m] = None)
    BY <1>5 DEF InsertRecord, NextRecord
  <2>3. /\ r.kind = req[v].kind /\ r.pc = req[v].pc /\ r.m = req[v].m
        /\ r.todo = req[v].todo \ {NextStaff(v)} /\ r.rows = req[v].rows \cup {NextRecord(v)}
    BY <2>1 DEF GenerateRequest
  <2> HIDE DEF r
  <2>4. CASE Done(v)
    BY <1>t, <2>4 DEF Moves, Done, TypeOK
  <2>5. CASE v # w
    BY <1>t, <2>2, <2>5 DEF Moves, Done, TypeOK
  <2>6. CASE v = w /\ ~Done(v)
    <3>1. req'[w] = r
      BY <1>t, <2>2, <2>6 DEF TypeOK
    <3> QED
      BY <1>5, <2>2, <2>3, <2>6, <3>1 DEF Moves, Inserts, InsertRecord, Writing
  <2> QED
    BY <2>4, <2>5, <2>6
<1>6. ASSUME NEW v \in Workers, SaveCommission(v) \/ CommitRecords(v) \/ SaveSalary(v) \/ Crash(v)
      PROVE  Moves(w)
  <2>1. req' = [req EXCEPT ![v] = Idle]
    BY <1>6 DEF SaveCommission, CommitRecords, SaveSalary, Crash, Done
  <2> QED
    BY <1>t, <2>1 DEF Moves, TypeOK
<1>7. CASE \/ \E c \in Commissions : Earn(c)
           \/ \E C \in SUBSET Commissions : BulkApprove(C)
           \/ \E s \in Staff : ChangeStaff(s)
           \/ NextMonth \/ UNCHANGED vars
  BY <1>7 DEF Earn, BulkApprove, ChangeStaff, NextMonth, vars, Moves
<1> QED
  BY <1>1, <1>2, <1>3, <1>4, <1>5, <1>6, <1>7 DEF Next

CommissionMoves(c) ==
  \/ commission'[c] = commission[c]
  \/ commission[c] = None /\ commission'[c].status = "pending"
  \/ commission[c].status = "pending" /\ commission'[c].status = "approved"
  \/ \E w \in Workers :
       /\ On(w, c) /\ req'[w] = Idle /\ commission'[c].status = Saves(req[w].kind)
       /\ \A v \in Workers : v # w /\ On(v, c) /\ req[w].kind = "pay" => v \in late'

LEMMA CommissionSteps ==
  ASSUME TypeInv, [Next]_vars, NEW c \in Commissions
  PROVE  CommissionMoves(c)
<1>t. TypeOK
  BY DEF TypeInv
<1>1. ASSUME NEW d \in Commissions, Earn(d) PROVE CommissionMoves(c)
  BY <1>1, <1>t DEF Earn, CommissionMoves, TypeOK
<1>2. ASSUME NEW C \in SUBSET Commissions, BulkApprove(C) PROVE CommissionMoves(c)
  <2>1. CASE commission'[c] = commission[c]
    BY <2>1 DEF CommissionMoves
  <2>2. CASE commission'[c] # commission[c]
    <3>1. /\ commission[c].status = "pending"
          /\ commission'[c] = [commission[c] EXCEPT !.status = "approved"]
      BY <1>2, <2>2 DEF BulkApprove
    <3>2. commission[c] \in CommissionRow
      BY <1>t, <3>1 DEF TypeOK, None
    <3> QED
      BY <3>1, <3>2 DEF CommissionMoves, CommissionRow
  <2> QED
    BY <2>1, <2>2
<1>3. ASSUME NEW w \in Workers, SaveCommission(w) PROVE CommissionMoves(c)
  <2>1. req[w].c \in Commissions /\ req[w].kind \in OnCommission
    BY <1>3, <1>t, RequestIs DEF SaveCommission, CommissionRequest
  <2>2. CASE req[w].c # c
    BY <1>3, <1>t, <2>1, <2>2 DEF SaveCommission, TypeOK, CommissionMoves
  <2>3. CASE req[w].c = c
    <3>1. commission[c] \in CommissionRow
      BY <2>1, <2>3 DEF TypeInv, TypeOK, RequestsLinked, On
    <3> DEFINE row == [commission[c] EXCEPT !.status = Saves(req[w].kind),
                         !.paidAt = IF req[w].kind = "pay" THEN PaidIn(month) ELSE @]
    <3>2. commission'[c] = row
      BY <1>3, <1>t, <2>3 DEF SaveCommission, TypeOK
    <3>3. row.status = Saves(req[w].kind)
      BY <3>1 DEF CommissionRow
    <3> HIDE DEF row
    <3>4. req'[w] = Idle
      BY <1>3, <1>t DEF SaveCommission, TypeOK
    <3>5. ASSUME NEW v \in Workers, v # w, On(v, c), req[w].kind = "pay" PROVE v \in late'
      BY <1>3, <2>3, <3>5 DEF SaveCommission, Stale, On
    <3> QED
      BY <2>1, <2>3, <3>2, <3>3, <3>4, <3>5 DEF CommissionMoves, On
  <2> QED
    BY <2>2, <2>3
<1>4. CASE UNCHANGED commission
  BY <1>4 DEF CommissionMoves
<1> QED
  BY <1>1, <1>2, <1>3, <1>4 DEF Next, vars, OpenCommission, OpenGenerate, OpenSalary, ReadStaff,
     InsertRecord, CommitRecords, SaveSalary, Crash, ChangeStaff, NextMonth

Inserted(w, s, m) == Writing(w) /\ req[w].m = m /\ \E r \in req[w].rows : r.s = s

SalaryMoves(s, m) ==
  \/ salary'[s][m] = salary[s][m]
  \/ \E w \in Workers :
       /\ CommitRecords(w) /\ Inserted(w, s, m) /\ req'[w] = Idle
       /\ salary'[s][m].status = "draft"
       /\ \E r \in req[w].rows : r.s = s /\ salary'[s][m].counted = r.counted
  \/ \E w \in Workers :
       /\ OnRecord(w, s, m) /\ req'[w] = Idle /\ salary[s][m] # None
       /\ salary'[s][m].status = Saves(req[w].kind) /\ salary'[s][m].counted = salary[s][m].counted
       /\ \A v \in Workers : v # w /\ OnRecord(v, s, m) /\ req[w].kind = "pay_salary" => v \in late'

LEMMA SalarySteps ==
  ASSUME TypeInv, [Next]_vars, NEW s \in Staff, NEW m \in Months
  PROVE  SalaryMoves(s, m)
<1>t. TypeOK
  BY DEF TypeInv
<1>1. ASSUME NEW w \in Workers, CommitRecords(w) PROVE SalaryMoves(s, m)
  <2>1. CASE req[w].m = m /\ \E r \in req[w].rows : r.s = s
    <3>1. PICK r \in req[w].rows : r = CHOOSE q \in req[w].rows : q.s = s
      BY <2>1
    <3>2. r.s = s
      BY <2>1, <3>1
    <3>3. salary'[s][m].status = "draft" /\ salary'[s][m].counted = r.counted
      <4>1. salary'[s][m] = [status |-> "draft", counted |-> r.counted]
        BY <1>1, <2>1, <3>1 DEF CommitRecords
      <4> QED
        BY <4>1
    <3>4. req'[w] = Idle
      BY <1>1, <1>t DEF CommitRecords, Done, TypeOK
    <3> QED
      BY <1>1, <2>1, <3>2, <3>3, <3>4 DEF SalaryMoves, Inserted, CommitRecords
  <2>2. CASE ~(req[w].m = m /\ \E r \in req[w].rows : r.s = s)
    BY <1>1, <2>2 DEF CommitRecords, SalaryMoves
  <2> QED
    BY <2>1, <2>2
<1>2. ASSUME NEW w \in Workers, SaveSalary(w) PROVE SalaryMoves(s, m)
  <2>1. req[w].s \in Staff /\ req[w].m \in Months /\ req[w].kind \in OnSalary
    BY <1>2, <1>t, RequestIs DEF SaveSalary, SalaryRequest
  <2>2. CASE ~(req[w].s = s /\ req[w].m = m)
    BY <1>2, <1>t, <2>1, <2>2 DEF SaveSalary, TypeOK, SalaryMoves
  <2>3. CASE req[w].s = s /\ req[w].m = m
    <3>1. salary[s][m] # None /\ salary[s][m] \in SalaryRow
      BY <2>1, <2>3 DEF TypeInv, TypeOK, RequestsLinked, OnRecord
    <3> DEFINE row == [salary[s][m] EXCEPT !.status = Saves(req[w].kind)]
    <3>2. salary'[s][m] = row
      BY <1>2, <1>t, <2>3 DEF SaveSalary, TypeOK
    <3>3. row.status = Saves(req[w].kind) /\ row.counted = salary[s][m].counted
      BY <3>1 DEF SalaryRow
    <3> HIDE DEF row
    <3>4. req'[w] = Idle
      BY <1>2, <1>t DEF SaveSalary, TypeOK
    <3>5. ASSUME NEW v \in Workers, v # w, OnRecord(v, s, m), req[w].kind = "pay_salary"
          PROVE  v \in late'
      BY <1>2, <2>3, <3>5 DEF SaveSalary, Stale, OnRecord
    <3> QED
      BY <2>1, <2>3, <3>1, <3>2, <3>3, <3>4, <3>5 DEF SalaryMoves, OnRecord
  <2> QED
    BY <2>2, <2>3
<1>3. CASE UNCHANGED salary
  BY <1>3 DEF SalaryMoves
<1> QED
  BY <1>1, <1>2, <1>3 DEF Next, vars, Earn, OpenCommission, SaveCommission, BulkApprove, OpenGenerate,
     OpenSalary, ReadStaff, InsertRecord, Crash, ChangeStaff, NextMonth

LEMMA RowsStay ==
  ASSUME TypeInv, [Next]_vars
  PROVE  /\ \A c \in Commissions : commission[c] # None => commission'[c] # None
         /\ \A s \in Staff, m \in Months : salary[s][m] # None => salary'[s][m] # None
<1>1. ASSUME NEW c \in Commissions, commission[c] # None PROVE commission'[c] # None
  <2>1. ASSUME NEW w \in Workers, On(w, c) PROVE Saves(req[w].kind) # "none"
    BY <2>1, SavesType DEF On
  <2> QED
    BY <1>1, <2>1, CommissionSteps DEF CommissionMoves, None
<1>2. ASSUME NEW s \in Staff, NEW m \in Months, salary[s][m] # None PROVE salary'[s][m] # None
  <2>1. ASSUME NEW w \in Workers, OnRecord(w, s, m) PROVE Saves(req[w].kind) # "none"
    BY <2>1, SavesType DEF OnRecord
  <2> QED
    <3>1. salary'[s][m] = salary[s][m] \/ salary'[s][m].status # "none"
      BY <2>1, SalarySteps DEF SalaryMoves
    <3> QED
      BY <1>2, <3>1 DEF None
<1> QED
  BY <1>1, <1>2

\* A request that is on a row was on it before, or has just read it.
LEMMA NewOn ==
  ASSUME TypeInv, [Next]_vars, NEW w \in Workers, NEW c \in Commissions, On(w, c)'
  PROVE  req'[w] = req[w] \/ OpenCommission(w, req'[w].kind, c)
<1>1. req'[w].kind \in OnCommission /\ req'[w].c = c
  BY DEF On
<1>2. req'[w].kind # "generate" /\ req'[w] # Idle /\ ~Writing(w)'
  BY <1>1 DEF OnCommission, Idle, Writing
<1>3. ASSUME NEW kind \in OnSalary, NEW s \in Staff, NEW m \in Months,
             req'[w] = [kind |-> kind, s |-> s, m |-> m]
      PROVE  FALSE
  <2>1. req'[w].kind = kind
    BY <1>3
  <2> QED
    BY <1>1, <2>1 DEF OnCommission, OnSalary
<1>4. ASSUME NEW kind \in OnCommission, NEW d \in Commissions, OpenCommission(w, kind, d),
             req'[w] = [kind |-> kind, c |-> d]
      PROVE  OpenCommission(w, req'[w].kind, c)
  <2>1. req'[w].kind = kind /\ req'[w].c = d
    BY <1>4
  <2> QED
    BY <1>1, <1>4, <2>1
<1>5. Moves(w)
  BY RequestMoves
<1>6. ~Reads(w) /\ ~Inserts(w)
  BY <1>2 DEF Reads, Inserts
<1> QED
  BY <1>2, <1>3, <1>4, <1>5, <1>6 DEF Moves

LEMMA NewOnRecord ==
  ASSUME TypeInv, [Next]_vars, NEW w \in Workers, NEW s \in Staff, NEW m \in Months,
         OnRecord(w, s, m)'
  PROVE  req'[w] = req[w] \/ OpenSalary(w, req'[w].kind, s, m)
<1>1. req'[w].kind \in OnSalary /\ req'[w].s = s /\ req'[w].m = m
  BY DEF OnRecord
<1>2. req'[w].kind # "generate" /\ req'[w] # Idle /\ ~Writing(w)'
  BY <1>1 DEF OnSalary, Idle, Writing
<1>3. ASSUME NEW kind \in OnCommission, NEW c \in Commissions, req'[w] = [kind |-> kind, c |-> c]
      PROVE  FALSE
  <2>1. req'[w].kind = kind
    BY <1>3
  <2> QED
    BY <1>1, <2>1 DEF OnCommission, OnSalary
<1>4. ASSUME NEW kind \in OnSalary, NEW t \in Staff, NEW n \in Months, OpenSalary(w, kind, t, n),
             req'[w] = [kind |-> kind, s |-> t, m |-> n]
      PROVE  OpenSalary(w, req'[w].kind, s, m)
  <2>1. req'[w].kind = kind /\ req'[w].s = t /\ req'[w].m = n
    BY <1>4
  <2> QED
    BY <1>1, <1>4, <2>1
<1> QED
  BY <1>2, <1>3, <1>4, RequestMoves DEF Moves, Reads, Inserts

\* A generation past the reading of the staff has just read it, has inserted a record, or
\* stands where it stood.
LEMMA NewWriting ==
  ASSUME TypeInv, [Next]_vars, NEW w \in Workers, req'[w].kind = "generate"
  PROVE  \/ req'[w] = req[w]
         \/ req'[w].pc = "open" /\ req'[w].rows = {}
         \/ Reads(w)
         \/ Inserts(w)
<1>1. req'[w] # Idle
  BY DEF Idle
<1>2. ASSUME NEW kind \in OnCommission, NEW c \in Commissions, req'[w] = [kind |-> kind, c |-> c]
      PROVE  FALSE
  <2>1. req'[w].kind = kind
    BY <1>2
  <2> QED
    BY <2>1 DEF OnCommission
<1>3. ASSUME NEW kind \in OnSalary, NEW s \in Staff, NEW m \in Months,
             req'[w] = [kind |-> kind, s |-> s, m |-> m]
      PROVE  FALSE
  <2>1. req'[w].kind = kind
    BY <1>3
  <2> QED
    BY <2>1 DEF OnSalary
<1> QED
  BY <1>1, <1>2, <1>3, RequestMoves DEF Moves

LEMMA LinkedStep == TypeInv /\ [Next]_vars => RequestsLinked'
<1> SUFFICES ASSUME TypeInv, [Next]_vars PROVE RequestsLinked'
  OBVIOUS
<1>1. ASSUME NEW w \in Workers, NEW c \in Commissions, On(w, c)' PROVE commission'[c] # None
  <2>1. CASE req'[w] = req[w]
    BY <1>1, <2>1, RowsStay DEF On, TypeInv, RequestsLinked
  <2>2. CASE OpenCommission(w, req'[w].kind, c)
    <3>1. commission[c].status # "none"
      BY <1>1, <2>2, RequiresOpen DEF On, OpenCommission
    <3> QED
      BY <3>1, RowsStay DEF None
  <2> QED
    BY <1>1, <2>1, <2>2, NewOn
<1>2. ASSUME NEW w \in Workers, NEW s \in Staff, NEW m \in Months, OnRecord(w, s, m)'
      PROVE  salary'[s][m] # None
  <2>1. CASE req'[w] = req[w]
    BY <1>2, <2>1, RowsStay DEF OnRecord, TypeInv, RequestsLinked
  <2>2. CASE OpenSalary(w, req'[w].kind, s, m)
    <3>1. salary[s][m].status # "none"
      BY <1>2, <2>2, RequiresOpen DEF OnRecord, OpenSalary
    <3> QED
      BY <3>1, RowsStay DEF None
  <2> QED
    BY <1>2, <2>1, <2>2, NewOnRecord
<1>3. ASSUME NEW w \in Workers, req'[w].kind = "generate", req'[w].pc = "open"
      PROVE  req'[w].rows = {}
  BY <1>3, NewWriting DEF TypeInv, RequestsLinked, Reads, Inserts, Writing
<1> QED
  BY <1>1, <1>2, <1>3 DEF RequestsLinked, On, OnRecord

LEMMA TypeInvStep == TypeInv /\ [Next]_vars => TypeInv'
  BY TypeStep, LinkedStep DEF TypeInv

\* Every row and request keeps the type TypeOK gives it, and a request is always about a row
\* that exists.
THEOREM TypeCorrect == Spec => []TypeInv
<1> QED
  BY TypeInit, TypeInvStep, PTL DEF Spec

----------------------------------------------------------------------------
(* The invariants.                                                           *)

\* While no race is on record, an open commission is not paid, and one request has it.
OpenUnpaid ==
  \A c \in Commissions \ raced :
    /\ \A w \in Workers : On(w, c) => commission[c].status \in {"pending", "approved"}
    /\ \A v, w \in Workers : On(v, c) /\ On(w, c) => v = w

\* A request whose row is paid is among those that came late.
LateKnown ==
  /\ \A w \in Workers, c \in Commissions :
       On(w, c) /\ commission[c].status = "paid" => w \in late
  /\ \A w \in Workers, s \in Staff, m \in Months :
       OnRecord(w, s, m) /\ salary[s][m].status = "paid" => w \in late

\* A record in an open transaction keeps its key: nobody else has a record of it, committed
\* or not, and its own generation does not come to it again.
RowsReserved ==
  /\ \A w \in Workers, s \in Staff, m \in Months :
       Inserted(w, s, m) =>
         /\ salary[s][m] = None /\ s \notin req[w].todo
         /\ \A v \in Workers : Inserted(v, s, m) => v = w
  /\ \A w \in Workers : Writing(w) => \A q, r \in req[w].rows : q.s = r.s => q = r

CountedInMonth(c, s, m) ==
  \/ salary[s][m] # None /\ c \in salary[s][m].counted
  \/ \E w \in Workers :
       /\ Writing(w) /\ req[w].m = m
       /\ \E r \in req[w].rows : r.s = s /\ c \in r.counted

\* A commission that a salary counts, or will once its generation commits, is paid, in the
\* month of the salary.
CountedIsPaid ==
  \A c \in Commissions \ raced : \A s \in Staff, m \in Months :
    CountedInMonth(c, s, m) => commission[c].status = "paid" /\ commission[c].paidAt = PaidIn(m)

\* A generation works through some staff list: whoever is on it is to come, has a record
\* in the transaction, or has one already.
ListsCovered ==
  \A w \in Workers : Writing(w) =>
    \E L \in lists[req[w].m] : \A s \in L :
      s \in req[w].todo \/ Inserted(w, s, req[w].m) \/ salary[s][req[w].m] # None

EarningsInv ==
  /\ TypeInv /\ OpenUnpaid /\ LateKnown /\ RowsReserved
  /\ CountedIsPaid /\ ListsCovered /\ PayrollWhole

----------------------------------------------------------------------------
(* What only grows.                                                          *)

LEMMA HistoryGrows ==
  ASSUME TypeInv, [Next]_vars
  PROVE  /\ raced \subseteq raced'
         /\ \A m \in Months : lists[m] \subseteq lists'[m]
         /\ \A w \in Workers : w \in late /\ req'[w] = req[w] /\ req[w] # Idle => w \in late'
         /\ \A v, w \in Workers : v # w => req'[v] = req[v] \/ req'[w] = req[w]
<1>t. TypeOK
  BY DEF TypeInv
<1>1. raced \subseteq raced'
  <2>1. UNCHANGED raced \/ \E w \in Workers, kind \in OnCommission, c \in Commissions :
                             OpenCommission(w, kind, c)
    BY DEF Next, vars, Earn, SaveCommission, BulkApprove, OpenGenerate, OpenSalary,
       ReadStaff, InsertRecord, CommitRecords, SaveSalary, Crash, ChangeStaff, NextMonth
  <2> QED
    BY <2>1 DEF OpenCommission
<1>2. \A m \in Months : lists[m] \subseteq lists'[m]
  <2>1. UNCHANGED lists \/ \E w \in Workers : ReadStaff(w)
    BY DEF Next, vars, Earn, OpenCommission, SaveCommission, BulkApprove, OpenGenerate, OpenSalary,
       InsertRecord, CommitRecords, SaveSalary, Crash, ChangeStaff, NextMonth
  <2>2. CASE UNCHANGED lists
    BY <2>2
  <2>3. ASSUME NEW w \in Workers, ReadStaff(w)
        PROVE  \A m \in Months : lists[m] \subseteq lists'[m]
    <3>1. lists' = [lists EXCEPT ![req[w].m] = @ \cup {employed}]
      BY <2>3 DEF ReadStaff
    <3>2. lists \in [Months -> SUBSET SUBSET Staff]
      BY <1>t DEF TypeOK
    <3> QED
      BY <3>1, <3>2
  <2> QED
    BY <2>1, <2>2, <2>3
<1>3. \/ req' = req /\ late' = late
      \/ \E v \in Workers :
           /\ \E r : req' = [req EXCEPT ![v] = r]
           /\ late' = late \/ (req' = [req EXCEPT ![v] = Idle] /\ late \ {v} \subseteq late')
  <2>1. ASSUME NEW v \in Workers, ReadStaff(v)
        PROVE  \E r : req' = [req EXCEPT ![v] = r] /\ late' = late
    BY <2>1 DEF ReadStaff
  <2>2. ASSUME NEW v \in Workers, InsertRecord(v)
        PROVE  Done(v) \/ \E r : req' = [req EXCEPT ![v] = r] /\ late' = late
    BY <2>2 DEF InsertRecord
  <2>3. ASSUME NEW v \in Workers, SaveCommission(v) \/ CommitRecords(v) \/ SaveSalary(v) \/ Crash(v)
        PROVE  req' = [req EXCEPT ![v] = Idle] /\ late \ {v} \subseteq late'
    BY <2>3 DEF SaveCommission, CommitRecords, SaveSalary, Crash, Done
  <2>4. ASSUME NEW v \in Workers, NEW kind, NEW c, OpenCommission(v, kind, c)
        PROVE  \E r : req' = [req EXCEPT ![v] = r] /\ late' = late
    BY <2>4 DEF OpenCommission
  <2>5. ASSUME NEW v \in Workers, NEW kind, NEW s, NEW m, OpenSalary(v, kind, s, m)
        PROVE  \E r : req' = [req EXCEPT ![v] = r] /\ late' = late
    BY <2>5 DEF OpenSalary
  <2>6. ASSUME NEW v \in Workers, NEW m, OpenGenerate(v, m)
        PROVE  \E r : req' = [req EXCEPT ![v] = r] /\ late' = late
    BY <2>6 DEF OpenGenerate
  <2>7. CASE \/ \E c \in Commissions : Earn(c)
             \/ \E C \in SUBSET Commissions : BulkApprove(C)
             \/ \E s \in Staff : ChangeStaff(s)
             \/ NextMonth \/ UNCHANGED vars
    BY <2>7 DEF Earn, BulkApprove, ChangeStaff, NextMonth, vars
  <2> QED
    BY <2>1, <2>2, <2>3, <2>4, <2>5, <2>6, <2>7 DEF Next, Done
<1>4. \A w \in Workers : w \in late /\ req'[w] = req[w] /\ req[w] # Idle => w \in late'
  BY <1>3, <1>t DEF TypeOK
<1>5. \A v, w \in Workers : v # w => req'[v] = req[v] \/ req'[w] = req[w]
  BY <1>3, <1>t DEF TypeOK
<1> QED
  BY <1>1, <1>2, <1>4, <1>5

----------------------------------------------------------------------------
(* Each invariant is kept.                                                   *)

LEMMA OnIsBusy == \A w \in Workers :
  /\ \A c \in Commissions : On(w, c) => req[w] # Idle
  /\ \A s \in Staff, m \in Months : OnRecord(w, s, m) => req[w] # Idle
  BY DEF On, OnRecord, Idle, OnCommission, OnSalary

LEMMA OpenUnpaidStep == TypeInv /\ OpenUnpaid /\ [Next]_vars => OpenUnpaid'
<1> SUFFICES ASSUME TypeInv, OpenUnpaid, [Next]_vars, NEW c \in Commissions, c \notin raced'
             PROVE  /\ \A w \in Workers : On(w, c)' => commission'[c].status \in {"pending", "approved"}
                    /\ \A v, w \in Workers : On(v, c)' /\ On(w, c)' => v = w
  BY DEF OpenUnpaid, On
<1>1. c \notin raced
  BY HistoryGrows
<1>2. ASSUME NEW w \in Workers, On(w, c)'
      PROVE  commission'[c].status \in {"pending", "approved"}
  <2>1. CASE OpenCommission(w, req'[w].kind, c)
    BY <1>2, <2>1, RequiresOpen DEF OpenCommission, On
  <2>2. CASE req'[w] = req[w]
    <3>1. On(w, c) /\ commission[c].status \in {"pending", "approved"}
      BY <1>1, <1>2, <2>2 DEF On, OpenUnpaid
    <3>2. ASSUME NEW v \in Workers, On(v, c), req'[v] = Idle PROVE FALSE
      <4>1. v = w
        BY <1>1, <3>1, <3>2 DEF OpenUnpaid
      <4> QED
        BY <2>2, <3>1, <3>2, <4>1, OnIsBusy
    <3> QED
      BY <3>1, <3>2, CommissionSteps DEF CommissionMoves
  <2> QED
    BY <1>2, <2>1, <2>2, NewOn
<1>3. ASSUME NEW v \in Workers, NEW w \in Workers, On(v, c)', On(w, c)', v # w
      PROVE  FALSE
  <2>1. ASSUME NEW x \in Workers, NEW y \in Workers, x # y, On(y, c)', OpenCommission(x, req'[x].kind, c)
        PROVE  FALSE
    <3>1. req'[y] = req[y]
      BY <2>1 DEF OpenCommission, TypeInv, TypeOK
    <3>2. On(y, c)
      BY <2>1, <3>1 DEF On
    <3> QED
      BY <2>1, <3>2 DEF OpenCommission, On
  <2>2. CASE req'[v] = req[v] /\ req'[w] = req[w]
    BY <1>1, <1>3, <2>2 DEF OpenUnpaid, On
  <2> QED
    BY <1>3, <2>1, <2>2, NewOn
<1> QED
  BY <1>2, <1>3

LEMMA LateKnownStep == TypeInv /\ RowsReserved /\ LateKnown /\ [Next]_vars => LateKnown'
<1> SUFFICES ASSUME TypeInv, RowsReserved, LateKnown, [Next]_vars PROVE LateKnown'
  OBVIOUS
<1>1. ASSUME NEW w \in Workers, NEW c \in Commissions, On(w, c)', commission'[c].status = "paid"
      PROVE  w \in late'
  <2>1. CASE OpenCommission(w, req'[w].kind, c)
    BY <1>1, <2>1, RequiresOpen DEF OpenCommission, On
  <2>2. CASE req'[w] = req[w]
    <3>1. On(w, c) /\ req[w] # Idle
      BY <1>1, <2>2, OnIsBusy DEF On
    <3>2. CASE commission'[c] = commission[c]
      BY <1>1, <2>2, <3>1, <3>2, HistoryGrows DEF LateKnown
    <3>3. ASSUME NEW v \in Workers, On(v, c), req'[v] = Idle, commission'[c].status = Saves(req[v].kind),
                 \A u \in Workers : u # v /\ On(u, c) /\ req[v].kind = "pay" => u \in late'
          PROVE  w \in late'
      <4>1. req[v].kind = "pay"
        BY <1>1, <3>3, SavesType DEF On
      <4> QED
        BY <2>2, <3>1, <3>3, <4>1
    <3> QED
      BY <1>1, <3>2, <3>3, CommissionSteps DEF CommissionMoves
  <2> QED
    BY <1>1, <2>1, <2>2, NewOn
<1>2. ASSUME NEW w \in Workers, NEW s \in Staff, NEW m \in Months, OnRecord(w, s, m)',
             salary'[s][m].status = "paid"
      PROVE  w \in late'
  <2>1. CASE OpenSalary(w, req'[w].kind, s, m)
    BY <1>2, <2>1, RequiresOpen DEF OpenSalary, OnRecord
  <2>2. CASE req'[w] = req[w]
    <3>1. OnRecord(w, s, m) /\ req[w] # Idle
      BY <1>2, <2>2, OnIsBusy DEF OnRecord
    <3>2. CASE salary'[s][m] = salary[s][m]
      BY <1>2, <2>2, <3>1, <3>2, HistoryGrows DEF LateKnown
    <3>3. ASSUME NEW v \in Workers, OnRecord(v, s, m), req'[v] = Idle,
                 salary'[s][m].status = Saves(req[v].kind),
                 \A u \in Workers : u # v /\ OnRecord(u, s, m) /\ req[v].kind = "pay_salary" => u \in late'
          PROVE  w \in late'
      <4>1. req[v].kind = "pay_salary"
        BY <1>2, <3>3, SavesType DEF OnRecord
      <4> QED
        BY <2>2, <3>1, <3>3, <4>1
    <3> QED
      BY <1>2, <3>2, <3>3, SalarySteps DEF SalaryMoves
  <2> QED
    BY <1>2, <2>1, <2>2, NewOnRecord
<1> QED
  BY <1>1, <1>2 DEF LateKnown, On, OnRecord

\* A record in a transaction was there before, or has just been inserted.
LEMMA NewInserted ==
  ASSUME TypeInv, [Next]_vars, NEW w \in Workers, NEW s \in Staff, NEW m \in Months,
         Inserted(w, s, m)'
  PROVE  \/ req'[w] = req[w] /\ Inserted(w, s, m)
         \/ Inserts(w) /\ req[w].m = m /\ (Inserted(w, s, m) \/ s = NextStaff(w))
<1>1. req'[w].kind = "generate" /\ req'[w].pc = "rows" /\ req'[w].m = m /\ \E r \in req'[w].rows : r.s = s
  BY DEF Inserted, Writing
<1>2. CASE req'[w] = req[w]
  BY <1>1, <1>2 DEF Inserted, Writing
<1>3. CASE Inserts(w)
  <2>1. PICK r \in req'[w].rows : r.s = s
    BY <1>1
  <2>2. r \in req[w].rows \/ r = NextRecord(w)
    BY <1>3, <2>1 DEF Inserts
  <2>3. NextRecord(w).s = NextStaff(w)
    BY DEF NextRecord
  <2>4. Writing(w) /\ req[w].m = m
    BY <1>1, <1>3 DEF Inserts
  <2> QED
    BY <1>3, <2>1, <2>2, <2>3, <2>4 DEF Inserted
<1>4. CASE req'[w].rows = {}
  BY <1>1, <1>4
<1> QED
  BY <1>1, <1>2, <1>3, <1>4, NewWriting DEF Reads

LEMMA InsertsMoves ==
  ASSUME TypeInv, NEW w \in Workers, Inserts(w)
  PROVE  req'[w] # req[w] /\ NextStaff(w) \in req[w].todo /\ NextStaff(w) \in Staff /\ req[w].m \in Months
<1>1. NextStaff(w) \in req[w].todo /\ NextStaff(w) \in Staff
  BY NextStaffIs DEF Inserts, TypeInv
<1>2. req'[w] # req[w]
  BY <1>1 DEF Inserts
<1>3. req[w].m \in Months
  BY RequestIs DEF TypeInv, Inserts, Writing, GenerateRequest
<1> QED
  BY <1>1, <1>2, <1>3

LEMMA ReservedStep == TypeInv /\ RowsReserved /\ [Next]_vars => RowsReserved'
<1> SUFFICES ASSUME TypeInv, RowsReserved, [Next]_vars PROVE RowsReserved'
  OBVIOUS
<1>1. ASSUME NEW w \in Workers, NEW s \in Staff, NEW m \in Months, Inserted(w, s, m)'
      PROVE  salary'[s][m] = None /\ s \notin req'[w].todo
  <2>0. req'[w] # Idle
    BY <1>1 DEF Inserted, Writing, Idle
  <2>1. salary[s][m] = None /\ \A v \in Workers : Inserted(v, s, m) => v = w
    <3>1. CASE Inserted(w, s, m)
      BY <3>1 DEF RowsReserved
    <3>2. CASE Inserts(w) /\ req[w].m = m /\ s = NextStaff(w)
      BY <3>2 DEF Inserts, Held, Inserted
    <3> QED
      BY <1>1, <3>1, <3>2, NewInserted
  <2>2. salary'[s][m] = None
    BY <2>0, <2>1, SalarySteps DEF SalaryMoves
  <2>3. s \notin req'[w].todo
    <3>1. CASE Inserted(w, s, m)
      BY <1>1, <3>1, NewInserted DEF RowsReserved, Inserts
    <3>2. CASE Inserts(w) /\ s = NextStaff(w)
      BY <3>2 DEF Inserts
    <3> QED
      BY <1>1, <3>1, <3>2, NewInserted
  <2> QED
    BY <2>2, <2>3
<1>2. ASSUME NEW v \in Workers, NEW w \in Workers, NEW s \in Staff, NEW m \in Months,
             Inserted(v, s, m)', Inserted(w, s, m)', v # w
      PROVE  FALSE
  <2>1. ASSUME NEW x \in Workers, NEW y \in Workers, x # y, Inserted(y, s, m), ~Inserted(x, s, m),
               Inserts(x), req[x].m = m, s = NextStaff(x)
        PROVE  FALSE
    BY <2>1 DEF Inserts, Held, Inserted
  <2>2. ASSUME NEW x \in Workers, Inserted(x, s, m)', ~Inserted(x, s, m)
        PROVE  Inserts(x) /\ req[x].m = m /\ s = NextStaff(x) /\ req'[x] # req[x]
    BY <2>2, NewInserted, InsertsMoves
  <2>3. ~(Inserted(v, s, m) /\ Inserted(w, s, m))
    BY <1>2 DEF RowsReserved
  <2>4. ~(~Inserted(v, s, m) /\ ~Inserted(w, s, m))
    BY <1>2, <2>2, HistoryGrows
  <2> QED
    BY <1>2, <2>1, <2>2, <2>3, <2>4
<1>3. ASSUME NEW w \in Workers, Writing(w)', NEW q \in req'[w].rows, NEW r \in req'[w].rows, q.s = r.s
      PROVE  q = r
  <2>1. req'[w].kind = "generate" /\ req'[w].pc = "rows"
    BY <1>3 DEF Writing
  <2>2. CASE req'[w] = req[w]
    BY <1>3, <2>1, <2>2 DEF RowsReserved, Writing
  <2>3. CASE Inserts(w)
    <3>1. Writing(w) /\ req'[w].rows = req[w].rows \cup {NextRecord(w)} /\ NextRecord(w).s = NextStaff(w)
      BY <2>3 DEF Inserts, NextRecord
    <3>2. ASSUME NEW p \in req[w].rows PROVE p.s # NextStaff(w)
      <4>1. p.s = NextStaff(w) => Inserted(w, NextStaff(w), req[w].m)
        BY <3>1, <3>2 DEF Inserted
      <4> QED
        BY <2>3, <4>1, InsertsMoves DEF RowsReserved
    <3> QED
      BY <1>3, <3>1, <3>2 DEF RowsReserved
  <2> QED
    BY <1>3, <2>1, <2>2, <2>3, NewWriting DEF Reads
<1> QED
  BY <1>1, <1>2, <1>3 DEF RowsReserved, Inserted, Writing

LEMMA CountedStep ==
  TypeInv /\ OpenUnpaid /\ CountedIsPaid /\ [Next]_vars => CountedIsPaid'
<1> SUFFICES ASSUME TypeInv, OpenUnpaid, CountedIsPaid, [Next]_vars,
                    NEW c \in Commissions, c \notin raced',
                    NEW s \in Staff, NEW m \in Months, CountedInMonth(c, s, m)'
             PROVE  commission'[c].status = "paid" /\ commission'[c].paidAt = PaidIn(m)
  BY DEF CountedIsPaid
<1>1. c \notin raced
  BY HistoryGrows
<1>2. commission[c].status = "paid" => commission'[c] = commission[c]
  BY <1>1, CommissionSteps DEF CommissionMoves, OpenUnpaid, None
<1>3. ASSUME CountedInMonth(c, s, m) PROVE commission[c].status = "paid" /\ commission[c].paidAt = PaidIn(m)
  BY <1>1, <1>3 DEF CountedIsPaid
<1>4. CASE salary'[s][m] # None /\ c \in salary'[s][m].counted
  <2>1. CountedInMonth(c, s, m)
    <3>1. CASE salary'[s][m] = salary[s][m]
      BY <1>4, <3>1 DEF CountedInMonth
    <3>2. ASSUME NEW w \in Workers, Inserted(w, s, m), NEW r \in req[w].rows, r.s = s,
                 salary'[s][m].counted = r.counted
          PROVE  CountedInMonth(c, s, m)
      BY <1>4, <3>2 DEF CountedInMonth, Inserted
    <3>3. CASE salary[s][m] # None /\ salary'[s][m].counted = salary[s][m].counted
      BY <1>4, <3>3 DEF CountedInMonth
    <3> QED
      BY <3>1, <3>2, <3>3, SalarySteps DEF SalaryMoves
  <2> QED
    BY <1>2, <1>3, <2>1
<1>5. ASSUME NEW w \in Workers, Writing(w)', req'[w].m = m, NEW r \in req'[w].rows, r.s = s, c \in r.counted
      PROVE  commission'[c].status = "paid" /\ commission'[c].paidAt = PaidIn(m)
  <2>1. req'[w].kind = "generate" /\ req'[w].pc = "rows"
    BY <1>5 DEF Writing
  <2>2. CASE req'[w] = req[w]
    <3>1. CountedInMonth(c, s, m)
      BY <1>5, <2>1, <2>2 DEF CountedInMonth, Writing
    <3> QED
      BY <1>2, <1>3, <3>1
  <2>3. CASE Inserts(w) /\ r \in req[w].rows
    <3>1. CountedInMonth(c, s, m)
      BY <1>5, <2>3 DEF CountedInMonth, Inserts
    <3> QED
      BY <1>2, <1>3, <3>1
  <2>4. CASE Inserts(w) /\ r = NextRecord(w)
    <3>1. req[w].m = m
      BY <1>5, <2>4 DEF Inserts
    <3>2. c \in SumPaidInMonth(NextStaff(w), m)
      BY <1>5, <2>4, <3>1 DEF NextRecord
    <3> QED
      BY <1>2, <3>2 DEF SumPaidInMonth
  <2> QED
    BY <1>5, <2>1, <2>2, <2>3, <2>4, NewWriting DEF Reads, Inserts
<1> QED
  BY <1>4, <1>5 DEF CountedInMonth

LEMMA ListsStep == TypeInv /\ ListsCovered /\ [Next]_vars => ListsCovered'
<1> SUFFICES ASSUME TypeInv, ListsCovered, [Next]_vars PROVE ListsCovered'
  OBVIOUS
<1> SUFFICES ASSUME NEW w \in Workers, Writing(w)', NEW m \in Months, req[w].m = m, req'[w].m = m
             PROVE  \E L \in lists'[m] : \A s \in L :
                      s \in req'[w].todo \/ Inserted(w, s, m)' \/ salary'[s][m] # None
  <2>1. ASSUME NEW w \in Workers, Writing(w)' PROVE req'[w].m = req[w].m /\ req[w].m \in Months
    <3>1. req'[w].kind = "generate" /\ req'[w].pc = "rows"
      BY <2>1 DEF Writing
    <3>2. req[w].kind = "generate" /\ req'[w].m = req[w].m
      BY <3>1, NewWriting DEF Reads, Inserts, Writing, TypeInv, RequestsLinked
    <3> QED
      BY <3>2, RequestIs DEF TypeInv, GenerateRequest
  <2> QED
    BY <2>1 DEF ListsCovered, Inserted, Writing
<1>1. req'[w].kind = "generate" /\ req'[w].pc = "rows"
  BY DEF Writing
<1>2. ASSUME Writing(w), \A s \in Staff : s \in req[w].todo => s \in req'[w].todo \/ Inserted(w, s, m)',
             req[w].rows \subseteq req'[w].rows
      PROVE  \E L \in lists'[m] : \A s \in L :
               s \in req'[w].todo \/ Inserted(w, s, m)' \/ salary'[s][m] # None
  <2>1. PICK L \in lists[m] : \A s \in L : s \in req[w].todo \/ Inserted(w, s, m) \/ salary[s][m] # None
    BY <1>2 DEF ListsCovered
  <2>2. L \in lists'[m] /\ L \subseteq Staff
    BY <2>1, HistoryGrows DEF TypeInv, TypeOK
  <2>3. \A s \in L : Inserted(w, s, m) => Inserted(w, s, m)'
    BY <1>1, <1>2 DEF Inserted, Writing
  <2> QED
    BY <1>2, <2>1, <2>2, <2>3, RowsStay
<1>3. CASE req'[w] = req[w]
  BY <1>1, <1>2, <1>3 DEF Writing
<1>4. CASE Inserts(w)
  <2>1. PICK t \in Staff : t = NextStaff(w)
    BY <1>4, InsertsMoves
  <2>2. NextRecord(w).s = t /\ NextRecord(w) \in req'[w].rows
    BY <1>4, <2>1 DEF Inserts, NextRecord
  <2>3. Inserted(w, t, m)'
    BY <1>1, <2>2 DEF Inserted, Writing
  <2>4. \A s \in Staff : s \in req[w].todo => s \in req'[w].todo \/ s = t
    BY <1>4, <2>1 DEF Inserts
  <2> QED
    BY <1>2, <1>4, <2>3, <2>4 DEF Inserts
<1>5. CASE Reads(w)
  BY <1>5, RowsStay DEF TypeInv, TypeOK, Reads
<1> QED
  BY <1>1, <1>3, <1>4, <1>5, NewWriting

LEMMA WholeStep == TypeInv /\ ListsCovered /\ PayrollWhole /\ [Next]_vars => PayrollWhole'
<1> SUFFICES ASSUME TypeInv, ListsCovered, PayrollWhole, [Next]_vars, NEW m \in Months,
                    NEW s \in Staff, salary'[s][m] # None
             PROVE  \E L \in lists'[m] : \A t \in L : salary'[t][m] # None
  BY DEF PayrollWhole, HasRecords
<1>1. CASE salary[s][m] # None
  <2>1. PICK L \in lists[m] : \A t \in L : salary[t][m] # None
    BY <1>1 DEF PayrollWhole, HasRecords
  <2> QED
    BY <2>1, HistoryGrows, RowsStay DEF TypeInv, TypeOK
<1>2. CASE salary[s][m] = None
  <2>1. PICK w \in Workers : CommitRecords(w) /\ Inserted(w, s, m)
    BY <1>2, SalarySteps DEF SalaryMoves
  <2>2. Writing(w) /\ req[w].m = m /\ req[w].todo = {}
    BY <2>1 DEF CommitRecords, Inserted
  <2>3. PICK L \in lists[m] : \A t \in L : Inserted(w, t, m) \/ salary[t][m] # None
    BY <2>2 DEF ListsCovered
  <2>4. L \in lists'[m] /\ L \subseteq Staff
    BY <2>3, HistoryGrows DEF TypeInv, TypeOK
  <2>5. ASSUME NEW t \in L, Inserted(w, t, m) PROVE salary'[t][m] # None
    <3>1. salary'[t][m] =
            [status |-> "draft", counted |-> (CHOOSE r \in req[w].rows : r.s = t).counted]
      BY <2>1, <2>4, <2>5 DEF CommitRecords, Inserted
    <3>2. salary'[t][m].status = "draft"
      BY <3>1
    <3> QED
      BY <3>2 DEF None
  <2> QED
    BY <2>3, <2>4, <2>5, RowsStay
<1> QED
  BY <1>1, <1>2

LEMMA EarningsInit == Init => EarningsInv
<1> SUFFICES ASSUME Init PROVE EarningsInv
  OBVIOUS
<1>1. \A w \in Workers : req[w].kind = "idle"
  BY DEF Init, Idle
<1>2. \A s \in Staff, m \in Months : salary[s][m] = None
  BY DEF Init
<1>3. \A w \in Workers : /\ ~Writing(w)
                         /\ \A c : ~On(w, c)
                         /\ \A s, m : ~OnRecord(w, s, m) /\ ~Inserted(w, s, m)
  BY <1>1 DEF Writing, On, OnRecord, Inserted, OnCommission, OnSalary
<1>4. OpenUnpaid /\ LateKnown /\ RowsReserved
  BY <1>3 DEF OpenUnpaid, LateKnown, RowsReserved
<1>5. CountedIsPaid /\ ListsCovered /\ PayrollWhole
  BY <1>2, <1>3 DEF CountedIsPaid, CountedInMonth, ListsCovered, PayrollWhole, HasRecords
<1> QED
  BY <1>4, <1>5, TypeInit DEF EarningsInv

LEMMA EarningsStep == EarningsInv /\ [Next]_vars => EarningsInv'
  BY TypeInvStep, OpenUnpaidStep, LateKnownStep, ReservedStep, CountedStep, ListsStep, WholeStep
     DEF EarningsInv

LEMMA EarningsHold == Spec => []EarningsInv
  BY EarningsInit, EarningsStep, PTL DEF Spec

----------------------------------------------------------------------------
(* What the staff are promised.                                              *)

\* A commission is part of at most one salary, unless two requests had it open at once
\* (commission_sum_paid_in_month counts by the month of the payment).
THEOREM CommissionCountedOnce == Spec => []CountedOnce
<1>1. EarningsInv => CountedOnce
  <2> SUFFICES ASSUME EarningsInv, NEW c \in Commissions, c \notin raced,
                      NEW m \in Months, NEW n \in Months,
                      salary[Earner[c]][m] # None, salary[Earner[c]][n] # None,
                      c \in salary[Earner[c]][m].counted, c \in salary[Earner[c]][n].counted
               PROVE  m = n
    BY DEF CountedOnce
  <2>1. Earner[c] \in Staff
    BY EarningsAssumption
  <2>2. CountedInMonth(c, Earner[c], m) /\ CountedInMonth(c, Earner[c], n)
    BY DEF CountedInMonth
  <2>3. PaidIn(m) = PaidIn(n)
    BY <2>1, <2>2 DEF EarningsInv, CountedIsPaid
  <2> QED
    BY <2>3 DEF PaidIn
<1> QED
  BY <1>1, EarningsHold, PTL

\* A month's payroll is whole or not there, whichever generations of it ran at the same time,
\* lost the unique constraint or died (GeneratePayrollAPIView).
THEOREM PayrollIsWhole == Spec => []PayrollWhole
<1>1. EarningsInv => PayrollWhole
  BY DEF EarningsInv
<1> QED
  BY <1>1, EarningsHold, PTL

\* A paid commission and a paid salary stay as they are, but for a request that had read
\* the row before it was paid (approve, pay and cancel save what they tested earlier).
THEOREM WhatIsPaidStaysPaid == Spec => PaidStays
<1>1. EarningsInv /\ [Next]_vars =>
        [/\ \A c \in Commissions :
              commission[c].status = "paid" /\ commission'[c] # commission[c] =>
                \E w \in late : req[w].kind \in OnCommission /\ req[w].c = c /\ req'[w] = Idle
         /\ \A s \in Staff, m \in Months :
              salary[s][m].status = "paid" /\ salary'[s][m] # salary[s][m] =>
                \E w \in late : req[w].kind \in OnSalary /\ req[w].s = s /\ req[w].m = m
                                  /\ req'[w] = Idle]_vars
  <2> SUFFICES ASSUME EarningsInv, [Next]_vars
               PROVE  /\ \A c \in Commissions :
                           commission[c].status = "paid" /\ commission'[c] # commission[c] =>
                             \E w \in late : On(w, c) /\ req'[w] = Idle
                      /\ \A s \in Staff, m \in Months :
                           salary[s][m].status = "paid" /\ salary'[s][m] # salary[s][m] =>
                             \E w \in late : OnRecord(w, s, m) /\ req'[w] = Idle
    BY DEF On, OnRecord
  <2>1. ASSUME NEW c \in Commissions, commission[c].status = "paid", commission'[c] # commission[c]
        PROVE  \E w \in late : On(w, c) /\ req'[w] = Idle
    <3>1. PICK w \in Workers : On(w, c) /\ req'[w] = Idle
      BY <2>1, CommissionSteps DEF CommissionMoves, None, EarningsInv
    <3> QED
      BY <2>1, <3>1 DEF EarningsInv, LateKnown
  <2>2. ASSUME NEW s \in Staff, NEW m \in Months, salary[s][m].status = "paid",
               salary'[s][m] # salary[s][m]
        PROVE  \E w \in late : OnRecord(w, s, m) /\ req'[w] = Idle
    <3>1. PICK w \in Workers : OnRecord(w, s, m) /\ req'[w] = Idle
      <4>1. ASSUME NEW v \in Workers, Inserted(v, s, m) PROVE FALSE
        BY <2>2, <4>1 DEF EarningsInv, RowsReserved, None
      <4> QED
        BY <2>2, <4>1, SalarySteps DEF SalaryMoves, EarningsInv
    <3> QED
      BY <2>2, <3>1 DEF EarningsInv, LateKnown
  <2> QED
    BY <2>1, <2>2
<1> QED
  BY <1>1, EarningsHold, PTL DEF Spec, PaidStays
=============================================================================
