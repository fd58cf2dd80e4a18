----------------------------- MODULE DeskProofs -----------------------------
(***************************************************************************)
(* Proofs about Desk, for every number of staff, of requests at once, of   *)
(* sales and codes, and every mix of requests.                             *)
(***************************************************************************)
EXTENDS Desk, FiniteSetTheorems, TLAPS

Txn == [amount : Amounts, cash : BOOLEAN, staff : Staff \cup {None}, sold : BOOLEAN,
        status : {"pending", "success", "failed", "gone"}]

----------------------------------------------------------------------------
(* The invariant of the types.                                               *)

RowsInv ==
  /\ txn \in [Sales -> Txn \cup {NoTxn}]
  /\ Used = 1..Cardinality(Used)
  /\ entries \subseteq Entry
  /\ \A e \in entries : e.txn \in Used \cup {0} /\ e.booked <= Cardinality(Used)
  /\ review \in [Sales -> {None, "verified", "rejected"}]
  /\ commission \in [Sales -> {None, "pending", "paid"}]
  /\ plan \subseteq Used
  /\ \A t \in Sales : review[t] # None \/ commission[t] # None => t \in Used

DeskInv ==
  /\ sent \in 0..MaxCodes /\ code \subseteq Staff /\ login \in BOOLEAN /\ confirmed \subseteq Staff
  /\ receipts \in Nat /\ holder \in Workers \cup {None}
  /\ mix \in Mixes
  /\ given \in [Staff -> Nat] /\ shared \subseteq Staff
  /\ contested \subseteq Sales /\ rebooked \subseteq Nat /\ squeezed \subseteq Sales

\* The steps of a request of each kind.
Stage(kind) ==
  CASE kind = "pay" -> {"key", "drop", "code", "login", "receipt", "lock", "sale"}
    [] kind = "confirm" -> {"setkey"}
    [] kind \in {"verify", "reject"} -> {"status", "review"}
    [] kind = "void" -> {"remaining", "check", "erase"}
    [] kind = "branch_verify" -> {"book"}
    [] kind = "complete" -> {"finish"}
    [] OTHER -> {}

\* What a request is about.
Shape(w) ==
  Busy(w) =>
    /\ req[w].pc \in Stage(req[w].kind)
    /\ req[w].kind \in {"pay", "confirm"} => req[w].staff \in Staff
    /\ req[w].kind \in {"pay", "void", "branch_verify"} => req[w].amount \in Amounts
    /\ req[w].kind \in {"verify", "reject", "void"} => req[w].subject \in Used

ReqInv ==
  /\ req \in [Workers -> Request \cup {Idle}]
  /\ \A w \in Workers : Shape(w)

TypeInv == RowsInv /\ DeskInv /\ ReqInv

LEMMA TypeInvIs == TypeInv => TypeOK
<1> SUFFICES ASSUME TypeInv PROVE TypeOK
  OBVIOUS
<1>1. \A t \in Sales : txn[t] = NoTxn \/ txn[t] \in Txn
  BY DEF TypeInv, RowsInv
<1>2. Used \subseteq Sales
  BY DEF Used
<1> QED
  BY <1>1, <1>2 DEF TypeInv, RowsInv, DeskInv, ReqInv, TypeOK, Txn

----------------------------------------------------------------------------
(* Requests.                                                                 *)

LEMMA Distinct ==
  /\ \A r \in Request : r # Idle
  /\ \A r \in Txn : r # NoTxn
<1>1. "idle" \notin Pcs
  BY DEF Pcs
<1>2. None \notin {"pending", "success", "failed", "gone"}
  BY DEF None
<1> QED
  BY <1>1, <1>2 DEF Request, Idle, Txn, NoTxn

LEMMA RequestIs ==
  ASSUME ReqInv, NEW w \in Workers, Busy(w)
  PROVE  /\ req[w] \in Request /\ req[w].pc \in Pcs /\ req[w].kind \in Kinds
         /\ req[w].staff \in Staff \cup {None} /\ req[w].amount \in Amounts \cup {0}
         /\ req[w].subject \in Nat /\ req[w].last \in BOOLEAN /\ req[w].paid \subseteq Sales
         /\ req[w].pc \in Stage(req[w].kind)
<1>1. req[w] \in Request
  BY DEF ReqInv, Busy
<1>2. Sales \cup {0} \cup Nat = Nat
  BY DEF Sales
<1> QED
  BY <1>1, <1>2 DEF Request, ReqInv, Shape

\* Which kind of request is at a step.
LEMMA StageIs ==
  ASSUME ReqInv, NEW w \in Workers, Busy(w)
  PROVE  /\ req[w].pc \in {"key", "drop", "code", "login", "receipt", "lock", "sale"} <=> req[w].kind = "pay"
         /\ req[w].pc = "setkey" <=> req[w].kind = "confirm"
         /\ req[w].pc \in {"status", "review"} <=> req[w].kind \in {"verify", "reject"}
         /\ req[w].pc \in {"remaining", "check", "erase"} <=> req[w].kind = "void"
         /\ req[w].pc = "book" <=> req[w].kind = "branch_verify"
         /\ req[w].pc = "finish" <=> req[w].kind = "complete"
<1>1. req[w].pc \in Stage(req[w].kind) /\ req[w].kind \in Kinds
  BY RequestIs
<1> DEFINE k == req[w].kind
<1> HIDE DEF k
<1>2. CASE k = "pay"
  BY <1>1, <1>2 DEF Stage, k
<1>3. CASE k = "confirm"
  BY <1>1, <1>3 DEF Stage, k
<1>4. CASE k \in {"verify", "reject"}
  BY <1>1, <1>4 DEF Stage, k
<1>5. CASE k = "void"
  BY <1>1, <1>5 DEF Stage, k
<1>6. CASE k = "branch_verify"
  BY <1>1, <1>6 DEF Stage, k
<1>7. CASE k = "complete"
  BY <1>1, <1>7 DEF Stage, k
<1>8. ASSUME k \notin {"pay", "confirm", "verify", "reject", "void", "branch_verify", "complete"}
      PROVE FALSE
  BY <1>1, <1>8 DEF Stage, k
<1> QED
  BY <1>2, <1>3, <1>4, <1>5, <1>6, <1>7, <1>8

Others(w) == \A v \in Workers \ {w} : req'[v] = req[v]

\* Request w goes on to the step pc, as the same request.
Goes(w, pc) ==
  /\ Others(w) /\ req'[w] \in Request /\ req'[w].pc = pc /\ req'[w].kind = req[w].kind
  /\ req'[w].staff = req[w].staff /\ req'[w].amount = req[w].amount
Same(w) ==
  req'[w].subject = req[w].subject /\ req'[w].last = req[w].last /\ req'[w].paid = req[w].paid
Ends(w) == Others(w) /\ req'[w] = Idle
Starts(w, kind, pc, s, a, subject) ==
  /\ Others(w) /\ ~Busy(w) /\ req'[w] \in Request /\ req'[w].pc = pc /\ req'[w].kind = kind
  /\ req'[w].staff = s /\ req'[w].amount = a /\ req'[w].subject = subject
  /\ req'[w].last = FALSE /\ req'[w].paid = {}
Typed == req' \in [Workers -> Request \cup {Idle}]

LEMMA TurnIs ==
  ASSUME ReqInv, NEW w \in Workers, NEW r \in Request \cup {Idle}, req' = [req EXCEPT ![w] = r]
  PROVE  Others(w) /\ req'[w] = r /\ Typed
BY DEF ReqInv, Others, Typed

LEMMA GoGoes ==
  ASSUME ReqInv, NEW w \in Workers, Busy(w), NEW pc \in Pcs, Go(w, pc)
  PROVE  Goes(w, pc) /\ Same(w) /\ Typed
<1> DEFINE r == [req[w] EXCEPT !.pc = pc]
<1>1. /\ r \in Request /\ r.pc = pc /\ r.kind = req[w].kind /\ r.staff = req[w].staff
      /\ r.amount = req[w].amount /\ r.subject = req[w].subject /\ r.last = req[w].last
      /\ r.paid = req[w].paid
  BY RequestIs DEF Request
<1>2. req' = [req EXCEPT ![w] = r]
  BY DEF Go
<1> HIDE DEF r
<1> QED
  BY <1>1, <1>2, TurnIs DEF Goes, Same

LEMMA DoneEnds ==
  ASSUME ReqInv, NEW w \in Workers, Done(w)
  PROVE  Ends(w) /\ Typed
BY TurnIs DEF Done, Ends

LEMMA StartStarts ==
  ASSUME ReqInv, NEW w \in Workers, NEW kind \in Kinds, NEW pc \in Pcs, NEW s \in Staff \cup {None},
         NEW a \in Amounts \cup {0}, NEW subject \in Nat, Start(w, New(kind, pc, s, a, subject))
  PROVE  Starts(w, kind, pc, s, a, subject) /\ Typed
<1> DEFINE r == New(kind, pc, s, a, subject)
<1>1. /\ r \in Request /\ r.pc = pc /\ r.kind = kind /\ r.staff = s /\ r.amount = a
      /\ r.subject = subject /\ r.last = FALSE /\ r.paid = {}
  BY DEF New, Request
<1>2. req' = [req EXCEPT ![w] = r] /\ ~Busy(w)
  BY DEF Start
<1> HIDE DEF r
<1> QED
  BY <1>1, <1>2, TurnIs DEF Starts

\* A request that goes on as it is keeps what it is about, and so does one that ends.
LEMMA GoKeepsReq ==
  ASSUME ReqInv, NEW w \in Workers, Busy(w), Used \subseteq Used', Typed,
         NEW pc \in Stage(req[w].kind), Goes(w, pc),
         req[w].kind \in {"verify", "reject", "void"} => req'[w].subject = req[w].subject
  PROVE  ReqInv'
<1>1. ASSUME NEW v \in Workers PROVE Shape(v)'
  <2>1. CASE v = w
    BY <2>1 DEF Goes, ReqInv, Shape, Busy
  <2>2. CASE v # w
    BY <2>2 DEF Goes, Others, ReqInv, Shape, Busy
  <2> QED
    BY <2>1, <2>2
<1> QED
  BY <1>1 DEF ReqInv, Typed

LEMMA EndKeepsReq ==
  ASSUME ReqInv, NEW w \in Workers, Used \subseteq Used', Typed, Ends(w)
  PROVE  ReqInv'
BY DEF Ends, Others, ReqInv, Shape, Busy, Typed

LEMMA StartKeepsReq ==
  ASSUME ReqInv, NEW w \in Workers, Used \subseteq Used', Typed,
         NEW kind, NEW pc \in Stage(kind), NEW s, NEW a, NEW subject,
         Starts(w, kind, pc, s, a, subject),
         kind \in {"pay", "confirm"} => s \in Staff,
         kind \in {"pay", "void", "branch_verify"} => a \in Amounts,
         kind \in {"verify", "reject", "void"} => subject \in Used
  PROVE  ReqInv'
<1>1. ASSUME NEW v \in Workers PROVE Shape(v)'
  <2>1. CASE v = w
    BY <2>1 DEF Starts, Shape
  <2>2. CASE v # w
    BY <2>2 DEF Starts, Others, ReqInv, Shape, Busy
  <2> QED
    BY <2>1, <2>2
<1> QED
  BY <1>1 DEF ReqInv, Typed

----------------------------------------------------------------------------
(* Transactions and entries.                                                 *)

LEMMA UsedIs ==
  ASSUME RowsInv
  PROVE  /\ Used \subseteq Sales /\ IsFiniteSet(Used) /\ Cardinality(Used) \in 0..MaxSales
         /\ Sales \subseteq Nat /\ 0 \notin Sales /\ IsFiniteSet(Sales)
         /\ \A t \in Used : txn[t] \in Txn /\ txn[t] # NoTxn
         /\ \A t \in Sales \ Used : txn[t] = NoTxn
<1>1. Used \subseteq Sales
  BY DEF Used
<1>2. IsFiniteSet(Sales) /\ Cardinality(Sales) = MaxSales
  BY DeskAssumption, FS_Interval DEF Sales
<1>3. IsFiniteSet(Used) /\ Cardinality(Used) <= MaxSales /\ Cardinality(Used) \in Nat
  BY <1>1, <1>2, FS_Subset, FS_CardinalityType
<1>4. Cardinality(Used) \in 0..MaxSales
  BY <1>3, DeskAssumption
<1> QED
  BY <1>1, <1>2, <1>3, <1>4 DEF Used, Sales, RowsInv

\* A row is written for the first sale there is none for.
LEMMA NewRow ==
  ASSUME RowsInv, NEW t \in Sales, Unused(t), NEW r \in Txn, txn' = [txn EXCEPT ![t] = r]
  PROVE  /\ t \notin Used /\ Used' = Used \cup {t} /\ Used' = 1..Cardinality(Used')
         /\ Cardinality(Used') = Cardinality(Used) + 1 /\ Cardinality(Used') \in 0..MaxSales
         /\ txn' \in [Sales -> Txn \cup {NoTxn}] /\ txn'[t] = r
         /\ \A u \in Sales \ {t} : txn'[u] = txn[u]
         /\ review[t] = None /\ commission[t] = None /\ t \notin plan
         /\ \A e \in entries : e.txn # t
<1>1. Cardinality(Used) \in Nat /\ t = Cardinality(Used) + 1 /\ Used = 1..Cardinality(Used)
  BY UsedIs DEF Unused, RowsInv
<1>2. t \notin Used
  BY <1>1
<1>3. txn' \in [Sales -> Txn \cup {NoTxn}] /\ txn'[t] = r /\ \A u \in Sales \ {t} : txn'[u] = txn[u]
  BY DEF RowsInv
<1>4. Used' = Used \cup {t}
  BY <1>3, Distinct DEF Used
<1>5. Used' = 1..(Cardinality(Used) + 1)
  BY <1>1, <1>4
<1>6. Cardinality(Used') = Cardinality(Used) + 1
  BY <1>1, <1>5, FS_Interval
<1>7. Cardinality(Used') \in 0..MaxSales
  BY <1>1, <1>6, DeskAssumption DEF Sales
<1>8. review[t] = None /\ commission[t] = None /\ t \notin plan /\ \A e \in entries : e.txn # t
  BY <1>1, <1>2 DEF RowsInv, Sales
<1> QED
  BY <1>1, <1>2, <1>3, <1>4, <1>5, <1>6, <1>7, <1>8

\* Sale t is made for the member of staff s.
Recorded(t, s) ==
  /\ t \notin Used /\ Used' = Used \cup {t} /\ Used' = 1..Cardinality(Used')
  /\ Cardinality(Used') = Cardinality(Used) + 1 /\ Cardinality(Used') \in 0..MaxSales
  /\ txn' \in [Sales -> Txn \cup {NoTxn}]
  /\ \A u \in Sales \ {t} : txn'[u] = txn[u]
  /\ txn'[t].status = "success" /\ txn'[t].staff = s /\ txn'[t].sold = TRUE
  /\ review[t] = None /\ plan' = plan \cup {t}
  /\ commission[t] = None /\ commission' = [commission EXCEPT ![t] = "pending"]
  /\ commission' \in [Sales -> {None, "pending", "paid"}]
  /\ squeezed' = IF Voids # {} THEN squeezed \cup {t} ELSE squeezed

LEMMA RecordDoes ==
  ASSUME RowsInv, NEW t \in Sales, Unused(t), NEW a \in Amounts, NEW s \in Staff \cup {None},
         NEW cash \in BOOLEAN, Record(t, a, cash, s)
  PROVE  Recorded(t, s)
<1> DEFINE r == [amount |-> a, cash |-> cash, status |-> "success", staff |-> s, sold |-> TRUE]
<1>2. r \in Txn /\ r.status = "success" /\ r.staff = s /\ r.sold = TRUE
  BY DEF Txn
<1>3. txn' = [txn EXCEPT ![t] = r]
  BY DEF Record
<1> HIDE DEF r
<1>4. /\ plan' = plan \cup {t} /\ commission' = [commission EXCEPT ![t] = "pending"]
      /\ squeezed' = IF Voids # {} THEN squeezed \cup {t} ELSE squeezed
  BY DEF Record
<1>5. commission' \in [Sales -> {None, "pending", "paid"}]
  BY <1>4 DEF RowsInv
<1> QED
  BY <1>2, <1>3, <1>4, <1>5, NewRow DEF Recorded

\* What a step makes of the entries.
EntriesOk == \A e \in entries' : e \in Entry /\ e.txn \in Used' \cup {0} /\ e.booked <= Cardinality(Used)'

LEMMA EntryIs ==
  ASSUME RowsInv, NEW e \in entries
  PROVE  /\ e \in Entry /\ e.receipt \in Nat /\ e.staff \in Staff /\ e.amount \in Amounts
         /\ e.status \in {"pending", "verified", "completed"} /\ e.txn \in Used \cup {0}
         /\ e.fresh \in BOOLEAN /\ e.booked \in Nat /\ e.booked <= Cardinality(Used)
BY DeskAssumption DEF RowsInv, Entry

LEMMA EntriesKept ==
  ASSUME RowsInv, entries' \subseteq entries, Used \subseteq Used', Cardinality(Used') \in Nat,
         Cardinality(Used) <= Cardinality(Used')
  PROVE  EntriesOk
BY EntryIs, UsedIs DEF EntriesOk

LEMMA RecordKeepsRows ==
  ASSUME RowsInv, NEW t \in Sales, NEW s, Recorded(t, s), review' = review, EntriesOk
  PROVE  RowsInv'
<1>1. /\ Used' = Used \cup {t} /\ Used' = 1..Cardinality(Used') /\ plan' = plan \cup {t}
      /\ txn' \in [Sales -> Txn \cup {NoTxn}] /\ commission' \in [Sales -> {None, "pending", "paid"}]
      /\ commission' = [commission EXCEPT ![t] = "pending"]
  BY DEF Recorded
<1>2. plan' \subseteq Used'
  BY <1>1 DEF RowsInv
<1>3. \A u \in Sales : review'[u] # None \/ commission'[u] # None => u \in Used'
  BY <1>1 DEF RowsInv
<1>4. entries' \subseteq Entry /\ \A e \in entries' : e.txn \in Used' \cup {0} /\ e.booked <= Cardinality(Used')
  BY DEF EntriesOk
<1> QED
  BY <1>1, <1>2, <1>3, <1>4 DEF RowsInv

\* A step that makes no transaction, and may change the status of one.
LEMMA StatusKeepsRows ==
  ASSUME RowsInv, NEW t \in Used, NEW x \in {"pending", "success", "failed", "gone"},
         txn' = [txn EXCEPT ![t].status = x]
  PROVE  /\ txn' \in [Sales -> Txn \cup {NoTxn}] /\ Used' = Used
         /\ \A u \in Sales \ {t} : txn'[u] = txn[u]
         /\ txn'[t].status = x /\ txn'[t].staff = txn[t].staff /\ txn'[t].sold = txn[t].sold
         /\ txn'[t].amount = txn[t].amount
<1> DEFINE r == [txn[t] EXCEPT !.status = x]
<1>1. t \in Sales /\ txn[t] \in Txn
  BY UsedIs
<1>2. /\ r \in Txn /\ r.status = x /\ r.staff = txn[t].staff /\ r.sold = txn[t].sold
      /\ r.amount = txn[t].amount
  BY <1>1 DEF Txn
<1>3. txn' = [txn EXCEPT ![t] = r]
  OBVIOUS
<1> HIDE DEF r
<1>4. /\ txn' \in [Sales -> Txn \cup {NoTxn}] /\ txn'[t] = r
      /\ \A u \in Sales \ {t} : txn'[u] = txn[u]
  BY <1>1, <1>2, <1>3 DEF RowsInv
<1>5. Used' = Used
  BY <1>1, <1>2, <1>4, UsedIs, Distinct DEF Used
<1> QED
  BY <1>2, <1>4, <1>5

----------------------------------------------------------------------------
(* What the steps of a request do.                                           *)

LEMMA RowsSame ==
  ASSUME RowsInv, UNCHANGED rows
  PROVE  RowsInv' /\ Used' = Used
BY DEF RowsInv, Used, rows

LEMMA TakeReceiptDoes ==
  ASSUME ReqInv, DeskInv, NEW w \in Workers, TakeReceipt(w)
  PROVE  /\ At(w, "receipt") /\ Goes(w, "lock") /\ Typed
         /\ req'[w].subject = receipts + 1
<1> DEFINE r == [req[w] EXCEPT !.pc = "lock", !.subject = receipts + 1]
<1>1. Busy(w) /\ At(w, "receipt")
  BY DEF TakeReceipt, At
<1>2. receipts + 1 \in Nat /\ "lock" \in Pcs
  BY DEF DeskInv, Pcs
<1>3. /\ r \in Request /\ r.pc = "lock" /\ r.kind = req[w].kind /\ r.staff = req[w].staff
      /\ r.amount = req[w].amount /\ r.subject = receipts + 1
  BY <1>1, <1>2, RequestIs DEF Request
<1>4. req' = [req EXCEPT ![w] = r]
  BY DEF TakeReceipt
<1> HIDE DEF r
<1> QED
  BY <1>1, <1>3, <1>4, TurnIs DEF Goes

LEMMA ReadRemainingDoes ==
  ASSUME ReqInv, NEW w \in Workers, ReadRemaining(w)
  PROVE  /\ At(w, "remaining") /\ Goes(w, "check") /\ Typed
         /\ req'[w].subject = req[w].subject
         /\ req'[w].last = (Successes \ {req[w].subject} = {})
<1> DEFINE l == Successes \ {req[w].subject} = {}
           r == [req[w] EXCEPT !.pc = "check", !.last = l]
<1>1. Busy(w) /\ At(w, "remaining")
  BY DEF ReadRemaining, At
<1>2. l \in BOOLEAN /\ "check" \in Pcs
  BY DEF Pcs
<1>3. req' = [req EXCEPT ![w] = r]
  BY DEF ReadRemaining
<1> HIDE DEF l
<1>4. /\ r \in Request /\ r.pc = "check" /\ r.kind = req[w].kind /\ r.staff = req[w].staff
      /\ r.amount = req[w].amount /\ r.subject = req[w].subject /\ r.last = l
  BY <1>1, <1>2, RequestIs DEF Request
<1> HIDE DEF r
<1>5. Goes(w, "check") /\ Typed /\ req'[w].subject = req[w].subject /\ req'[w].last = l
  BY <1>1, <1>3, <1>4, TurnIs DEF Goes
<1> QED
  BY <1>1, <1>5 DEF l

\* The commissions a void looks at.
Looked(w) == IF req[w].last /\ plan # {} THEN Sales ELSE Matching(w)

LEMMA CheckPaidDoes ==
  ASSUME ReqInv, NEW w \in Workers, CheckPaid(w)
  PROVE  /\ At(w, "check") /\ Typed
         /\ \/ Ends(w)
            \/ /\ Goes(w, "erase") /\ req'[w].subject = req[w].subject /\ req'[w].last = req[w].last
               /\ \A t \in Looked(w) : commission[t] # "paid"
<1> DEFINE r == [req[w] EXCEPT !.pc = "erase", !.paid = {}]
<1>1. Busy(w) /\ At(w, "check")
  BY DEF CheckPaid, At
<1>2. CASE Done(w)
  BY <1>1, <1>2, DoneEnds
<1>3. CASE req' = [req EXCEPT ![w] = r] /\ \A t \in Looked(w) : commission[t] # "paid"
  <2>1. "erase" \in Pcs /\ {} \in SUBSET Sales
    BY DEF Pcs
  <2>2. /\ r \in Request /\ r.pc = "erase" /\ r.kind = req[w].kind /\ r.staff = req[w].staff
        /\ r.amount = req[w].amount /\ r.subject = req[w].subject /\ r.last = req[w].last
    BY <1>1, <2>1, RequestIs DEF Request
  <2> HIDE DEF r
  <2>3. Goes(w, "erase") /\ Typed /\ req'[w].subject = req[w].subject /\ req'[w].last = req[w].last
    BY <1>1, <1>3, <2>2, TurnIs DEF Goes
  <2> QED
    BY <1>1, <1>3, <2>3
<1>4. Done(w) \/ (req' = [req EXCEPT ![w] = r] /\ \A t \in Looked(w) : commission[t] # "paid")
  BY DEF CheckPaid, Looked
<1> QED
  BY <1>2, <1>3, <1>4

\* A commission is paid out: every request is as it was, but for what a void noted.
Notes(w, t) ==
  /\ Busy(w)' <=> Busy(w)
  /\ Busy(w) => /\ req'[w].pc = req[w].pc /\ req'[w].kind = req[w].kind
                /\ req'[w].staff = req[w].staff /\ req'[w].amount = req[w].amount
                /\ req'[w].subject = req[w].subject /\ req'[w].last = req[w].last
                /\ req[w].paid \subseteq req'[w].paid
                /\ req[w].kind = "void" => t \in req'[w].paid

LEMMA PayCommissionDoes ==
  ASSUME ReqInv, NEW t \in Sales, PayCommission(t)
  PROVE  Typed /\ \A w \in Workers : Notes(w, t)
<1>1. ASSUME NEW w \in Workers PROVE req'[w] \in Request \cup {Idle} /\ Notes(w, t)
  <2>1. req'[w] = IF w \in Voids THEN [req[w] EXCEPT !.paid = @ \cup {t}] ELSE req[w]
    BY DEF PayCommission
  <2>2. CASE w \in Voids
    <3> DEFINE r == [req[w] EXCEPT !.paid = @ \cup {t}]
    <3>1. Busy(w)
      BY <2>2 DEF Voids
    <3>2. /\ r \in Request /\ r.pc = req[w].pc /\ r.kind = req[w].kind /\ r.staff = req[w].staff
          /\ r.amount = req[w].amount /\ r.subject = req[w].subject /\ r.last = req[w].last
          /\ r.paid = req[w].paid \cup {t}
      BY <3>1, RequestIs DEF Request
    <3>3. req'[w] = r
      BY <2>1, <2>2
    <3> HIDE DEF r
    <3> QED
      BY <3>1, <3>2, <3>3, Distinct DEF Notes, Busy
  <2>3. CASE w \notin Voids
    BY <2>1, <2>3 DEF Notes, Busy, Voids, ReqInv
  <2> QED
    BY <2>2, <2>3
<1>2. req' = [w \in Workers |-> req'[w]]
  BY DEF PayCommission
<1> QED
  BY <1>1, <1>2 DEF Typed

----------------------------------------------------------------------------
(* Types.                                                                    *)

LEMMA TypeInit == Init => TypeInv
<1> SUFFICES ASSUME Init PROVE TypeInv
  OBVIOUS
<1>1. Used = {}
  BY DEF Init, Used
<1>2. Cardinality(Used) = 0
  BY <1>1, FS_EmptySet
<1>3. Used = 1..Cardinality(Used)
  BY <1>1, <1>2
<1>4. entries \subseteq Entry /\ \A e \in entries : e.txn \in Used \cup {0} /\ e.booked <= Cardinality(Used)
  <2> SUFFICES ASSUME NEW e \in entries
               PROVE  e \in Entry /\ e.txn = 0 /\ e.booked = 0
    BY <1>2
  <2>1. PICK s \in Staff, a \in Amounts : e = Pending(s, a)
    BY DEF Init
  <2> QED
    BY <2>1, DeskAssumption DEF Pending, Entry, Sales
<1>5. RowsInv
  BY <1>1, <1>3, <1>4 DEF Init, RowsInv
<1>6. DeskInv
  <2>1. login \in BOOLEAN
    BY DEF Init
  <2> QED
    BY <2>1, DeskAssumption DEF Init, DeskInv
<1>7. ReqInv
  BY DEF Init, ReqInv, Shape, Busy
<1> QED
  BY <1>5, <1>6, <1>7 DEF TypeInv

\* A step that leaves the transactions, the entries and what hangs on them.
LEMMA QuietTypes ==
  ASSUME TypeInv, NEW w \in Workers,
         \/ \E s \in Staff : Confirm(w, s) \/ \E a \in Amounts : Pay(w, s, a)
         \/ \E e \in entries : OpenEntry(w, e) \/ OpenComplete(w, e)
         \/ \E t \in Sales : Decide(w, "verify", t) \/ Decide(w, "reject", t) \/ OpenVoid(w, t)
         \/ SetKey(w) \/ ReadKey(w) \/ DropKey(w) \/ TakeCode(w) \/ TakeLogin(w) \/ TakeReceipt(w) \/ LockMember(w)
         \/ ReadRemaining(w) \/ CheckPaid(w) \/ BreakOff(w)
  PROVE  TypeInv'
<1>i. RowsInv /\ DeskInv /\ ReqInv
  BY DEF TypeInv
<1>r. UNCHANGED rows
  BY DEF Confirm, Pay, OpenEntry, OpenComplete, Decide, OpenVoid, SetKey, ReadKey, DropKey, TakeCode, TakeLogin,
         TakeReceipt, LockMember, ReadRemaining, CheckPaid, BreakOff
<1>u. RowsInv' /\ Used' = Used
  BY <1>i, <1>r, RowsSame
<1>n. 0 \in Nat /\ 0 \in Amounts \cup {0} /\ None \in Staff \cup {None} /\ Sales \subseteq Nat
  BY DEF Sales
<1>1. ASSUME NEW s \in Staff, Confirm(w, s) PROVE TypeInv'
  <2>1. Starts(w, "confirm", "setkey", s, 0, 0) /\ Typed
    BY <1>1, <1>i, <1>n, StartStarts DEF Confirm, Kinds, Pcs
  <2>2. ReqInv'
    BY <1>i, <1>u, <2>1, StartKeepsReq DEF Stage
  <2>3. DeskInv'
    BY <1>1, <1>i DEF DeskInv, Confirm
  <2> QED
    BY <1>u, <2>2, <2>3 DEF TypeInv
<1>2. ASSUME NEW s \in Staff, NEW a \in Amounts, Pay(w, s, a) PROVE TypeInv'
  <2>1. Starts(w, "pay", "key", s, a, 0) /\ Typed
    BY <1>2, <1>i, <1>n, StartStarts DEF Pay, Kinds, Pcs
  <2>2. ReqInv'
    BY <1>i, <1>u, <2>1, StartKeepsReq DEF Stage
  <2>3. DeskInv'
    BY <1>2, <1>i DEF DeskInv, Pay, desk, history
  <2> QED
    BY <1>u, <2>2, <2>3 DEF TypeInv
<1>3. ASSUME NEW e \in entries, OpenEntry(w, e) PROVE TypeInv'
  <2>e. e.receipt \in Nat /\ e.amount \in Amounts
    BY <1>i, EntryIs
  <2>1. Starts(w, "branch_verify", "book", None, e.amount, e.receipt) /\ Typed
    BY <1>3, <1>i, <1>n, <2>e, StartStarts DEF OpenEntry, Kinds, Pcs
  <2>2. ReqInv'
    BY <1>i, <1>u, <2>1, <2>e, StartKeepsReq DEF Stage
  <2>3. DeskInv'
    BY <1>3, <1>i, <2>e DEF DeskInv, OpenEntry, desk
  <2> QED
    BY <1>u, <2>2, <2>3 DEF TypeInv
<1>4. ASSUME NEW e \in entries, OpenComplete(w, e) PROVE TypeInv'
  <2>e. e.receipt \in Nat
    BY <1>i, EntryIs
  <2>1. Starts(w, "complete", "finish", None, 0, e.receipt) /\ Typed
    BY <1>4, <1>i, <1>n, <2>e, StartStarts DEF OpenComplete, Kinds, Pcs
  <2>2. ReqInv'
    BY <1>i, <1>u, <2>1, StartKeepsReq DEF Stage
  <2>3. DeskInv'
    BY <1>4, <1>i DEF DeskInv, OpenComplete, desk, history
  <2> QED
    BY <1>u, <2>2, <2>3 DEF TypeInv
<1>5. ASSUME NEW t \in Sales, NEW kind \in {"verify", "reject"}, Decide(w, kind, t) PROVE TypeInv'
  <2>t. t \in Used /\ t \in Nat
    BY <1>5, <1>n DEF Decide, Rows
  <2>1. Starts(w, kind, "status", None, 0, t) /\ Typed
    BY <1>5, <1>i, <1>n, <2>t, StartStarts DEF Decide, Kinds, Pcs
  <2>2. ReqInv'
    BY <1>i, <1>u, <2>1, <2>t, StartKeepsReq DEF Stage
  <2>3. DeskInv'
    BY <1>5, <1>i DEF DeskInv, Decide, Contest, desk
  <2> QED
    BY <1>u, <2>2, <2>3 DEF TypeInv
<1>6. ASSUME NEW t \in Sales, OpenVoid(w, t) PROVE TypeInv'
  <2>t. t \in Used /\ t \in Nat /\ Successes \subseteq Sales
    BY <1>6, <1>n, <1>i, UsedIs DEF OpenVoid, Successes, Rows
  <2>a. txn[t].amount \in Amounts
    BY <1>i, <2>t, UsedIs DEF Txn
  <2>1. Starts(w, "void", "remaining", None, txn[t].amount, t) /\ Typed
    BY <1>6, <1>i, <1>n, <2>t, <2>a, StartStarts DEF OpenVoid, Kinds, Pcs
  <2>2. ReqInv'
    BY <1>i, <1>u, <2>1, <2>t, <2>a, StartKeepsReq DEF Stage
  <2>3. DeskInv'
    BY <1>6, <1>i, <2>t DEF DeskInv, OpenVoid, desk
  <2> QED
    BY <1>u, <2>2, <2>3 DEF TypeInv
<1>7. ASSUME SetKey(w) PROVE TypeInv'
  <2>1. Busy(w) /\ req[w].kind = "confirm"
    BY <1>7, <1>i, StageIs DEF SetKey, At
  <2>2. req[w].staff \in Staff
    BY <1>i, <2>1 DEF ReqInv, Shape
  <2>3. ReqInv'
    BY <1>7, <1>i, <1>u, DoneEnds, EndKeepsReq DEF SetKey
  <2>4. DeskInv'
    BY <1>7, <1>i, <2>2 DEF DeskInv, SetKey, history
  <2> QED
    BY <1>u, <2>3, <2>4 DEF TypeInv
<1>8. ASSUME ReadKey(w) \/ DropKey(w) \/ TakeCode(w) \/ TakeLogin(w) \/ LockMember(w) PROVE TypeInv'
  <2>1. Busy(w) /\ req[w].kind = "pay"
    BY <1>8, <1>i, StageIs DEF ReadKey, DropKey, TakeCode, TakeLogin, LockMember, At
  <2>2. req[w].staff \in Staff
    BY <1>i, <2>1 DEF ReqInv, Shape
  <2>3. Done(w) \/ \E pc \in {"drop", "code", "login", "receipt", "sale"} : Go(w, pc)
    BY <1>8 DEF ReadKey, DropKey, TakeCode, TakeLogin, LockMember
  <2>4. ReqInv'
    <3>1. ASSUME NEW pc \in {"drop", "code", "login", "receipt", "sale"}, Go(w, pc) PROVE ReqInv'
      <4>1. pc \in Pcs /\ pc \in Stage(req[w].kind)
        BY <2>1 DEF Pcs, Stage
      <4> QED
        BY <1>i, <1>u, <2>1, <3>1, <4>1, GoGoes, GoKeepsReq DEF Same
    <3> QED
      BY <1>i, <1>u, <2>3, <3>1, DoneEnds, EndKeepsReq
  <2>5. DeskInv'
    <3>1. CASE ReadKey(w)
      BY <1>i, <2>2, <3>1 DEF DeskInv, ReadKey, desk
    <3>2. CASE DropKey(w)
      BY <1>i, <3>2 DEF DeskInv, DropKey, history
    <3>3. CASE TakeCode(w)
      <4>1. code' \subseteq Staff /\ given' \in [Staff -> Nat]
        BY <1>i, <2>2, <3>3 DEF DeskInv, TakeCode
      <4> QED
        BY <1>i, <3>3, <4>1 DEF DeskInv, TakeCode
    <3>4. CASE LockMember(w)
      BY <1>i, <3>4 DEF DeskInv, LockMember, desk, history
    <3>5. CASE TakeLogin(w)
      <4>1. given' = given \/ given' = [given EXCEPT ![req[w].staff] = @ + 1]
        BY <3>5 DEF TakeLogin
      <4>2. given' \in [Staff -> Nat]
        BY <1>i, <2>2, <4>1 DEF DeskInv
      <4>3. login' \in BOOLEAN
        BY <1>i, <3>5 DEF DeskInv, TakeLogin
      <4> QED
        BY <1>i, <3>5, <4>2, <4>3 DEF DeskInv, TakeLogin
    <3> QED
      BY <1>8, <3>1, <3>2, <3>3, <3>4, <3>5
  <2> QED
    BY <1>u, <2>4, <2>5 DEF TypeInv
<1>9. ASSUME TakeReceipt(w) PROVE TypeInv'
  <2>1. Busy(w) /\ req[w].kind = "pay"
    BY <1>9, <1>i, StageIs DEF TakeReceipt, At
  <2>2. Goes(w, "lock") /\ Typed
    BY <1>9, <1>i, TakeReceiptDoes
  <2>3. ReqInv'
    BY <1>i, <1>u, <2>1, <2>2, GoKeepsReq DEF Stage
  <2>4. DeskInv'
    BY <1>9, <1>i DEF DeskInv, TakeReceipt, history
  <2> QED
    BY <1>u, <2>3, <2>4 DEF TypeInv
<1>10. ASSUME ReadRemaining(w) \/ CheckPaid(w) PROVE TypeInv'
  <2>1. Busy(w) /\ req[w].kind = "void"
    BY <1>10, <1>i, StageIs DEF ReadRemaining, CheckPaid, At
  <2>2. /\ Typed
        /\ Ends(w) \/ \E pc \in {"check", "erase"} :
                        Goes(w, pc) /\ req'[w].subject = req[w].subject
    BY <1>10, <1>i, ReadRemainingDoes, CheckPaidDoes
  <2>3. ReqInv'
    <3>1. {"check", "erase"} \subseteq Stage(req[w].kind)
      BY <2>1 DEF Stage
    <3> QED
      BY <1>i, <1>u, <2>1, <2>2, <3>1, GoKeepsReq, EndKeepsReq
  <2>4. DeskInv'
    BY <1>10, <1>i DEF DeskInv, ReadRemaining, CheckPaid, desk, history
  <2> QED
    BY <1>u, <2>3, <2>4 DEF TypeInv
<1>11. ASSUME BreakOff(w) PROVE TypeInv'
  <2>1. Busy(w)
    BY <1>11 DEF BreakOff
  <2>2. At(w, "review") => req[w].subject \in Sales
    <3> SUFFICES ASSUME At(w, "review") PROVE req[w].subject \in Sales
      OBVIOUS
    <3>1. req[w].kind \in {"verify", "reject"}
      BY <1>i, <2>1, StageIs DEF At
    <3> QED
      BY <1>i, <2>1, <3>1, UsedIs DEF ReqInv, Shape
  <2>3. ReqInv'
    BY <1>11, <1>i, <1>u, DoneEnds, EndKeepsReq DEF BreakOff
  <2>4. DeskInv'
    BY <1>11, <1>i, <2>2 DEF DeskInv, BreakOff, desk
  <2> QED
    BY <1>u, <2>3, <2>4 DEF TypeInv
<1> QED
  BY <1>1, <1>2, <1>3, <1>4, <1>5, <1>6, <1>7, <1>8, <1>9, <1>10, <1>11

\* What a sale leaves of the request that makes it, and of the desk.
LEMMA RecordTypes ==
  ASSUME TypeInv, NEW t \in Sales, NEW s, Recorded(t, s), review' = review, EntriesOk,
         UNCHANGED <<desk, mix, given, shared, contested, rebooked>>, holder' \in {holder, None},
         req' = req \/ ReqInv'
  PROVE  TypeInv'
<1>1. RowsInv'
  BY RecordKeepsRows DEF TypeInv
<1>2. squeezed' \subseteq Sales
  BY DEF TypeInv, DeskInv, Recorded
<1>3. DeskInv'
  BY <1>2 DEF TypeInv, DeskInv, desk
<1>4. Used \subseteq Used'
  BY DEF Recorded
<1>5. req' = req => ReqInv'
  BY <1>4 DEF TypeInv, ReqInv, Shape, Busy
<1> QED
  BY <1>1, <1>3, <1>5 DEF TypeInv

LEMMA SellDoes ==
  ASSUME TypeInv, NEW w \in Workers, NEW t \in Sales, Sell(w, t)
  PROVE  /\ At(w, "sale") /\ req[w].kind = "pay" /\ req[w].staff \in Staff /\ req[w].amount \in Amounts
         /\ Recorded(t, req[w].staff) /\ Ends(w) /\ Typed /\ EntriesOk /\ TypeInv'
<1>i. RowsInv /\ DeskInv /\ ReqInv
  BY DEF TypeInv
<1>1. Busy(w) /\ At(w, "sale") /\ req[w].kind = "pay"
  BY <1>i, StageIs DEF Sell, At
<1>2. req[w].staff \in Staff /\ req[w].amount \in Amounts /\ req[w].subject \in Nat
  BY <1>i, <1>1, RequestIs DEF ReqInv, Shape
<1>3. PICK cash \in BOOLEAN : Record(t, req[w].amount, cash, req[w].staff)
  BY DEF Sell
<1>4. Recorded(t, req[w].staff)
  BY <1>i, <1>2, <1>3, RecordDoes DEF Sell
<1>5. Ends(w) /\ Typed
  BY <1>i, DoneEnds DEF Sell
<1>6. EntriesOk
  <2> SUFFICES ASSUME NEW e \in entries'
               PROVE  e \in Entry /\ e.txn \in Used' \cup {0} /\ e.booked <= Cardinality(Used)'
    BY DEF EntriesOk
  <2>1. Cardinality(Used) \in Nat /\ Cardinality(Used') = Cardinality(Used) + 1 /\ Used' = Used \cup {t}
        /\ Cardinality(Used') \in 0..MaxSales
    BY <1>i, <1>4, UsedIs DEF Recorded
  <2>2. CASE e \in entries
    BY <1>i, <2>1, <2>2, EntryIs
  <2>3. CASE e = [receipt |-> req[w].subject, staff |-> req[w].staff, amount |-> req[w].amount,
                  status |-> "verified", txn |-> t, fresh |-> TRUE, booked |-> 1]
    <3>1. 1 \in 0..MaxSales
      BY <2>1, DeskAssumption
    <3> QED
      BY <1>2, <2>1, <2>3, <3>1 DEF Entry
  <2> QED
    BY <2>2, <2>3 DEF Sell
<1>7. ReqInv'
  BY <1>i, <1>4, <1>5, EndKeepsReq DEF Recorded
<1>8. TypeInv'
  BY <1>4, <1>6, <1>7, RecordTypes DEF Sell
<1> QED
  BY <1>1, <1>2, <1>4, <1>5, <1>6, <1>8

\* The entry that a manager has open is booked, for the sale t.
Booked(e, r, t) ==
  IF e.receipt = r THEN [e EXCEPT !.status = "verified", !.txn = t, !.booked = @ + 1] ELSE e

LEMMA BookedIs ==
  ASSUME RowsInv, NEW e \in entries, NEW r, NEW t \in Sales, Cardinality(Used) + 1 \in 0..MaxSales
  PROVE  LET d == Booked(e, r, t)
         IN  /\ d \in Entry /\ d.receipt = e.receipt /\ d.staff = e.staff /\ d.fresh = e.fresh
             /\ d.txn \in {e.txn, t}
             /\ e.receipt = r => d.booked = e.booked + 1 /\ d.status = "verified"
             /\ e.receipt # r => d = e
             /\ d.booked <= Cardinality(Used) + 1
<1>1. /\ e \in Entry /\ e.booked \in Nat /\ e.booked <= Cardinality(Used) /\ Cardinality(Used) \in Nat
  BY EntryIs, UsedIs
<1>2. CASE e.receipt = r
  <2> DEFINE d == [e EXCEPT !.status = "verified", !.txn = t, !.booked = @ + 1]
  <2>1. e.booked + 1 \in 0..MaxSales /\ e.booked + 1 <= Cardinality(Used) + 1
    BY <1>1, DeskAssumption
  <2>2. /\ d \in Entry /\ d.receipt = e.receipt /\ d.staff = e.staff /\ d.fresh = e.fresh
        /\ d.txn = t /\ d.booked = e.booked + 1 /\ d.status = "verified"
    BY <1>1, <2>1 DEF Entry
  <2>3. Booked(e, r, t) = d
    BY <1>2 DEF Booked
  <2> HIDE DEF d
  <2> QED
    BY <1>2, <2>1, <2>2, <2>3
<1>3. CASE e.receipt # r
  BY <1>1, <1>3 DEF Booked
<1> QED
  BY <1>2, <1>3

LEMMA BookEntryDoes ==
  ASSUME TypeInv, NEW w \in Workers, NEW t \in Sales, BookEntry(w, t)
  PROVE  /\ At(w, "book") /\ Ends(w) /\ Typed
         /\ \/ /\ Recorded(t, None) /\ EntriesOk /\ Cardinality(Used) + 1 \in 0..MaxSales
               /\ entries' = {Booked(e, req[w].subject, t) : e \in entries}
            \/ UNCHANGED <<plan, txn, commission, squeezed, entries>>
         /\ TypeInv'
<1>i. RowsInv /\ DeskInv /\ ReqInv
  BY DEF TypeInv
<1>1. Busy(w) /\ At(w, "book") /\ req[w].kind = "branch_verify"
  BY <1>i, StageIs DEF BookEntry, At
<1>2. req[w].amount \in Amounts
  BY <1>i, <1>1 DEF ReqInv, Shape
<1>3. Ends(w) /\ Typed
  BY <1>i, DoneEnds DEF BookEntry
<1>4. CASE \E e \in entries : e.receipt = req[w].subject
  <2>1. PICK cash \in BOOLEAN : Record(t, req[w].amount, cash, None)
    BY <1>4 DEF BookEntry
  <2>2. Recorded(t, None)
    BY <1>i, <1>2, <2>1, RecordDoes DEF BookEntry
  <2>3. entries' = {Booked(e, req[w].subject, t) : e \in entries}
    BY <1>4 DEF BookEntry, Booked
  <2>4. Cardinality(Used) + 1 \in 0..MaxSales
    BY <2>2 DEF Recorded
  <2>5. EntriesOk
    <3> SUFFICES ASSUME NEW e \in entries
                 PROVE  LET d == Booked(e, req[w].subject, t)
                        IN  d \in Entry /\ d.txn \in Used' \cup {0} /\ d.booked <= Cardinality(Used)'
      BY <2>3 DEF EntriesOk
    <3>1. e.txn \in Used \cup {0} /\ Used' = Used \cup {t} /\ Cardinality(Used') = Cardinality(Used) + 1
      BY <1>i, <2>2, EntryIs DEF Recorded
    <3> QED
      BY <1>i, <2>4, <3>1, BookedIs
  <2>6. ReqInv'
    BY <1>i, <1>3, <2>2, EndKeepsReq DEF Recorded
  <2>7. TypeInv'
    BY <2>2, <2>5, <2>6, RecordTypes DEF BookEntry
  <2> QED
    BY <1>1, <1>3, <2>2, <2>3, <2>4, <2>5, <2>7
<1>5. CASE ~\E e \in entries : e.receipt = req[w].subject
  <2>1. UNCHANGED <<plan, txn, commission, squeezed, entries>>
    BY <1>5 DEF BookEntry
  <2>2. RowsInv' /\ Used' = Used
    BY <1>i, <2>1, RowsSame DEF BookEntry, rows
  <2>3. ReqInv'
    BY <1>i, <1>3, <2>2, EndKeepsReq
  <2>4. DeskInv'
    BY <1>i, <2>1 DEF BookEntry, DeskInv, desk
  <2> QED
    BY <1>1, <1>3, <2>1, <2>2, <2>3, <2>4 DEF TypeInv
<1> QED
  BY <1>4, <1>5

LEMMA SubscribeDoes ==
  ASSUME TypeInv, NEW t \in Sales, NEW a \in Amounts, Subscribe(t, a) \/ Renew(t, a)
  PROVE  Recorded(t, None) /\ EntriesOk /\ TypeInv' /\ req' = req /\ entries' = entries
<1>i. RowsInv /\ DeskInv /\ ReqInv
  BY DEF TypeInv
<1>1. PICK cash \in BOOLEAN : Record(t, a, cash, None)
  BY DEF Subscribe, Renew
<1>2. Recorded(t, None)
  BY <1>i, <1>1, RecordDoes DEF Subscribe, Renew
<1>3. req' = req /\ entries' = entries
  BY DEF Subscribe, Renew
<1>4. EntriesOk
  BY <1>i, <1>2, <1>3, UsedIs, EntriesKept DEF Recorded
<1>5. TypeInv'
  BY <1>2, <1>3, <1>4, RecordTypes DEF Subscribe, Renew
<1> QED
  BY <1>2, <1>3, <1>4, <1>5

LEMMA PostDoes ==
  ASSUME TypeInv, NEW t \in Sales, NEW a \in Amounts, Post(t, a)
  PROVE  /\ t \notin Used /\ Used' = Used \cup {t}
         /\ \A u \in Sales \ {t} : txn'[u] = txn[u]
         /\ txn'[t].status = "pending" /\ txn'[t].staff = None /\ txn'[t].sold = FALSE
         /\ review[t] = None /\ TypeInv'
<1>i. RowsInv /\ DeskInv /\ ReqInv
  BY DEF TypeInv
<1> DEFINE r == [amount |-> a, cash |-> TRUE, status |-> "pending", staff |-> None, sold |-> FALSE]
<1>1. r \in Txn /\ r.status = "pending" /\ r.staff = None /\ r.sold = FALSE
  BY DEF Txn
<1>2. txn' = [txn EXCEPT ![t] = r] /\ Unused(t)
  BY DEF Post
<1> HIDE DEF r
<1>3. /\ t \notin Used /\ Used' = Used \cup {t} /\ Used' = 1..Cardinality(Used')
      /\ Cardinality(Used') = Cardinality(Used) + 1 /\ Cardinality(Used') \in 0..MaxSales
      /\ txn' \in [Sales -> Txn \cup {NoTxn}] /\ txn'[t] = r
      /\ \A u \in Sales \ {t} : txn'[u] = txn[u] /\ review[t] = None
  BY <1>i, <1>1, <1>2, NewRow
<1>4. EntriesOk
  BY <1>i, <1>3, UsedIs, EntriesKept DEF Post
<1>5. review[t] = None
  BY <1>i, <1>3 DEF RowsInv
<1>6. RowsInv'
  <2>1. UNCHANGED <<entries, review, commission, plan>>
    BY DEF Post
  <2>2. \A e \in entries' : e.txn \in Used' \cup {0} /\ e.booked <= Cardinality(Used')
    BY <1>4 DEF EntriesOk
  <2> QED
    BY <1>i, <1>3, <2>1, <2>2 DEF RowsInv
<1>7. ReqInv' /\ DeskInv'
  BY <1>i, <1>3 DEF Post, ReqInv, Shape, Busy, DeskInv, desk, history
<1> QED
  BY <1>1, <1>3, <1>5, <1>6, <1>7 DEF TypeInv

\* The row of t gets the status x.
Restated(t, x) ==
  /\ txn' \in [Sales -> Txn \cup {NoTxn}] /\ Used' = Used
  /\ \A u \in Sales \ {t} : txn'[u] = txn[u]
  /\ txn'[t].status = x /\ txn'[t].staff = txn[t].staff /\ txn'[t].sold = txn[t].sold

LEMMA SetStatusDoes ==
  ASSUME TypeInv, NEW w \in Workers, SetStatus(w)
  PROVE  /\ At(w, "status") /\ req[w].kind \in {"verify", "reject"} /\ req[w].subject \in Used
         /\ Typed
         /\ \/ /\ req[w].subject \in Rows
               /\ Restated(req[w].subject, IF req[w].kind = "verify" THEN "success" ELSE "failed")
               /\ Goes(w, "review") /\ Same(w)
            \/ req[w].subject \notin Rows /\ txn' = txn /\ Ends(w)
         /\ TypeInv'
<1>i. RowsInv /\ DeskInv /\ ReqInv
  BY DEF TypeInv
<1>1. Busy(w) /\ At(w, "status") /\ req[w].kind \in {"verify", "reject"}
  BY <1>i, StageIs DEF SetStatus, At
<1>2. req[w].subject \in Used
  BY <1>i, <1>1 DEF ReqInv, Shape
<1>3. PICK t \in Used : t = req[w].subject
  BY <1>2
<1>s. Successes \subseteq Sales
  BY DEF Successes, Rows, Used
<1>4. DeskInv'
  BY <1>i, <1>s DEF SetStatus, DeskInv, desk
<1>5. CASE t \in Rows
  <2> DEFINE x == IF req[w].kind = "verify" THEN "success" ELSE "failed"
  <2>1. x \in {"pending", "success", "failed", "gone"}
    OBVIOUS
  <2>2. txn' = [txn EXCEPT ![t].status = x]
    BY <1>3, <1>5 DEF SetStatus
  <2> HIDE DEF x
  <2>3. Restated(t, x)
    BY <1>i, <2>1, <2>2, StatusKeepsRows DEF Restated
  <2>4. Goes(w, "review") /\ Same(w) /\ Typed
    BY <1>i, <1>1, <1>3, <1>5, GoGoes DEF SetStatus, Pcs
  <2>5. RowsInv'
    BY <1>i, <2>3 DEF Restated, RowsInv, SetStatus
  <2>6. "review" \in Stage(req[w].kind)
    BY <1>1 DEF Stage
  <2>7. ReqInv'
    BY <1>i, <1>1, <2>3, <2>4, <2>6, GoKeepsReq DEF Restated, Same
  <2> QED
    BY <1>1, <1>2, <1>3, <1>4, <1>5, <2>3, <2>4, <2>5, <2>7 DEF TypeInv, x
<1>6. CASE t \notin Rows
  <2>1. txn' = txn /\ Ends(w) /\ Typed
    BY <1>i, <1>3, <1>6, DoneEnds DEF SetStatus
  <2>2. RowsInv' /\ Used' = Used
    BY <1>i, <2>1, RowsSame DEF SetStatus, rows
  <2>3. ReqInv'
    BY <1>i, <2>1, <2>2, EndKeepsReq
  <2> QED
    BY <1>1, <1>2, <1>3, <1>4, <1>6, <2>1, <2>2, <2>3 DEF TypeInv
<1> QED
  BY <1>5, <1>6

LEMMA SetReviewDoes ==
  ASSUME TypeInv, NEW w \in Workers, SetReview(w)
  PROVE  /\ At(w, "review") /\ req[w].kind \in {"verify", "reject"} /\ req[w].subject \in Used
         /\ Ends(w) /\ Typed
         /\ \A u \in Sales \ {req[w].subject} : review'[u] = review[u]
         /\ req[w].subject \in Rows =>
              review'[req[w].subject] = IF req[w].kind = "verify" THEN "verified" ELSE "rejected"
         /\ TypeInv'
<1>i. RowsInv /\ DeskInv /\ ReqInv
  BY DEF TypeInv
<1>1. Busy(w) /\ At(w, "review") /\ req[w].kind \in {"verify", "reject"}
  BY <1>i, StageIs DEF SetReview, At
<1>2. req[w].subject \in Used /\ req[w].subject \in Sales
  BY <1>i, <1>1, UsedIs DEF ReqInv, Shape
<1>3. Ends(w) /\ Typed
  BY <1>i, DoneEnds DEF SetReview
<1>4. /\ \A u \in Sales \ {req[w].subject} : review'[u] = review[u]
      /\ req[w].subject \in Rows =>
           review'[req[w].subject] = IF req[w].kind = "verify" THEN "verified" ELSE "rejected"
      /\ review' \in [Sales -> {None, "verified", "rejected"}]
  BY <1>i, <1>2 DEF SetReview, RowsInv
<1>5. Used' = Used
  BY DEF SetReview, Used
<1>6. RowsInv'
  BY <1>i, <1>2, <1>4, <1>5 DEF SetReview, RowsInv
<1>7. ReqInv'
  BY <1>i, <1>3, <1>5, EndKeepsReq
<1>8. DeskInv'
  BY <1>i DEF SetReview, DeskInv, desk, history
<1> QED
  BY <1>1, <1>2, <1>3, <1>4, <1>6, <1>7, <1>8 DEF TypeInv

LEMMA EraseDoes ==
  ASSUME TypeInv, NEW w \in Workers, Erase(w)
  PROVE  /\ At(w, "erase") /\ req[w].kind = "void" /\ req[w].subject \in Used
         /\ Ends(w) /\ Typed /\ Restated(req[w].subject, "gone")
         /\ plan' = IF req[w].last THEN {} ELSE plan
         /\ \A t \in Sales : commission'[t] \in {commission[t], None}
         /\ req[w].last /\ plan # {} => \A t \in Sales : commission'[t] = None
         /\ ~(req[w].last /\ plan # {}) => \A t \in Sales : commission[t] = "paid" => commission'[t] = "paid"
         /\ \A u \in Sales \ {req[w].subject} : review'[u] = review[u]
         /\ entries' \subseteq entries
         /\ TypeInv'
<1>i. RowsInv /\ DeskInv /\ ReqInv
  BY DEF TypeInv
<1>1. Busy(w) /\ At(w, "erase") /\ req[w].kind = "void"
  BY <1>i, StageIs DEF Erase, At
<1>2. req[w].subject \in Used
  BY <1>i, <1>1 DEF ReqInv, Shape
<1>3. PICK t \in Used : t = req[w].subject
  BY <1>2
<1>4. Ends(w) /\ Typed
  BY <1>i, DoneEnds DEF Erase
<1>5. Restated(t, "gone")
  BY <1>i, <1>3, StatusKeepsRows DEF Restated, Erase
<1>6. /\ plan' = IF req[w].last THEN {} ELSE plan
      /\ entries' \subseteq entries
  BY DEF Erase
<1>7. /\ review' \in [Sales -> {None, "verified", "rejected"}] /\ review'[t] = None
      /\ \A u \in Sales \ {t} : review'[u] = review[u]
  BY <1>i, <1>3, UsedIs DEF Erase, RowsInv
<1> DEFINE unpaid == {u \in Matching(w) : commission[u] # "paid"}
           dropped == IF req[w].last /\ plan # {} THEN Sales ELSE unpaid
<1>8. commission' = [u \in Sales |-> IF u \in dropped THEN None ELSE commission[u]]
  BY DEF Erase
<1>9. /\ commission' \in [Sales -> {None, "pending", "paid"}]
      /\ \A u \in Sales : commission'[u] \in {commission[u], None}
      /\ req[w].last /\ plan # {} => \A u \in Sales : commission'[u] = None
      /\ ~(req[w].last /\ plan # {}) => \A u \in Sales : commission[u] = "paid" => commission'[u] = "paid"
  <2>1. \A u \in unpaid : commission[u] # "paid"
    OBVIOUS
  <2> HIDE DEF unpaid
  <2> QED
    BY <1>i, <1>8, <2>1 DEF RowsInv
<1>10. RowsInv'
  <2>1. Used' = Used /\ txn' \in [Sales -> Txn \cup {NoTxn}]
    BY <1>5 DEF Restated
  <2>2. plan' \subseteq Used
    BY <1>i, <1>6 DEF RowsInv
  <2>3. \A u \in Sales : review'[u] # None \/ commission'[u] # None => u \in Used'
    BY <1>i, <1>3, <1>7, <1>9, <2>1 DEF RowsInv
  <2>4. entries' \subseteq Entry /\ \A e \in entries' : e.txn \in Used' \cup {0} /\ e.booked <= Cardinality(Used')
    BY <1>i, <1>6, <2>1 DEF RowsInv
  <2> QED
    BY <1>i, <1>7, <1>9, <2>1, <2>2, <2>3, <2>4 DEF RowsInv
<1>11. ReqInv'
  BY <1>i, <1>4, <1>5, EndKeepsReq DEF Restated
<1>12. DeskInv'
  BY <1>i DEF Erase, DeskInv, desk, history
<1> QED
  BY <1>1, <1>2, <1>3, <1>4, <1>5, <1>6, <1>7, <1>9, <1>10, <1>11, <1>12 DEF TypeInv


Finished(e, r) == IF e.receipt = r THEN [e EXCEPT !.status = "completed"] ELSE e
Cooled(e) == [e EXCEPT !.fresh = FALSE]

LEMMA RewrittenIs ==
  ASSUME RowsInv, NEW e \in entries, NEW r, NEW d \in {Finished(e, r), Cooled(e)}
  PROVE  /\ d \in Entry /\ d.receipt = e.receipt /\ d.staff = e.staff /\ d.txn = e.txn
         /\ d.booked = e.booked
         /\ d.fresh => e.fresh
         /\ d.status = "pending" => e.status = "pending"
<1>1. e \in Entry
  BY EntryIs
<1> DEFINE c == [e EXCEPT !.status = "completed"]
<1>2. /\ c \in Entry /\ c.receipt = e.receipt /\ c.staff = e.staff /\ c.txn = e.txn
      /\ c.booked = e.booked /\ c.fresh = e.fresh /\ c.status = "completed"
  BY <1>1 DEF Entry
<1>3. LET k == Cooled(e)
      IN  /\ k \in Entry /\ k.receipt = e.receipt /\ k.staff = e.staff /\ k.txn = e.txn
          /\ k.booked = e.booked /\ k.fresh = FALSE /\ k.status = e.status
  BY <1>1 DEF Entry, Cooled
<1>4. Finished(e, r) \in {c, e}
  BY DEF Finished
<1> HIDE DEF c
<1> QED
  BY <1>1, <1>2, <1>3, <1>4

LEMMA RewriteKeepsRows ==
  ASSUME RowsInv, UNCHANGED <<txn, review, commission, plan>>,
         NEW r, \/ entries' = {Finished(e, r) : e \in entries}
                \/ entries' = {Cooled(e) : e \in entries}
  PROVE  RowsInv' /\ Used' = Used
<1>1. Used' = Used
  BY DEF Used
<1>2. ASSUME NEW d \in entries'
      PROVE  d \in Entry /\ d.txn \in Used \cup {0} /\ d.booked <= Cardinality(Used)
  <2>1. PICK e \in entries : d \in {Finished(e, r), Cooled(e)}
    <3>1. \E e \in entries : d = Finished(e, r) \/ d = Cooled(e)
      BY <1>2
    <3> QED
      BY <3>1
  <2>2. d \in Entry /\ d.txn = e.txn /\ d.booked = e.booked
    BY <2>1, RewrittenIs
  <2> QED
    BY <2>2, EntryIs
<1> QED
  BY <1>1, <1>2 DEF RowsInv

LEMMA FinishDoes ==
  ASSUME TypeInv, NEW w \in Workers, Finish(w)
  PROVE  /\ Ends(w) /\ Typed /\ At(w, "finish") /\ Used' = Used
         /\ entries' = {Finished(e, req[w].subject) : e \in entries}
         /\ TypeInv'
<1>i. RowsInv /\ DeskInv /\ ReqInv
  BY DEF TypeInv
<1>1. Ends(w) /\ Typed /\ At(w, "finish")
  BY <1>i, DoneEnds DEF Finish
<1>2. entries' = {Finished(e, req[w].subject) : e \in entries}
  BY DEF Finish, Finished
<1>3. RowsInv' /\ Used' = Used
  BY <1>i, <1>2, RewriteKeepsRows DEF Finish
<1>4. ReqInv' /\ DeskInv'
  BY <1>i, <1>1, <1>3, EndKeepsReq DEF Finish, DeskInv, desk, history
<1> QED
  BY <1>1, <1>2, <1>3, <1>4 DEF TypeInv

\* The steps of no request.
LEMMA CoolTypes ==
  ASSUME TypeInv, Cool
  PROVE  TypeInv' /\ Used' = Used /\ entries' = {Cooled(e) : e \in entries}
<1>i. RowsInv /\ DeskInv /\ ReqInv
  BY DEF TypeInv
<1>1. entries' = {Cooled(e) : e \in entries}
  BY DEF Cool, Cooled
<1>2. RowsInv' /\ Used' = Used
  BY <1>i, <1>1, RewriteKeepsRows DEF Cool
<1>3. ReqInv' /\ DeskInv'
  BY <1>i, <1>2 DEF Cool, ReqInv, Shape, Busy, DeskInv, desk, history
<1> QED
  BY <1>1, <1>2, <1>3 DEF TypeInv

LEMMA PayCommissionTypes ==
  ASSUME TypeInv, NEW t \in Sales, PayCommission(t)
  PROVE  TypeInv' /\ Used' = Used
<1>i. RowsInv /\ DeskInv /\ ReqInv
  BY DEF TypeInv
<1>1. Used' = Used
  BY DEF PayCommission, Used
<1>2. commission[t] # None
  BY DEF PayCommission, None
<1>3. RowsInv'
  BY <1>i, <1>1, <1>2 DEF PayCommission, RowsInv
<1>4. Typed /\ \A w \in Workers : Notes(w, t)
  BY <1>i, PayCommissionDoes
<1>5. ASSUME NEW w \in Workers PROVE Shape(w)'
  BY <1>i, <1>1, <1>4, <1>5 DEF Notes, ReqInv, Shape
<1>6. ReqInv'
  BY <1>4, <1>5 DEF ReqInv, Typed
<1>7. DeskInv'
  BY <1>i DEF PayCommission, DeskInv, desk, history
<1> QED
  BY <1>1, <1>3, <1>6, <1>7 DEF TypeInv

LEMMA CodeTypes ==
  ASSUME TypeInv, SendLogin \/ LogIn \/ \E s \in Staff : SendCode(s) \/ Expire(s)
  PROVE  TypeInv' /\ Used' = Used
<1>i. RowsInv /\ DeskInv /\ ReqInv
  BY DEF TypeInv
<1>1. UNCHANGED rows /\ req' = req
  BY DEF SendCode, SendLogin, LogIn, Expire
<1>2. RowsInv' /\ Used' = Used
  BY <1>i, <1>1, RowsSame
<1>3. ReqInv'
  BY <1>i, <1>1, <1>2 DEF ReqInv, Shape, Busy
<1>4. DeskInv'
  <2>1. CASE \E s \in Staff : SendCode(s)
    <3>1. sent' \in 0..MaxCodes
      BY <1>i, <2>1, DeskAssumption DEF SendCode, DeskInv
    <3> QED
      BY <1>i, <2>1, <3>1 DEF SendCode, DeskInv, history
  <2>2. CASE \E s \in Staff : Expire(s)
    BY <1>i, <2>2 DEF Expire, DeskInv, history
  <2>3. CASE SendLogin
    <3>1. sent' \in 0..MaxCodes /\ login' \in BOOLEAN
      BY <1>i, <2>3, DeskAssumption DEF SendLogin, DeskInv
    <3> QED
      BY <1>i, <2>3, <3>1 DEF SendLogin, DeskInv, history
  <2>4. CASE LogIn
    BY <1>i, <2>4 DEF LogIn, DeskInv, history
  <2> QED
    BY <2>1, <2>2, <2>3, <2>4
<1> QED
  BY <1>2, <1>3, <1>4 DEF TypeInv

LEMMA TypeNext == TypeInv /\ [Next]_vars => TypeInv'
<1> SUFFICES ASSUME TypeInv, [Next]_vars PROVE TypeInv'
  OBVIOUS
<1>1. ASSUME NEW w \in Workers, PayStep(w) PROVE TypeInv'
  BY <1>1, QuietTypes, SellDoes, BookEntryDoes DEF PayStep
<1>2. ASSUME NEW w \in Workers, OfficeStep(w) PROVE TypeInv'
  BY <1>2, QuietTypes, FinishDoes, SetStatusDoes, SetReviewDoes, EraseDoes DEF OfficeStep
<1>3. ASSUME NEW w \in Workers,
             \/ \E s \in Staff : Confirm(w, s) \/ \E a \in Amounts : Pay(w, s, a)
             \/ \E e \in entries : OpenEntry(w, e) \/ OpenComplete(w, e)
             \/ \E t \in Sales : Decide(w, "verify", t) \/ Decide(w, "reject", t) \/ OpenVoid(w, t)
             \/ BreakOff(w)
      PROVE  TypeInv'
  BY <1>3, QuietTypes
<1>4. CASE UNCHANGED vars
  BY <1>4 DEF TypeInv, vars, rows, desk, history, RowsInv, DeskInv, ReqInv, Shape, Busy, Used
<1>5. ASSUME NEW t \in Sales, PayCommission(t) \/ \E a \in Amounts : Subscribe(t, a) \/ Renew(t, a) \/ Post(t, a)
      PROVE  TypeInv'
  BY <1>5, SubscribeDoes, PostDoes, PayCommissionTypes
<1>6. ASSUME Cool \/ SendLogin \/ LogIn \/ \E s \in Staff : SendCode(s) \/ Expire(s) PROVE TypeInv'
  BY <1>6, CodeTypes, CoolTypes
<1> QED
  BY <1>1, <1>2, <1>3, <1>4, <1>5, <1>6 DEF Next

\* Transactions, entries, commissions and requests have their types; the transactions are
\* numbered without a gap, and what hangs on a sale hangs on one that was made.
THEOREM TypeCorrect == Spec => []TypeOK
<1> QED
  BY TypeInit, TypeNext, TypeInvIs, PTL DEF Spec

----------------------------------------------------------------------------
(* The steps once more: how a request gets where it is.                      *)

\* The steps taken by request w.
RequestStep(w) ==
  \/ \E s \in Staff : Confirm(w, s) \/ \E a \in Amounts : Pay(w, s, a)
  \/ \E e \in entries : OpenEntry(w, e) \/ OpenComplete(w, e)
  \/ \E t \in Sales : Decide(w, "verify", t) \/ Decide(w, "reject", t) \/ OpenVoid(w, t)
  \/ PayStep(w) \/ OfficeStep(w) \/ BreakOff(w)

\* The steps that no request takes.
OtherStep ==
  \/ SendLogin \/ LogIn
  \/ \E s \in Staff : SendCode(s) \/ Expire(s)
  \/ \E t \in Sales : \E a \in Amounts : Subscribe(t, a) \/ Renew(t, a) \/ Post(t, a)

LEMMA NextIs ==
  ASSUME [Next]_vars
  PROVE  \/ \E w \in Workers : RequestStep(w)
         \/ OtherStep
         \/ \E t \in Sales : PayCommission(t)
         \/ Cool
         \/ UNCHANGED vars
BY DEF Next, RequestStep, OtherStep

\* After a step of request w: each place has a step that leads there.
Arrives(w) ==
  Busy(w)' =>
    /\ req'[w] \in Request
    /\ req'[w].pc = "setkey" => \E s \in Staff : Confirm(w, s) /\ req'[w].staff = s
    /\ req'[w].pc = "drop" => ReadKey(w) /\ Goes(w, "drop")
    /\ req'[w].pc = "receipt" => (DropKey(w) \/ TakeCode(w) \/ TakeLogin(w)) /\ Goes(w, "receipt")
    /\ req'[w].pc = "lock" => TakeReceipt(w) /\ Goes(w, "lock") /\ req'[w].subject = receipts + 1
    /\ req'[w].pc = "sale" => LockMember(w) /\ Goes(w, "sale") /\ Same(w)
    /\ req'[w].pc = "status" =>
         \E t \in Sales, kind \in {"verify", "reject"} :
           Decide(w, kind, t) /\ ~Busy(w) /\ req'[w].kind = kind /\ req'[w].subject = t
    /\ req'[w].pc = "review" => SetStatus(w) /\ Goes(w, "review") /\ Same(w)
    /\ req'[w].pc = "remaining" => \E t \in Sales : OpenVoid(w, t)
    /\ req'[w].pc = "check" =>
         /\ ReadRemaining(w) /\ Goes(w, "check") /\ req'[w].subject = req[w].subject
         /\ req'[w].last = (Successes \ {req[w].subject} = {})
    /\ req'[w].pc = "erase" =>
         /\ CheckPaid(w) /\ Goes(w, "erase") /\ req'[w].subject = req[w].subject
         /\ req'[w].last = req[w].last
         /\ \A t \in Looked(w) : commission[t] # "paid"
    /\ req'[w].pc = "book" =>
         \E e \in entries : OpenEntry(w, e) /\ ~Busy(w) /\ req'[w].subject = e.receipt

LEMMA EndArrives ==
  ASSUME NEW w \in Workers, Ends(w)
  PROVE  Others(w) /\ Arrives(w)
BY DEF Ends, Arrives, Busy

LEMMA RequestSteps ==
  ASSUME TypeInv, NEW w \in Workers, RequestStep(w)
  PROVE  Others(w) /\ Arrives(w)
<1>i. RowsInv /\ ReqInv /\ DeskInv
  BY DEF TypeInv
<1>n. 0 \in Nat /\ 0 \in Amounts \cup {0} /\ None \in Staff \cup {None} /\ Sales \subseteq Nat
  BY DEF Sales
<1>1. ASSUME NEW s \in Staff, Confirm(w, s) PROVE Others(w) /\ Arrives(w)
  <2>1. Starts(w, "confirm", "setkey", s, 0, 0)
    BY <1>1, <1>i, <1>n, StartStarts DEF Confirm, Kinds, Pcs
  <2> QED
    BY <1>1, <2>1 DEF Starts, Arrives
<1>2. ASSUME NEW s \in Staff, NEW a \in Amounts, Pay(w, s, a) PROVE Others(w) /\ Arrives(w)
  <2>1. Starts(w, "pay", "key", s, a, 0)
    BY <1>2, <1>i, <1>n, StartStarts DEF Pay, Kinds, Pcs
  <2> QED
    BY <2>1 DEF Starts, Arrives
<1>3. ASSUME NEW e \in entries, OpenEntry(w, e) PROVE Others(w) /\ Arrives(w)
  <2>e. e.receipt \in Nat /\ e.amount \in Amounts
    BY <1>i, EntryIs
  <2>1. Starts(w, "branch_verify", "book", None, e.amount, e.receipt)
    BY <1>3, <1>i, <1>n, <2>e, StartStarts DEF OpenEntry, Kinds, Pcs
  <2> QED
    BY <1>3, <2>1 DEF Starts, Arrives
<1>4. ASSUME NEW e \in entries, OpenComplete(w, e) PROVE Others(w) /\ Arrives(w)
  <2>e. e.receipt \in Nat
    BY <1>i, EntryIs
  <2>1. Starts(w, "complete", "finish", None, 0, e.receipt)
    BY <1>4, <1>i, <1>n, <2>e, StartStarts DEF OpenComplete, Kinds, Pcs
  <2> QED
    BY <2>1 DEF Starts, Arrives
<1>5. ASSUME NEW t \in Sales, NEW kind \in {"verify", "reject"}, Decide(w, kind, t)
      PROVE  Others(w) /\ Arrives(w)
  <2>1. Starts(w, kind, "status", None, 0, t)
    BY <1>5, <1>i, <1>n, StartStarts DEF Decide, Kinds, Pcs
  <2> QED
    BY <1>5, <2>1 DEF Starts, Arrives
<1>6. ASSUME NEW t \in Sales, OpenVoid(w, t) PROVE Others(w) /\ Arrives(w)
  <2>a. txn[t].amount \in Amounts
    BY <1>6, <1>i, UsedIs DEF OpenVoid, Successes, Rows, Txn
  <2>1. Starts(w, "void", "remaining", None, txn[t].amount, t)
    BY <1>6, <1>i, <1>n, <2>a, StartStarts DEF OpenVoid, Kinds, Pcs
  <2> QED
    BY <1>6, <2>1 DEF Starts, Arrives
<1>7. ASSUME NEW pc \in {"drop", "code", "login", "receipt", "sale"}, Busy(w), Go(w, pc),
             pc = "drop" => ReadKey(w), pc = "receipt" => DropKey(w) \/ TakeCode(w) \/ TakeLogin(w),
             pc = "sale" => LockMember(w)
      PROVE  Others(w) /\ Arrives(w)
  <2>1. Goes(w, pc) /\ Same(w)
    BY <1>7, <1>i, GoGoes DEF Pcs
  <2> QED
    BY <1>7, <2>1 DEF Goes, Arrives
<1>8. ASSUME Done(w) PROVE Others(w) /\ Arrives(w)
  BY <1>8, <1>i, DoneEnds, EndArrives
<1>9. ASSUME ReadKey(w) \/ DropKey(w) \/ TakeCode(w) \/ TakeLogin(w) \/ LockMember(w) PROVE Others(w) /\ Arrives(w)
  <2>1. Busy(w)
    BY <1>9 DEF ReadKey, DropKey, TakeCode, TakeLogin, LockMember, At
  <2>2. CASE ReadKey(w)
    BY <1>7, <2>1, <2>2 DEF ReadKey
  <2>3. CASE DropKey(w)
    BY <1>7, <2>1, <2>3 DEF DropKey
  <2>4. CASE TakeCode(w)
    BY <1>7, <2>1, <2>4 DEF TakeCode
  <2>5. CASE LockMember(w)
    BY <1>7, <1>8, <2>1, <2>5 DEF LockMember
  <2>6. CASE TakeLogin(w)
    BY <1>7, <1>8, <2>1, <2>6 DEF TakeLogin
  <2> QED
    BY <1>9, <2>2, <2>3, <2>4, <2>5, <2>6
<1>10. ASSUME TakeReceipt(w) PROVE Others(w) /\ Arrives(w)
  <2>1. Goes(w, "lock") /\ req'[w].subject = receipts + 1
    BY <1>10, <1>i, TakeReceiptDoes
  <2> QED
    BY <1>10, <2>1 DEF Goes, Arrives
<1>11. ASSUME ReadRemaining(w) PROVE Others(w) /\ Arrives(w)
  <2>1. /\ Goes(w, "check") /\ req'[w].subject = req[w].subject
        /\ req'[w].last = (Successes \ {req[w].subject} = {})
    BY <1>11, <1>i, ReadRemainingDoes
  <2> QED
    BY <1>11, <2>1 DEF Goes, Arrives
<1>12. ASSUME CheckPaid(w) PROVE Others(w) /\ Arrives(w)
  <2>1. CASE Ends(w)
    BY <2>1, EndArrives
  <2>2. CASE /\ Goes(w, "erase") /\ req'[w].subject = req[w].subject /\ req'[w].last = req[w].last
             /\ \A t \in Looked(w) : commission[t] # "paid"
    BY <1>12, <2>2 DEF Goes, Arrives
  <2> QED
    BY <1>12, <1>i, <2>1, <2>2, CheckPaidDoes
<1>13. ASSUME SetStatus(w) PROVE Others(w) /\ Arrives(w)
  <2>1. CASE Ends(w)
    BY <2>1, EndArrives
  <2>2. CASE Goes(w, "review") /\ Same(w)
    BY <1>13, <2>2 DEF Goes, Arrives
  <2> QED
    BY <1>13, <2>1, <2>2, SetStatusDoes
<1>14. ASSUME \/ \E t \in Sales : Sell(w, t) \/ BookEntry(w, t)
              \/ SetKey(w) \/ Finish(w) \/ SetReview(w) \/ Erase(w) \/ BreakOff(w)
       PROVE  Others(w) /\ Arrives(w)
  BY <1>8, <1>14 DEF Sell, BookEntry, SetKey, Finish, SetReview, Erase, BreakOff
<1>15. CASE PayStep(w)
  BY <1>9, <1>10, <1>14, <1>15 DEF PayStep
<1>16. CASE OfficeStep(w)
  BY <1>11, <1>12, <1>13, <1>14, <1>16 DEF OfficeStep
<1> QED
  BY <1>1, <1>2, <1>3, <1>4, <1>5, <1>6, <1>14, <1>15, <1>16 DEF RequestStep

----------------------------------------------------------------------------
(* One fresh entry.                                                          *)

\* Who sells has the member locked, and found no fresh entry of the same staff.
FreshInv ==
  /\ \A w \in Workers : At(w, "sale") =>
       holder = w /\ \A e \in entries : ~(e.staff = req[w].staff /\ e.fresh)
  /\ OneFreshEntry

\* The step makes no entry, and none fresh again.
Calm ==
  \A d1, d2 \in entries' : \E e1, e2 \in entries :
    /\ d1.staff = e1.staff /\ d2.staff = e2.staff
    /\ d1.fresh => e1.fresh
    /\ d2.fresh => e2.fresh
    /\ e1 = e2 => d1 = d2

LEMMA FewerCalm ==
  ASSUME entries' \subseteq entries
  PROVE  Calm
BY DEF Calm

LEMMA RewriteCalm ==
  ASSUME RowsInv, NEW r,
         \/ entries' = {Finished(e, r) : e \in entries}
         \/ entries' = {Cooled(e) : e \in entries}
  PROVE  Calm
<1> SUFFICES ASSUME NEW d1 \in entries', NEW d2 \in entries'
             PROVE  \E e1, e2 \in entries :
                      /\ d1.staff = e1.staff /\ d2.staff = e2.staff
                      /\ d1.fresh => e1.fresh
                      /\ d2.fresh => e2.fresh
                      /\ e1 = e2 => d1 = d2
  BY DEF Calm
<1>1. CASE entries' = {Finished(e, r) : e \in entries}
  <2>1. PICK e1 \in entries, e2 \in entries : d1 = Finished(e1, r) /\ d2 = Finished(e2, r)
    BY <1>1
  <2> QED
    BY <2>1, RewrittenIs
<1>2. CASE entries' = {Cooled(e) : e \in entries}
  <2>1. PICK e1 \in entries, e2 \in entries : d1 = Cooled(e1) /\ d2 = Cooled(e2)
    BY <1>2
  <2> QED
    BY <2>1, RewrittenIs
<1> QED
  BY <1>1, <1>2

LEMMA BookCalm ==
  ASSUME RowsInv, NEW r, NEW t \in Sales, Cardinality(Used) + 1 \in 0..MaxSales,
         entries' = {Booked(e, r, t) : e \in entries}
  PROVE  Calm
<1> SUFFICES ASSUME NEW d1 \in entries', NEW d2 \in entries'
             PROVE  \E e1, e2 \in entries :
                      /\ d1.staff = e1.staff /\ d2.staff = e2.staff
                      /\ d1.fresh => e1.fresh
                      /\ d2.fresh => e2.fresh
                      /\ e1 = e2 => d1 = d2
  BY DEF Calm
<1>1. PICK e1 \in entries, e2 \in entries : d1 = Booked(e1, r, t) /\ d2 = Booked(e2, r, t)
  OBVIOUS
<1> QED
  BY <1>1, BookedIs

LEMMA CalmFresh ==
  ASSUME FreshInv, Calm,
         \A v \in Workers : At(v, "sale")' =>
           At(v, "sale") /\ req'[v].staff = req[v].staff /\ holder' = holder
  PROVE  FreshInv'
<1>1. OneFreshEntry'
  <2> SUFFICES ASSUME NEW d1 \in entries', NEW d2 \in entries', d1.fresh, d2.fresh, d1.staff = d2.staff
               PROVE  d1 = d2
    BY DEF OneFreshEntry
  <2>1. PICK e1 \in entries, e2 \in entries :
          /\ d1.staff = e1.staff /\ d2.staff = e2.staff
          /\ e1.fresh /\ e2.fresh
          /\ e1 = e2 => d1 = d2
    BY DEF Calm
  <2> QED
    BY <2>1 DEF FreshInv, OneFreshEntry
<1>2. \A d \in entries' : \E e \in entries : d.staff = e.staff /\ (d.fresh => e.fresh)
  BY DEF Calm
<1> QED
  BY <1>1, <1>2 DEF FreshInv

LEMMA FreshNext == TypeInv /\ FreshInv /\ [Next]_vars => FreshInv'
<1> SUFFICES ASSUME TypeInv, FreshInv, [Next]_vars PROVE FreshInv'
  OBVIOUS
<1>i. RowsInv /\ ReqInv /\ DeskInv
  BY DEF TypeInv
<1>1. ASSUME NEW w \in Workers, RequestStep(w) PROVE FreshInv'
  <2>1. /\ \A v \in Workers \ {w} : req'[v] = req[v]
        /\ At(w, "sale")' => LockMember(w) /\ Goes(w, "sale")
    BY <1>1, RequestSteps DEF Others, Arrives, At
  <2>2. \A v \in Workers \ {w} : At(v, "sale")' => At(v, "sale") /\ req'[v].staff = req[v].staff
    BY <2>1 DEF At, Busy
  <2>3. ASSUME At(w, "sale")' PROVE FreshInv'
    <3>1. /\ At(w, "lock") /\ holder = None /\ entries' = entries
          /\ req'[w].staff = req[w].staff /\ req'[w].pc = "sale"
      BY <2>1, <2>3 DEF LockMember, rows, Goes
    <3>2. /\ holder' = w /\ \A e \in entries : ~(e.staff = req[w].staff /\ e.fresh)
      <4>1. req'[w] # Idle
        BY <2>3 DEF At, Busy
      <4>2. ~Done(w)
        BY <1>i, <4>1, DoneEnds DEF Ends
      <4> QED
        BY <2>1, <2>3, <4>2 DEF LockMember
    <3>3. \A v \in Workers : ~At(v, "sale")
      BY <3>1, DeskAssumption DEF FreshInv
    <3> QED
      BY <2>2, <3>1, <3>2, <3>3 DEF FreshInv, OneFreshEntry
  <2>4. ASSUME NEW t \in Sales, Sell(w, t) PROVE FreshInv'
    <3> DEFINE n == [receipt |-> req[w].subject, staff |-> req[w].staff, amount |-> req[w].amount,
                     status |-> "verified", txn |-> t, fresh |-> TRUE, booked |-> 1]
    <3>1. entries' = entries \cup {n} /\ n.staff = req[w].staff
      BY <2>4 DEF Sell
    <3> HIDE DEF n
    <3>2. At(w, "sale") /\ Ends(w)
      BY <2>4, SellDoes
    <3>3. holder = w /\ \A e \in entries : ~(e.staff = n.staff /\ e.fresh)
      BY <3>1, <3>2 DEF FreshInv
    <3>4. OneFreshEntry'
      BY <3>1, <3>3 DEF FreshInv, OneFreshEntry
    <3>5. \A v \in Workers : ~At(v, "sale")'
      BY <2>2, <3>2, <3>3 DEF Ends, At, Busy, FreshInv
    <3> QED
      BY <3>4, <3>5 DEF FreshInv
  <2>5. ASSUME ~At(w, "sale")', holder' = holder \/ BreakOff(w), Calm PROVE FreshInv'
    <3>1. \A v \in Workers : At(v, "sale")' => v # w
      BY <2>5
    <3>2. \A v \in Workers : At(v, "sale")' => At(v, "sale") /\ req'[v].staff = req[v].staff
      BY <2>2, <3>1
    <3>3. \A v \in Workers : At(v, "sale")' => holder' = holder
      BY <2>5, <3>1, <3>2 DEF BreakOff, FreshInv
    <3> QED
      BY <2>5, <3>2, <3>3, CalmFresh
  <2>6. ASSUME NEW t \in Sales, BookEntry(w, t) PROVE FreshInv'
    <3>1. Calm
      BY <1>i, <2>6, BookEntryDoes, BookCalm, FewerCalm
    <3> QED
      BY <2>3, <2>5, <2>6, <3>1 DEF BookEntry
  <2>7. ASSUME Finish(w) \/ Erase(w) PROVE FreshInv'
    <3>1. Calm
      BY <1>i, <2>7, FinishDoes, EraseDoes, RewriteCalm, FewerCalm
    <3> QED
      BY <2>3, <2>5, <2>7, <3>1 DEF Finish, Erase
  <2>8. ASSUME entries' = entries, holder' = holder \/ BreakOff(w) \/ LockMember(w) PROVE FreshInv'
    <3>1. Calm
      BY <2>8, FewerCalm
    <3>2. ~At(w, "sale")' => holder' = holder \/ BreakOff(w)
      <4> SUFFICES ASSUME ~At(w, "sale")', LockMember(w) PROVE holder' = holder
        BY <2>8
      <4>1. ~Go(w, "sale")
        <5> SUFFICES ASSUME Go(w, "sale") PROVE FALSE
          OBVIOUS
        <5>1. Busy(w)
          BY DEF LockMember, At
        <5>2. Goes(w, "sale")
          BY <1>i, <5>1, GoGoes DEF Pcs
        <5> QED
          BY <5>2, Distinct DEF Goes, At, Busy
      <4> QED
        BY <4>1 DEF LockMember
    <3> QED
      BY <2>3, <2>5, <3>1, <3>2
  <2>9. \/ \E t \in Sales : Sell(w, t) \/ BookEntry(w, t)
        \/ Finish(w) \/ Erase(w)
        \/ entries' = entries /\ (holder' = holder \/ BreakOff(w) \/ LockMember(w))
    BY <1>1 DEF RequestStep, PayStep, OfficeStep, Confirm, Pay, OpenEntry, OpenComplete, Decide, OpenVoid,
                SetKey, ReadKey, DropKey, TakeCode, TakeLogin, TakeReceipt, LockMember, SetStatus, SetReview,
                ReadRemaining, CheckPaid, BreakOff, rows, desk
  <2> QED
    BY <2>4, <2>6, <2>7, <2>8, <2>9
<1>2. ASSUME OtherStep \/ UNCHANGED vars PROVE FreshInv'
  <2>1. entries' = entries /\ holder' = holder /\ req' = req
    BY <1>2 DEF OtherStep, SendCode, SendLogin, LogIn, Expire, Subscribe, Renew, Post, rows, vars
  <2> QED
    BY <2>1, FewerCalm, CalmFresh DEF At, Busy
<1>3. ASSUME NEW t \in Sales, PayCommission(t) PROVE FreshInv'
  <2>1. entries' = entries /\ holder' = holder /\ \A w \in Workers : Notes(w, t)
    BY <1>3, <1>i, PayCommissionDoes DEF PayCommission
  <2>2. \A v \in Workers : At(v, "sale")' => At(v, "sale") /\ req'[v].staff = req[v].staff
    BY <2>1 DEF Notes, At
  <2> QED
    BY <2>1, <2>2, FewerCalm, CalmFresh
<1>4. ASSUME Cool PROVE FreshInv'
  <2>1. Calm
    BY <1>4, <1>i, CoolTypes, RewriteCalm
  <2> QED
    BY <1>4, <2>1, CalmFresh DEF Cool, At, Busy
<1> QED
  BY <1>1, <1>2, <1>3, <1>4, NextIs

----------------------------------------------------------------------------
(* Entries are booked once.                                                  *)

\* Receipts are numbered from 1: the entry without a number is the one left to the manager.
BookInv ==
  /\ \A d, e \in entries : d.receipt = 0 /\ e.receipt = 0 => d = e
  /\ \A e \in entries :
       /\ e.receipt # 0 => e.booked = 1 /\ e.status # "pending"
       /\ e.receipt = 0 /\ 0 \notin rebooked => e.booked <= 1
       /\ e.status = "pending" => e.booked = 0
  /\ \A w \in Workers :
       /\ At(w, "lock") \/ At(w, "sale") => req[w].subject # 0
       /\ At(w, "book") => req[w].subject = 0
  /\ 0 \notin rebooked =>
       \A v, w \in Workers :
         /\ At(v, "book") /\ At(w, "book") => v = w
         /\ At(v, "book") => \A e \in entries : e.receipt = 0 => e.booked = 0

\* The step makes no entry, and books none.
Steady ==
  \A d1, d2 \in entries' : \E e1, e2 \in entries :
    /\ d1.receipt = e1.receipt /\ d1.booked = e1.booked
    /\ d1.status = "pending" => e1.status = "pending"
    /\ d2.receipt = e2.receipt
    /\ e1 = e2 => d1 = d2

LEMMA FewerSteady ==
  ASSUME entries' \subseteq entries
  PROVE  Steady
BY DEF Steady

LEMMA RewriteSteady ==
  ASSUME RowsInv, NEW r,
         \/ entries' = {Finished(e, r) : e \in entries}
         \/ entries' = {Cooled(e) : e \in entries}
  PROVE  Steady
<1> SUFFICES ASSUME NEW d1 \in entries', NEW d2 \in entries'
             PROVE  \E e1, e2 \in entries :
                      /\ d1.receipt = e1.receipt /\ d1.booked = e1.booked
                      /\ d1.status = "pending" => e1.status = "pending"
                      /\ d2.receipt = e2.receipt
                      /\ e1 = e2 => d1 = d2
  BY DEF Steady
<1>1. CASE entries' = {Finished(e, r) : e \in entries}
  <2>1. PICK e1 \in entries, e2 \in entries : d1 = Finished(e1, r) /\ d2 = Finished(e2, r)
    BY <1>1
  <2> QED
    BY <2>1, RewrittenIs
<1>2. CASE entries' = {Cooled(e) : e \in entries}
  <2>1. PICK e1 \in entries, e2 \in entries : d1 = Cooled(e1) /\ d2 = Cooled(e2)
    BY <1>2
  <2> QED
    BY <2>1, RewrittenIs
<1> QED
  BY <1>1, <1>2

LEMMA SteadyBook ==
  ASSUME BookInv, Steady, rebooked' = rebooked,
         \A v \in Workers :
           /\ At(v, "lock")' \/ At(v, "sale")' => req'[v].subject # 0
           /\ At(v, "book")' => At(v, "book") /\ req'[v].subject = req[v].subject
  PROVE  BookInv'
<1>1. ASSUME NEW d \in entries'
      PROVE  \E e \in entries : /\ d.receipt = e.receipt /\ d.booked = e.booked
                                /\ d.status = "pending" => e.status = "pending"
  BY DEF Steady
<1>2. ASSUME NEW d1 \in entries', NEW d2 \in entries', d1.receipt = 0, d2.receipt = 0
      PROVE  d1 = d2
  <2>1. PICK e1 \in entries, e2 \in entries :
          d1.receipt = e1.receipt /\ d2.receipt = e2.receipt /\ (e1 = e2 => d1 = d2)
    BY DEF Steady
  <2> QED
    BY <1>2, <2>1 DEF BookInv
<1>3. ASSUME NEW d \in entries'
      PROVE  /\ d.receipt # 0 => d.booked = 1 /\ d.status # "pending"
             /\ d.receipt = 0 /\ 0 \notin rebooked => d.booked <= 1
             /\ d.status = "pending" => d.booked = 0
  BY <1>1 DEF BookInv
<1>4. ASSUME 0 \notin rebooked
      PROVE  \A v, w \in Workers :
               /\ At(v, "book")' /\ At(w, "book")' => v = w
               /\ At(v, "book")' => \A d \in entries' : d.receipt = 0 => d.booked = 0
  BY <1>1, <1>4 DEF BookInv
<1>5. \A w \in Workers : At(w, "book")' => req'[w].subject = 0
  BY DEF BookInv
<1> QED
  BY <1>2, <1>3, <1>4, <1>5 DEF BookInv

LEMMA BookNext == TypeInv /\ BookInv /\ [Next]_vars => BookInv'
<1> SUFFICES ASSUME TypeInv, BookInv, [Next]_vars PROVE BookInv'
  OBVIOUS
<1>i. RowsInv /\ ReqInv /\ DeskInv
  BY DEF TypeInv
<1>1. ASSUME NEW w \in Workers, RequestStep(w) PROVE BookInv'
  <2>o. \A v \in Workers \ {w} : req'[v] = req[v]
    BY <1>1, RequestSteps DEF Others
  <2>1. At(w, "lock")' \/ At(w, "sale")' => req'[w].subject # 0
    <3>1. CASE At(w, "lock")'
      <4>1. req'[w].subject = receipts + 1 /\ receipts \in Nat
        BY <1>1, <1>i, <3>1, RequestSteps DEF Arrives, At, DeskInv
      <4> QED
        BY <4>1
    <3>2. CASE At(w, "sale")'
      <4>1. At(w, "lock") /\ req'[w].subject = req[w].subject
        BY <1>1, <3>2, RequestSteps DEF Arrives, At, Same, LockMember
      <4> QED
        BY <4>1 DEF BookInv
    <3> QED
      BY <3>1, <3>2
  <2>2. \A v \in Workers : At(v, "lock")' \/ At(v, "sale")' => req'[v].subject # 0
    BY <2>o, <2>1 DEF BookInv, At, Busy
  <2>3. \A v \in Workers \ {w} : At(v, "book")' <=> At(v, "book")
    BY <2>o DEF At, Busy
  <2>4. ASSUME NEW e \in entries, OpenEntry(w, e) PROVE BookInv'
    <3>1. /\ ~Busy(w) /\ entries' = entries /\ e.status = "pending" /\ e.receipt = 0 /\ e.booked = 0
          /\ rebooked' = IF \E v \in Workers : At(v, "book") /\ req[v].subject = e.receipt
                         THEN rebooked \cup {e.receipt} ELSE rebooked
      BY <2>4 DEF OpenEntry, Start, rows, BookInv
    <3>2. At(w, "book")' /\ req'[w].subject = 0
      <4>1. e.receipt \in Nat /\ e.amount \in Amounts /\ None \in Staff \cup {None}
        BY <1>i, EntryIs
      <4>2. Starts(w, "branch_verify", "book", None, e.amount, e.receipt)
        BY <1>i, <2>4, <4>1, StartStarts DEF OpenEntry, Kinds, Pcs
      <4> QED
        BY <3>1, <4>2, Distinct DEF Starts, At, Busy
    <3>3. ASSUME 0 \notin rebooked' PROVE 0 \notin rebooked /\ \A v \in Workers : ~At(v, "book")
      BY <3>1, <3>3 DEF BookInv
    <3>4. \A v \in Workers : At(v, "book")' => req'[v].subject = 0
      BY <2>o, <3>2 DEF BookInv, At, Busy
    <3>5. \A d \in entries : d.receipt = 0 => d.booked = 0
      BY <3>1 DEF BookInv
    <3>6. \A v \in Workers : 0 \notin rebooked' /\ At(v, "book")' => v = w
      BY <2>3, <3>3
    <3>7. 0 \notin rebooked' => 0 \notin rebooked
      BY <3>3
    <3> QED
      BY <2>2, <3>1, <3>4, <3>5, <3>6, <3>7 DEF BookInv
  <2>5. ASSUME ~At(w, "book")', Steady, rebooked' = rebooked PROVE BookInv'
    <3>1. \A v \in Workers : At(v, "book")' => At(v, "book") /\ req'[v].subject = req[v].subject
      BY <2>o, <2>3, <2>5
    <3> QED
      BY <2>2, <2>5, <3>1, SteadyBook
  <2>6. At(w, "book")' => \E e \in entries : OpenEntry(w, e)
    BY <1>1, RequestSteps DEF Arrives, At
  <2>7. ASSUME NEW t \in Sales, Sell(w, t) PROVE BookInv'
    <3> DEFINE n == [receipt |-> req[w].subject, staff |-> req[w].staff, amount |-> req[w].amount,
                     status |-> "verified", txn |-> t, fresh |-> TRUE, booked |-> 1]
    <3>1. /\ entries' = entries \cup {n} /\ n.receipt = req[w].subject /\ n.booked = 1
          /\ n.status = "verified"
      BY <2>7 DEF Sell
    <3> HIDE DEF n
    <3>2. At(w, "sale") /\ Ends(w) /\ rebooked' = rebooked
      BY <2>7, SellDoes DEF Sell
    <3>3. n.receipt # 0
      BY <3>1, <3>2 DEF BookInv
    <3>4. \A v \in Workers : At(v, "book")' => At(v, "book") /\ req'[v].subject = req[v].subject
      BY <2>o, <2>3, <3>2 DEF Ends, At, Busy
    <3> QED
      BY <2>2, <3>1, <3>2, <3>3, <3>4 DEF BookInv
  <2>8. ASSUME NEW t \in Sales, BookEntry(w, t) PROVE BookInv'
    <3>1. At(w, "book") /\ Ends(w) /\ rebooked' = rebooked
      BY <2>8, BookEntryDoes DEF BookEntry
    <3>2. \A v \in Workers : At(v, "book")' => v # w /\ At(v, "book") /\ req'[v].subject = req[v].subject
      BY <2>o, <2>3, <3>1 DEF Ends, At, Busy
    <3>3. CASE entries' = entries
      BY <2>5, <3>1, <3>2, <3>3, FewerSteady
    <3>4. CASE Cardinality(Used) + 1 \in 0..MaxSales /\ entries' = {Booked(e, 0, t) : e \in entries}
      <4>1. ASSUME NEW e \in entries
            PROVE  LET d == Booked(e, 0, t)
                   IN  /\ d.receipt = e.receipt
                       /\ e.receipt = 0 => d.booked = e.booked + 1 /\ d.status = "verified"
                       /\ e.receipt # 0 => d = e
        BY <1>i, <3>4, BookedIs
      <4>2. \A e \in entries : e.receipt = 0 /\ 0 \notin rebooked => e.booked = 0
        BY <3>1 DEF BookInv
      <4>3. ASSUME NEW d \in entries'
            PROVE  /\ d.receipt # 0 => d.booked = 1 /\ d.status # "pending"
                   /\ d.receipt = 0 /\ 0 \notin rebooked => d.booked <= 1
                   /\ d.status = "pending" => d.booked = 0
        <5>1. PICK e \in entries : d = Booked(e, 0, t)
          BY <3>4
        <5> QED
          BY <4>1, <4>2, <5>1 DEF BookInv
      <4>4. ASSUME NEW d1 \in entries', NEW d2 \in entries', d1.receipt = 0, d2.receipt = 0
            PROVE  d1 = d2
        <5>1. PICK e1 \in entries, e2 \in entries : d1 = Booked(e1, 0, t) /\ d2 = Booked(e2, 0, t)
          BY <3>4
        <5> QED
          BY <4>1, <4>4, <5>1 DEF BookInv
      <4>5. 0 \notin rebooked => \A v \in Workers : ~At(v, "book")'
        BY <3>1, <3>2 DEF BookInv
      <4>6. \A v \in Workers : At(v, "book")' => req'[v].subject = 0
        BY <3>2 DEF BookInv
      <4> QED
        BY <2>2, <3>1, <4>3, <4>4, <4>5, <4>6 DEF BookInv
    <3>5. req[w].subject = 0
      BY <3>1 DEF BookInv
    <3> QED
      BY <2>8, <3>3, <3>4, <3>5, BookEntryDoes
  <2>9. ASSUME Finish(w) PROVE BookInv'
    <3>1. Steady /\ ~At(w, "book")' /\ rebooked' = rebooked
      BY <1>i, <2>9, FinishDoes, RewriteSteady DEF Finish, history, Ends, At, Busy
    <3> QED
      BY <2>5, <3>1
  <2>10. ASSUME entries' \subseteq entries, rebooked' = rebooked PROVE BookInv'
    <3>1. CASE At(w, "book")'
      BY <2>4, <2>6, <3>1
    <3>2. CASE ~At(w, "book")'
      BY <2>5, <2>10, <3>2, FewerSteady
    <3> QED
      BY <3>1, <3>2
  <2>11. \/ \E t \in Sales : Sell(w, t) \/ BookEntry(w, t)
         \/ \E e \in entries : OpenEntry(w, e)
         \/ Finish(w)
         \/ entries' \subseteq entries /\ rebooked' = rebooked
    BY <1>1 DEF RequestStep, PayStep, OfficeStep, Confirm, Pay, OpenComplete, Decide, OpenVoid,
                SetKey, ReadKey, DropKey, TakeCode, TakeLogin, TakeReceipt, LockMember, SetStatus, SetReview,
                ReadRemaining, CheckPaid, Erase, BreakOff, rows, desk, history
  <2> QED
    BY <2>4, <2>7, <2>8, <2>9, <2>10, <2>11
<1>2. ASSUME OtherStep \/ UNCHANGED vars PROVE BookInv'
  <2>1. entries' = entries /\ rebooked' = rebooked /\ req' = req
    BY <1>2 DEF OtherStep, SendCode, SendLogin, LogIn, Expire, Subscribe, Renew, Post, rows, vars, history
  <2>2. Steady
    BY <2>1, FewerSteady
  <2> QED
    BY <2>1, <2>2, SteadyBook DEF At, Busy, BookInv
<1>3. ASSUME NEW t \in Sales, PayCommission(t) PROVE BookInv'
  <2>1. entries' = entries /\ rebooked' = rebooked /\ \A w \in Workers : Notes(w, t)
    BY <1>3, <1>i, PayCommissionDoes DEF PayCommission, history
  <2>2. \A v \in Workers, pc \in {"lock", "sale", "book"} :
          At(v, pc)' => At(v, pc) /\ req'[v].subject = req[v].subject
    BY <2>1 DEF Notes, At
  <2>3. Steady
    BY <2>1, FewerSteady
  <2> QED
    BY <2>1, <2>2, <2>3, SteadyBook DEF BookInv
<1>4. ASSUME Cool PROVE BookInv'
  <2>1. Steady
    BY <1>4, <1>i, CoolTypes, RewriteSteady
  <2> QED
    BY <1>4, <2>1, SteadyBook DEF Cool, At, Busy, BookInv, history
<1> QED
  BY <1>1, <1>2, <1>3, <1>4, NextIs


----------------------------------------------------------------------------
(* Decisions and their reviews.                                              *)

Decides(w, t) == Busy(w) /\ req[w].kind \in {"verify", "reject"} /\ req[w].subject = t

\* One request decides on t; before it and after it the review says what was decided, and
\* between its writes the status is what it is about to say.
Agreed(t) ==
  /\ \A v, w \in Workers : Decides(v, t) /\ Decides(w, t) => v = w
  /\ (\A w \in Workers : Decides(w, t) => req[w].pc # "review") =>
       (review[t] # None => (review[t] = "rejected" <=> txn[t].status = "failed"))
  /\ \A w \in Workers : Decides(w, t) /\ req[w].pc = "review" =>
       txn[t].status = IF req[w].kind = "verify" THEN "success" ELSE "failed"
ReviewInv == \A t \in Rows \ contested : Agreed(t)

\* The step neither decides on t nor leaves a decision on it half made.
Leaves(v, t) ==
  /\ Decides(v, t)' => Decides(v, t) /\ req'[v].pc = req[v].pc /\ req'[v].kind = req[v].kind
  /\ Decides(v, t) /\ req[v].pc = "review" => Decides(v, t)'

LEMMA LeavesAgreed ==
  ASSUME NEW t \in Sales, Agreed(t), txn'[t] = txn[t], review'[t] = review[t],
         \A v \in Workers : Leaves(v, t)
  PROVE  Agreed(t)'
<1>1. \A v, w \in Workers : Decides(v, t)' /\ Decides(w, t)' => v = w
  BY DEF Agreed, Leaves
<1>2. (\A w \in Workers : Decides(w, t)' => req'[w].pc # "review") =>
        \A w \in Workers : Decides(w, t) => req[w].pc # "review"
  BY DEF Leaves
<1>3. \A w \in Workers : Decides(w, t)' /\ req'[w].pc = "review" =>
        txn'[t].status = IF req'[w].kind = "verify" THEN "success" ELSE "failed"
  BY DEF Agreed, Leaves
<1> QED
  BY <1>1, <1>2, <1>3 DEF Agreed

\* A row that was not there, and that nobody decides on.
LEMMA NewAgreed ==
  ASSUME NEW t \in Sales, ReqInv, t \notin Used, review'[t] = None,
         \A v \in Workers : Decides(v, t)' => Decides(v, t)
  PROVE  Agreed(t)'
<1>1. \A v \in Workers : ~Decides(v, t)
  BY DEF Decides, ReqInv, Shape
<1> QED
  BY <1>1 DEF Agreed

LEMMA ReviewNext == TypeInv /\ ReviewInv /\ [Next]_vars => ReviewInv'
<1> SUFFICES ASSUME TypeInv, ReviewInv, [Next]_vars PROVE ReviewInv'
  OBVIOUS
<1>i. RowsInv /\ ReqInv /\ DeskInv /\ TypeInv'
  BY TypeNext DEF TypeInv
<1>s. Rows \subseteq Sales /\ Rows' \subseteq Sales
  BY DEF Rows, Used
<1>1. ASSUME NEW w \in Workers, RequestStep(w) PROVE ReviewInv'
  <2>o. \A v \in Workers \ {w} : req'[v] = req[v]
    BY <1>1, RequestSteps DEF Others
  <2>l. \A v \in Workers \ {w}, t \in Sales : Leaves(v, t) /\ (Decides(v, t)' <=> Decides(v, t))
    BY <2>o DEF Leaves, Decides, Busy
  <2>p. ASSUME NEW t \in Sales, Decides(w, t)'
        PROVE  \/ SetStatus(w) /\ Goes(w, "review") /\ Same(w) /\ Decides(w, t)
               \/ /\ \E kind \in {"verify", "reject"} : Decide(w, kind, t)
                  /\ ~Busy(w) /\ req'[w].pc = "status"
    <3>1. req'[w].pc \in {"status", "review"}
      BY <1>i, <2>p DEF TypeInv, ReqInv, Shape, Stage, Decides
    <3>2. ASSUME req'[w].pc = "status"
          PROVE  \E u \in Sales, kind \in {"verify", "reject"} :
                   Decide(w, kind, u) /\ ~Busy(w) /\ req'[w].kind = kind /\ req'[w].subject = u
      BY <1>1, <2>p, <3>2, RequestSteps DEF Arrives, Decides
    <3>3. ASSUME req'[w].pc = "review" PROVE SetStatus(w) /\ Goes(w, "review") /\ Same(w)
      BY <1>1, <2>p, <3>3, RequestSteps DEF Arrives, Decides
    <3>4. SetStatus(w) => Busy(w)
      BY DEF SetStatus, At
    <3> QED
      BY <2>p, <3>1, <3>2, <3>3, <3>4 DEF Goes, Same, Decides
  <2>1. ASSUME NEW u \in Sales, NEW kind \in {"verify", "reject"}, Decide(w, kind, u)
        PROVE  ReviewInv'
    <3>1. UNCHANGED rows /\ ~Busy(w) /\ ~SetStatus(w)
      BY <2>1 DEF Decide, Start, SetStatus, At
    <3>2. ASSUME NEW t \in Rows' \ contested' PROVE Agreed(t)'
      <4>1. /\ t \in Rows \ contested /\ t \in Sales /\ txn'[t] = txn[t] /\ review'[t] = review[t]
        BY <2>1, <3>1, <3>2, <1>s DEF Rows, Used, rows, Decide, Contest
      <4>2. CASE Decides(w, t)'
        <5>1. \E k \in {"verify", "reject"} : Decide(w, k, t)
          BY <2>p, <3>1, <4>1, <4>2
        <5>2. ~Deciding(t) /\ req'[w].pc = "status"
          BY <2>p, <3>1, <3>2, <4>1, <4>2, <5>1 DEF Decide, Contest
        <5>3. \A v \in Workers : ~Decides(v, t)
          BY <5>2 DEF Deciding, Decides
        <5> QED
          BY <2>l, <3>1, <4>1, <5>2, <5>3 DEF Agreed, ReviewInv
      <4>3. CASE ~Decides(w, t)'
        <5>1. Leaves(w, t)
          BY <3>1, <4>3 DEF Leaves, Decides
        <5> QED
          BY <2>l, <4>1, <5>1, LeavesAgreed DEF ReviewInv
      <4> QED
        BY <4>2, <4>3
    <3> QED
      BY <3>2 DEF ReviewInv
  <2>2. ASSUME SetStatus(w) PROVE ReviewInv'
    <3>1. At(w, "status") /\ review' = review /\ contested' = contested
      BY <2>2 DEF SetStatus
    <3>2. ASSUME NEW t \in Rows' \ contested' PROVE Agreed(t)'
      <4>0. t \in Sales
        BY <1>s
      <4>1. CASE req[w].subject \in Rows /\ Goes(w, "review") /\ Same(w)
                 /\ Restated(req[w].subject, IF req[w].kind = "verify" THEN "success" ELSE "failed")
        <5>1. CASE t = req[w].subject
          <6>1. /\ Decides(w, t) /\ Agreed(t)
                /\ txn'[t].status = IF req[w].kind = "verify" THEN "success" ELSE "failed"
            BY <2>2, <3>1, <3>2, <4>1, <5>1, SetStatusDoes DEF Restated, Decides, At, ReviewInv
          <6>2. req'[w].pc = "review" /\ req'[w].kind = req[w].kind /\ Decides(w, t)'
            BY <4>1, <6>1, Distinct DEF Goes, Same, Decides, Busy
          <6>3. \A v \in Workers : Decides(v, t)' => v = w
            BY <2>l, <4>0, <6>1 DEF Agreed
          <6> QED
            BY <6>1, <6>2, <6>3 DEF Agreed
        <5>2. CASE t # req[w].subject
          <6>1. txn'[t] = txn[t] /\ t \in Rows
            BY <4>0, <4>1, <5>2 DEF Restated, Rows
          <6>2. Leaves(w, t)
            BY <4>1, <5>2 DEF Leaves, Decides, Same
          <6> QED
            BY <2>l, <3>1, <3>2, <4>0, <6>1, <6>2, LeavesAgreed DEF ReviewInv
        <5> QED
          BY <5>1, <5>2
      <4>2. CASE req[w].subject \notin Rows /\ txn' = txn /\ Ends(w)
        <5>1. t \in Rows
          BY <4>2 DEF Rows, Used
        <5>2. Leaves(w, t)
          BY <4>2, <5>1 DEF Leaves, Decides, Ends, Busy
        <5> QED
          BY <2>l, <3>1, <3>2, <4>0, <4>2, <5>1, <5>2, LeavesAgreed DEF ReviewInv
      <4> QED
        BY <2>2, <4>1, <4>2, SetStatusDoes
    <3> QED
      BY <3>2 DEF ReviewInv
  <2>3. ASSUME SetReview(w) PROVE ReviewInv'
    <3>1. At(w, "review") /\ txn' = txn /\ contested' = contested /\ Ends(w)
      BY <2>3, SetReviewDoes DEF SetReview, history
    <3>2. ASSUME NEW t \in Rows' \ contested' PROVE Agreed(t)'
      <4>1. t \in Sales /\ t \in Rows /\ Agreed(t) /\ ~Decides(w, t)'
        BY <1>s, <3>1, <3>2 DEF Rows, Used, ReviewInv, Ends, Decides, Busy
      <4>2. CASE t = req[w].subject
        <5>1. /\ Decides(w, t) /\ req[w].kind \in {"verify", "reject"}
              /\ review'[t] = IF req[w].kind = "verify" THEN "verified" ELSE "rejected"
          BY <2>3, <4>1, <4>2, SetReviewDoes DEF Decides, At
        <5>2. txn'[t].status = IF req[w].kind = "verify" THEN "success" ELSE "failed"
          BY <3>1, <4>1, <5>1 DEF Agreed, At
        <5>3. \A v \in Workers : ~Decides(v, t)'
          BY <2>l, <4>1, <5>1 DEF Agreed
        <5> QED
          BY <5>1, <5>2, <5>3 DEF Agreed
      <4>3. CASE t # req[w].subject
        <5>1. review'[t] = review[t] /\ Leaves(w, t)
          BY <2>3, <4>1, <4>3, SetReviewDoes DEF Leaves, Decides
        <5> QED
          BY <2>l, <3>1, <4>1, <5>1, LeavesAgreed
      <4> QED
        BY <4>2, <4>3
    <3> QED
      BY <3>2 DEF ReviewInv
  <2>4. ASSUME BreakOff(w) PROVE ReviewInv'
    <3>1. UNCHANGED rows /\ Ends(w) /\ Busy(w)
      BY <1>i, <2>4, DoneEnds DEF BreakOff
    <3>2. ASSUME NEW t \in Rows' \ contested' PROVE Agreed(t)'
      <4>1. t \in Sales /\ t \in Rows \ contested /\ txn'[t] = txn[t] /\ review'[t] = review[t]
        BY <1>s, <2>4, <3>1, <3>2 DEF Rows, Used, rows, BreakOff
      <4>2. ~(Decides(w, t) /\ req[w].pc = "review") /\ ~Decides(w, t)'
        BY <2>4, <3>1, <3>2 DEF BreakOff, Decides, At, Ends, Busy
      <4> QED
        BY <2>l, <4>1, <4>2, LeavesAgreed DEF Leaves, ReviewInv
    <3> QED
      BY <3>2 DEF ReviewInv
  \* The other steps make no decision.
  <2>5. ASSUME contested' = contested, ~At(w, "review"), ~SetStatus(w),
               \A u \in Sales : ~Decide(w, "verify", u) /\ ~Decide(w, "reject", u),
               \A t \in Rows' : \/ t \in Rows /\ txn'[t] = txn[t] /\ review'[t] = review[t]
                                \/ t \notin Used /\ review'[t] = None
        PROVE  ReviewInv'
    <3>1. ASSUME NEW t \in Rows' \ contested' PROVE Agreed(t)'
      <4>1. t \in Sales /\ ~Decides(w, t)'
        BY <1>s, <2>p, <2>5
      <4>2. Leaves(w, t)
        BY <2>5, <4>1 DEF Leaves, Decides, At
      <4>3. CASE t \in Rows /\ txn'[t] = txn[t] /\ review'[t] = review[t]
        BY <2>l, <2>5, <4>1, <4>2, <4>3, LeavesAgreed DEF ReviewInv
      <4>4. CASE t \notin Used /\ review'[t] = None
        BY <1>i, <2>l, <4>1, <4>4, NewAgreed
      <4> QED
        BY <2>5, <4>3, <4>4
    <3> QED
      BY <3>1 DEF ReviewInv
  <2>6. ASSUME NEW t \in Sales, Sell(w, t) \/ BookEntry(w, t) PROVE ReviewInv'
    <3>1. /\ contested' = contested /\ ~At(w, "review") /\ ~SetStatus(w) /\ review' = review
          /\ \A u \in Sales : ~Decide(w, "verify", u) /\ ~Decide(w, "reject", u)
      BY <2>6 DEF Sell, BookEntry, At, SetStatus, Decide, Start, Record
    <3>2. \A u \in Rows' : \/ u \in Rows /\ txn'[u] = txn[u] /\ review'[u] = review[u]
                           \/ u \notin Used /\ review'[u] = None
      <4>1. CASE \E s : Recorded(t, s)
        BY <1>s, <3>1, <4>1 DEF Recorded, Rows
      <4>2. CASE txn' = txn
        BY <3>1, <4>2 DEF Rows, Used
      <4> QED
        BY <2>6, <4>1, <4>2, SellDoes, BookEntryDoes
    <3> QED
      BY <2>5, <3>1, <3>2
  <2>7. ASSUME Erase(w) PROVE ReviewInv'
    <3>1. /\ contested' = contested /\ ~At(w, "review") /\ ~SetStatus(w)
          /\ \A u \in Sales : ~Decide(w, "verify", u) /\ ~Decide(w, "reject", u)
      BY <2>7 DEF Erase, At, SetStatus, Decide, Start, history
    <3>2. \A u \in Rows' : u \in Rows /\ txn'[u] = txn[u] /\ review'[u] = review[u]
      BY <1>s, <2>7, EraseDoes DEF Restated, Rows
    <3> QED
      BY <2>5, <3>1, <3>2
  <2>8. ASSUME \/ \E s \in Staff : Confirm(w, s) \/ \E a \in Amounts : Pay(w, s, a)
               \/ \E e \in entries : OpenEntry(w, e) \/ OpenComplete(w, e)
               \/ \E t \in Sales : OpenVoid(w, t)
               \/ SetKey(w) \/ ReadKey(w) \/ DropKey(w) \/ TakeCode(w) \/ TakeLogin(w) \/ TakeReceipt(w) \/ LockMember(w)
               \/ ReadRemaining(w) \/ CheckPaid(w) \/ Finish(w)
        PROVE  ReviewInv'
    <3>1. contested' = contested /\ txn' = txn /\ review' = review
      BY <2>8 DEF Confirm, Pay, OpenEntry, OpenComplete, OpenVoid, SetKey, ReadKey, DropKey, TakeCode, TakeLogin,
                  TakeReceipt, LockMember, ReadRemaining, CheckPaid, Finish, rows, history
    <3>2. /\ ~At(w, "review") /\ ~SetStatus(w)
      BY <2>8 DEF Confirm, Pay, OpenEntry, OpenComplete, OpenVoid, SetKey, ReadKey, DropKey, TakeCode, TakeLogin,
                  TakeReceipt, LockMember, ReadRemaining, CheckPaid, Finish, At, SetStatus, Start
    <3>3. \A u \in Rows' : u \in Rows
      BY <3>1 DEF Rows, Used
    <3>4. CASE \E u \in Sales : Decide(w, "verify", u) \/ Decide(w, "reject", u)
      BY <2>1, <3>4
    <3>5. CASE \A u \in Sales : ~Decide(w, "verify", u) /\ ~Decide(w, "reject", u)
      BY <2>5, <3>1, <3>2, <3>3, <3>5
    <3> QED
      BY <3>4, <3>5
  <2> QED
    BY <1>1, <2>1, <2>2, <2>3, <2>4, <2>6, <2>7, <2>8 DEF RequestStep, PayStep, OfficeStep
\* The steps of no request.
<1>2. ASSUME contested' = contested, \A v \in Workers, t \in Sales : Leaves(v, t),
             \A t \in Rows' : \/ t \in Rows /\ txn'[t] = txn[t] /\ review'[t] = review[t]
                              \/ t \notin Used /\ review'[t] = None
      PROVE  ReviewInv'
  <2>1. ASSUME NEW t \in Rows' \ contested' PROVE Agreed(t)'
    <3>1. CASE t \in Rows /\ txn'[t] = txn[t] /\ review'[t] = review[t]
      BY <1>2, <1>s, <3>1, LeavesAgreed DEF ReviewInv
    <3>2. CASE t \notin Used /\ review'[t] = None
      <4>1. \A v \in Workers : Decides(v, t)' => Decides(v, t)
        BY <1>2, <1>s DEF Leaves
      <4> QED
        BY <1>i, <1>s, <3>2, <4>1, NewAgreed
    <3> QED
      BY <1>2, <3>1, <3>2
  <2> QED
    BY <2>1 DEF ReviewInv
<1>3. ASSUME OtherStep \/ Cool \/ UNCHANGED vars PROVE ReviewInv'
  <2>1. contested' = contested /\ req' = req /\ review' = review
    BY <1>3 DEF OtherStep, SendCode, SendLogin, LogIn, Expire, Subscribe, Renew, Post, Cool, rows, vars, history
  <2>2. \A v \in Workers, t \in Sales : Leaves(v, t)
    BY <2>1 DEF Leaves, Decides, Busy
  <2>3. CASE \E t \in Sales : \E a \in Amounts : Subscribe(t, a) \/ Renew(t, a)
    <3>1. PICK t \in Sales : Recorded(t, None)
      BY <1>i, <2>3, SubscribeDoes DEF TypeInv
    <3>2. \A u \in Rows' : \/ u \in Rows /\ txn'[u] = txn[u] /\ review'[u] = review[u]
                           \/ u \notin Used /\ review'[u] = None
      BY <1>s, <2>1, <3>1 DEF Recorded, Rows
    <3> QED
      BY <1>2, <2>1, <2>2, <3>2
  <2>4. CASE \E t \in Sales : \E a \in Amounts : Post(t, a)
    <3>1. PICK t \in Sales : /\ t \notin Used /\ Used' = Used \cup {t} /\ review[t] = None
                             /\ \A u \in Sales \ {t} : txn'[u] = txn[u]
      BY <2>4, PostDoes
    <3>2. \A u \in Rows' : \/ u \in Rows /\ txn'[u] = txn[u] /\ review'[u] = review[u]
                           \/ u \notin Used /\ review'[u] = None
      BY <1>s, <2>1, <3>1 DEF Rows
    <3> QED
      BY <1>2, <2>1, <2>2, <3>2
  <2>5. CASE txn' = txn
    BY <1>2, <2>1, <2>2, <2>5 DEF Rows, Used
  <2> QED
    BY <1>3, <2>3, <2>4, <2>5 DEF OtherStep, SendCode, SendLogin, LogIn, Expire, Cool, rows, vars
<1>4. ASSUME NEW t \in Sales, PayCommission(t) PROVE ReviewInv'
  <2>1. contested' = contested /\ txn' = txn /\ review' = review
    BY <1>4 DEF PayCommission, history
  <2>2. \A v \in Workers, u \in Sales : Leaves(v, u)
    BY <1>4, <1>i, PayCommissionDoes DEF Notes, Leaves, Decides
  <2> QED
    BY <1>2, <2>1, <2>2 DEF Rows, Used
<1> QED
  BY <1>1, <1>3, <1>4, NextIs


----------------------------------------------------------------------------
(* Codes and the sales they were given for.                                  *)

\* The sales made for s, the requests that hold a confirmation of s and have not sold yet,
\* and whether there is one in the cache, or just read from it.
Counted(s) == {t \in Used : txn[t].staff = s}
Claims(s) == {w \in Workers : Busy(w) /\ req[w].pc \in {"setkey", "receipt", "lock", "sale"}
                               /\ req[w].staff = s}
Reads(w, s) == At(w, "drop") /\ req[w].staff = s
Marked(s) == s \in confirmed \/ \E w \in Workers : Reads(w, s)
One(p) == IF p THEN 1 ELSE 0

Covered(s) ==
  /\ \A v, w \in Workers : Reads(v, s) /\ Reads(w, s) => v = w
  /\ Cardinality(Counted(s)) + Cardinality(Claims(s)) + One(Marked(s)) <= given[s]
CodeInv == \A s \in Staff \ shared : Covered(s)

LEMMA CountedIs ==
  ASSUME TypeInv, NEW s
  PROVE  /\ IsFiniteSet(Counted(s)) /\ Cardinality(Counted(s)) \in Nat
         /\ IsFiniteSet(Claims(s)) /\ Cardinality(Claims(s)) \in Nat
<1>1. IsFiniteSet(Counted(s))
  BY UsedIs, FS_Subset DEF TypeInv, Counted
<1>2. IsFiniteSet(Claims(s))
  BY DeskAssumption, FS_Subset DEF Claims
<1> QED
  BY <1>1, <1>2, FS_CardinalityType

\* A step of w changes what w claims at most.
LEMMA ClaimsStep ==
  ASSUME TypeInv, NEW w \in Workers, Others(w), NEW s
  PROVE  /\ w \in Claims(s)' /\ w \notin Claims(s) => Cardinality(Claims(s)') = Cardinality(Claims(s)) + 1
         /\ w \notin Claims(s)' /\ w \in Claims(s) => Cardinality(Claims(s)') = Cardinality(Claims(s)) - 1
         /\ (w \in Claims(s)' <=> w \in Claims(s)) => Claims(s)' = Claims(s)
         /\ Cardinality(Claims(s)') \in Nat
<1>1. \A v \in Workers \ {w} : v \in Claims(s)' <=> v \in Claims(s)
  BY DEF Others, Claims, Busy
<1>2. Claims(s) \subseteq Workers /\ Claims(s)' \subseteq Workers /\ IsFiniteSet(Claims(s))
  BY CountedIs DEF Claims
<1>3. ASSUME w \in Claims(s)', w \notin Claims(s) PROVE Claims(s)' = Claims(s) \cup {w}
  BY <1>1, <1>2, <1>3
<1>4. ASSUME w \notin Claims(s)', w \in Claims(s) PROVE Claims(s)' = Claims(s) \ {w}
  BY <1>1, <1>2, <1>4
<1>5. ASSUME w \in Claims(s)' <=> w \in Claims(s) PROVE Claims(s)' = Claims(s)
  BY <1>1, <1>2, <1>5
<1>6. Cardinality(Claims(s)') \in Nat
  BY <1>2, DeskAssumption, FS_Subset, FS_CardinalityType
<1> QED
  BY <1>2, <1>3, <1>4, <1>5, <1>6, FS_AddElement, FS_RemoveElement

\* A step that takes no confirmation for s.
LEMMA QuietCovered ==
  ASSUME TypeInv, NEW s \in Staff, Covered(s), Counted(s)' = Counted(s), given'[s] = given[s],
         s \in confirmed' => s \in confirmed,
         NEW w \in Workers, Others(w), w \in Claims(s)' => w \in Claims(s), Reads(w, s)' => Reads(w, s)
  PROVE  Covered(s)'
<1>1. \A v \in Workers : Reads(v, s)' => Reads(v, s)
  BY DEF Others, Reads, At, Busy
<1>2. \A v, u \in Workers : Reads(v, s)' /\ Reads(u, s)' => v = u
  BY <1>1 DEF Covered
<1>3. One(Marked(s))' <= One(Marked(s)) /\ One(Marked(s)) \in Nat /\ One(Marked(s))' \in Nat
  BY <1>1 DEF One, Marked
<1>4. Cardinality(Claims(s)') <= Cardinality(Claims(s)) /\ Cardinality(Claims(s)') \in Nat
  BY CountedIs, ClaimsStep DEF Others
<1>5. Cardinality(Counted(s)) \in Nat /\ Cardinality(Claims(s)) \in Nat /\ given[s] \in Nat
  BY CountedIs DEF TypeInv, DeskInv
<1> QED
  BY <1>2, <1>3, <1>4, <1>5 DEF Covered

LEMMA CountedStep ==
  ASSUME TypeInv, NEW t \in Sales, NEW s
  PROVE  /\ txn' = txn => Counted(s)' = Counted(s)
         /\ \A x : Restated(t, x) => Counted(s)' = Counted(s)
         /\ \A u : Recorded(t, u) => Counted(s)' = IF u = s THEN Counted(s) \cup {t} ELSE Counted(s)
         /\ t \notin Counted(s) \/ t \in Used
<1>1. txn' = txn => Counted(s)' = Counted(s)
  BY DEF Counted, Used
<1>2. ASSUME NEW x, Restated(t, x) PROVE Counted(s)' = Counted(s)
  <2>1. \A u \in Used : txn'[u].staff = txn[u].staff
    BY <1>2 DEF Restated, Used
  <2> QED
    BY <1>2, <2>1 DEF Restated, Counted
<1>3. ASSUME NEW u, Recorded(t, u)
      PROVE  Counted(s)' = IF u = s THEN Counted(s) \cup {t} ELSE Counted(s)
  <2>1. /\ t \notin Used /\ Used' = Used \cup {t} /\ txn'[t].staff = u
        /\ \A v \in Used : txn'[v].staff = txn[v].staff
    BY <1>3 DEF Recorded, Used
  <2> QED
    BY <2>1 DEF Counted
<1> QED
  BY <1>1, <1>2, <1>3 DEF Counted

LEMMA CodeNext == TypeInv /\ CodeInv /\ [Next]_vars => CodeInv'
<1> SUFFICES ASSUME TypeInv, CodeInv, [Next]_vars PROVE CodeInv'
  OBVIOUS
<1>i. RowsInv /\ ReqInv /\ DeskInv
  BY DEF TypeInv
<1>n. given \in [Staff -> Nat] /\ None \notin Staff
  BY <1>i, DeskAssumption DEF DeskInv
<1>1. ASSUME NEW w \in Workers, RequestStep(w) PROVE CodeInv'
  <2>o. Others(w) /\ Arrives(w)
    BY <1>1, RequestSteps
  <2>c. ASSUME NEW s, w \in Claims(s)'
        PROVE  \/ w \in Claims(s)
               \/ Confirm(w, s)
               \/ (DropKey(w) \/ TakeCode(w) \/ TakeLogin(w)) /\ Goes(w, "receipt") /\ req[w].staff = s
    <3>1. Busy(w)' /\ req'[w].staff = s /\ req'[w].pc \in {"setkey", "receipt", "lock", "sale"}
      BY <2>c DEF Claims
    <3>2. CASE req'[w].pc = "setkey"
      BY <2>o, <3>1, <3>2 DEF Arrives
    <3>3. CASE req'[w].pc = "receipt"
      BY <2>o, <3>1, <3>3 DEF Arrives, Goes
    <3>4. CASE req'[w].pc = "lock"
      BY <2>o, <3>1, <3>4 DEF Arrives, Goes, TakeReceipt, At, Claims
    <3>5. CASE req'[w].pc = "sale"
      BY <2>o, <3>1, <3>5 DEF Arrives, Goes, LockMember, At, Claims
    <3> QED
      BY <3>1, <3>2, <3>3, <3>4, <3>5
  <2>r. \A s : Reads(w, s)' => ReadKey(w) /\ Goes(w, "drop") /\ req[w].staff = s
    BY <2>o DEF Arrives, Reads, At, Goes
  \* A step that takes no confirmation.
  <2>q. ASSUME NEW s \in Staff, Covered(s), Counted(s)' = Counted(s), given'[s] = given[s],
               s \in confirmed' => s \in confirmed,
               ~Confirm(w, s), ~((DropKey(w) \/ TakeCode(w) \/ TakeLogin(w)) /\ req[w].staff = s /\ Goes(w, "receipt")),
               ~(ReadKey(w) /\ req[w].staff = s)
        PROVE  Covered(s)'
    BY <2>o, <2>c, <2>r, <2>q, QuietCovered
  <2>1. ASSUME NEW u \in Staff, Confirm(w, u) PROVE CodeInv'
    <3>1. /\ txn' = txn /\ confirmed' = confirmed /\ shared' = shared
          /\ ~Busy(w) /\ given' = [given EXCEPT ![u] = @ + 1]
          /\ Starts(w, "confirm", "setkey", u, 0, 0)
      <4>1. 0 \in Nat /\ 0 \in Amounts \cup {0} /\ u \in Staff \cup {None}
        OBVIOUS
      <4> QED
        BY <1>i, <2>1, <4>1, StartStarts DEF Confirm, Start, rows, Kinds, Pcs
    <3>2. ASSUME NEW s \in Staff \ shared' PROVE Covered(s)'
      <4>1. Covered(s) /\ Counted(s)' = Counted(s)
        BY <3>1, <3>2 DEF CodeInv, Counted, Used
      <4>2. CASE s = u
        <5>1. w \in Claims(s)' /\ w \notin Claims(s) /\ ~Reads(w, s)' /\ ~Reads(w, s)
          BY <3>1, <4>2, Distinct DEF Claims, Starts, Busy, Reads, At
        <5>2. Cardinality(Claims(s)') = Cardinality(Claims(s)) + 1
          BY <2>o, <5>1, ClaimsStep
        <5>3. \A v \in Workers : Reads(v, s)' <=> Reads(v, s)
          BY <2>o, <5>1 DEF Reads, Others, At, Busy
        <5>4. Marked(s)' <=> Marked(s)
          BY <3>1, <5>3 DEF Marked
        <5>5. given'[s] = given[s] + 1 /\ given[s] \in Nat
          BY <1>n, <3>1, <4>2
        <5>6. One(Marked(s))' = One(Marked(s)) /\ One(Marked(s)) \in Nat
          BY <5>4 DEF One
        <5>7. Cardinality(Counted(s)) \in Nat /\ Cardinality(Claims(s)) \in Nat
          BY CountedIs
        <5> QED
          BY <4>1, <5>2, <5>3, <5>5, <5>6, <5>7 DEF Covered
      <4>3. CASE s # u
        <5>1. given'[s] = given[s]
          BY <1>n, <3>1, <4>3
        <5>2. w \notin Claims(s)' /\ ~Reads(w, s)'
          BY <3>1, <4>3 DEF Claims, Starts, Reads, At
        <5> QED
          BY <2>o, <3>1, <4>1, <5>1, <5>2, QuietCovered
      <4> QED
        BY <4>2, <4>3
    <3> QED
      BY <3>2 DEF CodeInv
  <2>2. ASSUME SetKey(w) PROVE CodeInv'
    <3>1. /\ txn' = txn /\ given' = given /\ shared' = shared /\ At(w, "setkey") /\ Ends(w)
          /\ confirmed' = confirmed \cup {req[w].staff}
      BY <1>i, <2>2, DoneEnds DEF SetKey, rows, history
    <3>2. ASSUME NEW s \in Staff \ shared' PROVE Covered(s)'
      <4>1. Covered(s) /\ Counted(s)' = Counted(s)
        BY <3>1, <3>2 DEF CodeInv, Counted, Used
      <4>2. w \notin Claims(s)' /\ ~Reads(w, s)'
        BY <3>1 DEF Ends, Claims, Busy, Reads, At
      <4>3. CASE s = req[w].staff
        <5>1. w \in Claims(s)
          BY <3>1, <4>3 DEF Claims, At
        <5>2. Cardinality(Claims(s)') = Cardinality(Claims(s)) - 1
          BY <2>o, <4>2, <5>1, ClaimsStep
        <5>3. \A v \in Workers : Reads(v, s)' => Reads(v, s)
          BY <2>o, <4>2 DEF Reads, Others, At, Busy
        <5>4. One(Marked(s))' <= One(Marked(s)) + 1 /\ One(Marked(s)) \in Nat /\ One(Marked(s))' \in Nat
          BY DEF One
        <5>7. Cardinality(Counted(s)) \in Nat /\ Cardinality(Claims(s)) \in Nat /\ given[s] \in Nat
          BY <1>n, CountedIs
        <5> QED
          BY <3>1, <4>1, <5>2, <5>3, <5>4, <5>7 DEF Covered
      <4>4. CASE s # req[w].staff
        BY <2>o, <3>1, <4>1, <4>2, <4>4, QuietCovered
      <4> QED
        BY <4>3, <4>4
    <3> QED
      BY <3>2 DEF CodeInv
  <2>3. ASSUME ReadKey(w) PROVE CodeInv'
    <3>1. /\ txn' = txn /\ given' = given /\ confirmed' = confirmed /\ At(w, "key")
          /\ shared' = IF \E v \in Workers : At(v, "drop") /\ req[v].staff = req[w].staff
                       THEN shared \cup {req[w].staff} ELSE shared
      BY <2>3 DEF ReadKey, rows, desk
    <3>2. ASSUME NEW s \in Staff \ shared' PROVE Covered(s)'
      <4>1. Covered(s) /\ Counted(s)' = Counted(s)
        BY <3>1, <3>2 DEF CodeInv, Counted, Used
      <4>2. w \notin Claims(s)' /\ ~Reads(w, s)
        BY <2>c, <2>3, <3>1 DEF At, Claims, Confirm, Start, DropKey, TakeCode, TakeLogin, Reads
      <4>3. CASE Reads(w, s)'
        <5>1. req[w].staff = s /\ \A v \in Workers : ~Reads(v, s)
          BY <2>r, <3>1, <3>2, <4>3 DEF Reads
        <5>2. s \in confirmed
          <6>1. Go(w, IF s \in confirmed THEN "drop" ELSE "code") /\ Busy(w)
            BY <2>3, <5>1 DEF ReadKey, At
          <6>2. ASSUME s \notin confirmed PROVE FALSE
            <7>1. Goes(w, "code")
              BY <1>i, <6>1, <6>2, GoGoes DEF Pcs
            <7> QED
              BY <4>3, <7>1 DEF Goes, Reads, At
          <6> QED
            BY <6>2
        <5>3. \A v \in Workers : Reads(v, s)' => v = w
          BY <2>o, <5>1 DEF Reads, Others, At, Busy
        <5>4. One(Marked(s))' = One(Marked(s))
          BY <3>1, <5>2 DEF One, Marked
        <5>5. Cardinality(Claims(s)') <= Cardinality(Claims(s)) /\ Cardinality(Claims(s)') \in Nat
          BY <2>o, <4>2, ClaimsStep, CountedIs
        <5>6. /\ Cardinality(Counted(s)) \in Nat /\ Cardinality(Claims(s)) \in Nat /\ given[s] \in Nat
              /\ One(Marked(s)) \in Nat
          BY <1>n, CountedIs DEF One
        <5> QED
          BY <3>1, <4>1, <5>3, <5>4, <5>5, <5>6 DEF Covered
      <4>4. CASE ~Reads(w, s)'
        BY <2>o, <3>1, <4>1, <4>2, <4>4, QuietCovered
      <4> QED
        BY <4>3, <4>4
    <3> QED
      BY <3>2 DEF CodeInv
  <2>4. ASSUME DropKey(w) PROVE CodeInv'
    <3>1. /\ txn' = txn /\ given' = given /\ shared' = shared /\ At(w, "drop") /\ Goes(w, "receipt")
          /\ confirmed' = confirmed \ {req[w].staff}
      <4>1. Go(w, "receipt") /\ Busy(w)
        BY <2>4 DEF DropKey, At
      <4> QED
        BY <1>i, <2>4, <4>1, GoGoes DEF DropKey, rows, history, Pcs
    <3>2. ASSUME NEW s \in Staff \ shared' PROVE Covered(s)'
      <4>1. Covered(s) /\ Counted(s)' = Counted(s)
        BY <3>1, <3>2 DEF CodeInv, Counted, Used
      <4>2. ~Reads(w, s)'
        BY <3>1 DEF Goes, Reads, At
      <4>3. CASE s = req[w].staff
        <5>1. w \notin Claims(s) /\ w \in Claims(s)' /\ Reads(w, s)
          BY <3>1, <4>3, Distinct DEF Claims, At, Goes, Busy, Reads
        <5>2. Cardinality(Claims(s)') = Cardinality(Claims(s)) + 1
          BY <2>o, <5>1, ClaimsStep
        <5>3. \A v \in Workers : ~Reads(v, s)'
          BY <2>o, <4>1, <4>2, <5>1 DEF Reads, Others, At, Busy, Covered
        <5>4. One(Marked(s))' = 0 /\ One(Marked(s)) = 1
          BY <3>1, <4>3, <5>1, <5>3 DEF One, Marked
        <5>5. /\ Cardinality(Counted(s)) \in Nat /\ Cardinality(Claims(s)) \in Nat /\ given[s] \in Nat
          BY <1>n, CountedIs
        <5> QED
          BY <3>1, <4>1, <5>2, <5>3, <5>4, <5>5 DEF Covered
      <4>4. CASE s # req[w].staff
        <5>1. w \notin Claims(s)'
          BY <3>1, <4>4 DEF Claims, Goes
        <5> QED
          BY <2>o, <3>1, <4>1, <4>2, <5>1, QuietCovered
      <4> QED
        BY <4>3, <4>4
    <3> QED
      BY <3>2 DEF CodeInv
  <2>5. ASSUME TakeCode(w) \/ TakeLogin(w) PROVE CodeInv'
    <3>1. /\ txn' = txn /\ confirmed' = confirmed /\ shared' = shared
          /\ At(w, "code") \/ At(w, "login")
      BY <2>5 DEF TakeCode, TakeLogin, rows
    <3>2. \/ Goes(w, "receipt") /\ given' = [given EXCEPT ![req[w].staff] = @ + 1]
          \/ Goes(w, "login") /\ given' = given
          \/ Ends(w) /\ given' = given
      <4>1. Busy(w) /\ {"receipt", "login"} \subseteq Pcs
        BY <3>1 DEF At, Pcs
      <4>2. \/ Go(w, "receipt") /\ given' = [given EXCEPT ![req[w].staff] = @ + 1]
            \/ Go(w, "login") /\ given' = given
            \/ Done(w) /\ given' = given
        BY <2>5 DEF TakeCode, TakeLogin
      <4> QED
        BY <1>i, <4>1, <4>2, GoGoes, DoneEnds
    <3>3. ASSUME NEW s \in Staff \ shared' PROVE Covered(s)'
      <4>1. Covered(s) /\ Counted(s)' = Counted(s)
        BY <3>1, <3>3 DEF CodeInv, Counted, Used
      <4>2. ~Reads(w, s)' /\ ~Reads(w, s)
        BY <3>1, <3>2 DEF Goes, Ends, Reads, At, Busy
      <4>3. CASE s = req[w].staff /\ Goes(w, "receipt") /\ given' = [given EXCEPT ![req[w].staff] = @ + 1]
        <5>1. w \notin Claims(s) /\ w \in Claims(s)'
          BY <3>1, <4>3, Distinct DEF Claims, At, Goes, Busy
        <5>2. Cardinality(Claims(s)') = Cardinality(Claims(s)) + 1
          BY <2>o, <5>1, ClaimsStep
        <5>3. \A v \in Workers : Reads(v, s)' <=> Reads(v, s)
          BY <2>o, <4>2 DEF Reads, Others, At, Busy
        <5>4. One(Marked(s))' = One(Marked(s)) /\ One(Marked(s)) \in Nat
          BY <3>1, <5>3 DEF One, Marked
        <5>5. Cardinality(Counted(s)) \in Nat /\ Cardinality(Claims(s)) \in Nat /\ given[s] \in Nat
          BY <1>n, CountedIs
        <5>6. given'[s] = given[s] + 1
          BY <1>n, <4>3
        <5> QED
          BY <4>1, <5>2, <5>3, <5>4, <5>5, <5>6 DEF Covered
      <4>4. CASE s # req[w].staff /\ Goes(w, "receipt") /\ given' = [given EXCEPT ![req[w].staff] = @ + 1]
        <5>1. w \notin Claims(s)' /\ given'[s] = given[s]
          BY <1>n, <4>4 DEF Claims, Goes
        <5> QED
          BY <2>o, <3>1, <4>1, <4>2, <5>1, QuietCovered
      <4>5. CASE (Goes(w, "login") \/ Ends(w)) /\ given' = given
        <5>1. w \notin Claims(s)'
          BY <4>5 DEF Goes, Ends, Claims, Busy
        <5> QED
          BY <2>o, <3>1, <4>1, <4>2, <4>5, <5>1, QuietCovered
      <4> QED
        BY <3>2, <4>3, <4>4, <4>5
    <3> QED
      BY <3>3 DEF CodeInv
  <2>6. ASSUME NEW t \in Sales, Sell(w, t) PROVE CodeInv'
    <3>1. At(w, "sale") /\ Recorded(t, req[w].staff) /\ Ends(w)
      BY <2>6, SellDoes
    <3>2. given' = given /\ shared' = shared /\ confirmed' = confirmed
      BY <2>6 DEF Sell, desk
    <3>3. ASSUME NEW s \in Staff \ shared' PROVE Covered(s)'
      <4>1. Covered(s) /\ w \notin Claims(s)' /\ ~Reads(w, s)' /\ ~Reads(w, s)
        BY <3>1, <3>2, <3>3 DEF CodeInv, Ends, Claims, Busy, Reads, At
      <4>2. CASE s = req[w].staff
        <5>1. w \in Claims(s)
          BY <3>1, <4>2 DEF Claims, At
        <5>2. Cardinality(Claims(s)') = Cardinality(Claims(s)) - 1
          BY <2>o, <4>1, <5>1, ClaimsStep
        <5>3. Counted(s)' = Counted(s) \cup {t} /\ t \notin Counted(s)
          <6>1. t \notin Used
            BY <3>1 DEF Recorded
          <6> QED
            BY <3>1, <4>2, <6>1, CountedStep
        <5>4. Cardinality(Counted(s)') = Cardinality(Counted(s)) + 1
          BY <5>3, CountedIs, FS_AddElement
        <5>5. \A v \in Workers : Reads(v, s)' <=> Reads(v, s)
          BY <2>o, <4>1 DEF Reads, Others, At, Busy
        <5>6. One(Marked(s))' = One(Marked(s)) /\ One(Marked(s)) \in Nat
          BY <3>2, <5>5 DEF One, Marked
        <5>7. Cardinality(Counted(s)) \in Nat /\ Cardinality(Claims(s)) \in Nat /\ given[s] \in Nat
          BY <1>n, CountedIs
        <5> QED
          BY <3>2, <4>1, <5>2, <5>4, <5>5, <5>6, <5>7 DEF Covered
      <4>3. CASE s # req[w].staff
        <5>1. Counted(s)' = Counted(s)
          BY <3>1, <4>3, CountedStep
        <5> QED
          BY <2>o, <3>2, <4>1, <5>1, QuietCovered
      <4> QED
        BY <4>2, <4>3
    <3> QED
      BY <3>3 DEF CodeInv
  \* The other steps take no confirmation, and make no sale for anybody.
  <2>7. ASSUME given' = given, shared' = shared, confirmed' = confirmed,
               \A s \in Staff : Counted(s)' = Counted(s)
        PROVE  CodeInv'
    <3>1. CASE (\E u \in Staff : Confirm(w, u)) \/ DropKey(w) \/ TakeCode(w) \/ TakeLogin(w) \/ ReadKey(w)
      BY <2>1, <2>3, <2>4, <2>5, <3>1
    <3>2. CASE ~((\E u \in Staff : Confirm(w, u)) \/ DropKey(w) \/ TakeCode(w) \/ TakeLogin(w) \/ ReadKey(w))
      BY <2>q, <2>7, <3>2 DEF CodeInv
    <3> QED
      BY <3>1, <3>2
  <2>8. ASSUME NEW t \in Sales, BookEntry(w, t) PROVE CodeInv'
    <3>1. given' = given /\ shared' = shared /\ confirmed' = confirmed
      BY <2>8 DEF BookEntry, desk
    <3>2. \A s \in Staff : Counted(s)' = Counted(s)
      BY <1>n, <2>8, BookEntryDoes, CountedStep
    <3> QED
      BY <2>7, <3>1, <3>2
  <2>9. ASSUME SetStatus(w) \/ Erase(w) PROVE CodeInv'
    <3>1. given' = given /\ shared' = shared /\ confirmed' = confirmed
      BY <2>9 DEF SetStatus, Erase, desk, history
    <3>2. req[w].subject \in Sales
      BY <1>i, <2>9, SetStatusDoes, EraseDoes, UsedIs
    <3>3. txn' = txn \/ \E x : Restated(req[w].subject, x)
      BY <2>9, SetStatusDoes, EraseDoes
    <3>4. \A s \in Staff : Counted(s)' = Counted(s)
      BY <3>2, <3>3, CountedStep
    <3> QED
      BY <2>7, <3>1, <3>4
  <2>10. ASSUME txn' = txn, given' = given, shared' = shared, confirmed' = confirmed PROVE CodeInv'
    BY <2>7, <2>10 DEF Counted, Used
  <2>11. \/ \E s \in Staff : Confirm(w, s)
         \/ SetKey(w) \/ ReadKey(w) \/ DropKey(w) \/ TakeCode(w) \/ TakeLogin(w)
         \/ \E t \in Sales : Sell(w, t) \/ BookEntry(w, t)
         \/ SetStatus(w) \/ Erase(w)
         \/ UNCHANGED <<txn, given, shared, confirmed>>
    BY <1>1 DEF RequestStep, PayStep, OfficeStep, Pay, OpenEntry, OpenComplete, Decide, OpenVoid,
                TakeReceipt, LockMember, SetReview, ReadRemaining, CheckPaid, Finish, BreakOff,
                rows, desk, history
  <2> QED
    BY <2>1, <2>2, <2>3, <2>4, <2>5, <2>6, <2>8, <2>9, <2>10, <2>11
\* The steps of no request.
<1>2. ASSUME given' = given, shared' = shared, confirmed' \subseteq confirmed,
             \A s \in Staff : Counted(s)' = Counted(s) /\ Claims(s)' = Claims(s),
             \A v \in Workers, s \in Staff : Reads(v, s)' <=> Reads(v, s)
      PROVE  CodeInv'
  <2>1. ASSUME NEW s \in Staff \ shared PROVE Covered(s)'
    <3>1. One(Marked(s))' <= One(Marked(s)) /\ One(Marked(s)) \in Nat /\ One(Marked(s))' \in Nat
      BY <1>2 DEF One, Marked
    <3>2. Cardinality(Counted(s)) \in Nat /\ Cardinality(Claims(s)) \in Nat /\ given[s] \in Nat
      BY <1>n, CountedIs
    <3>3. Covered(s)
      BY DEF CodeInv
    <3> QED
      BY <1>2, <3>1, <3>2, <3>3 DEF Covered
  <2> QED
    BY <1>2, <2>1 DEF CodeInv
<1>3. ASSUME OtherStep \/ Cool \/ UNCHANGED vars PROVE CodeInv'
  <2>1. given' = given /\ shared' = shared /\ confirmed' \subseteq confirmed /\ req' = req
    BY <1>3 DEF OtherStep, SendCode, SendLogin, LogIn, Expire, Subscribe, Renew, Post, Cool, rows, desk, vars, history
  <2>2. /\ \A s \in Staff : Claims(s)' = Claims(s)
        /\ \A v \in Workers, s \in Staff : Reads(v, s)' <=> Reads(v, s)
    BY <2>1 DEF Claims, Reads, At, Busy
  <2>3. CASE \E t \in Sales : \E a \in Amounts : Subscribe(t, a) \/ Renew(t, a)
    <3>1. PICK t \in Sales : Recorded(t, None)
      BY <2>3, SubscribeDoes
    <3> QED
      BY <1>2, <1>n, <2>1, <2>2, <3>1, CountedStep
  <2>4. CASE \E t \in Sales : \E a \in Amounts : Post(t, a)
    <3>1. PICK t \in Sales : /\ t \notin Used /\ Used' = Used \cup {t} /\ txn'[t].staff = None
                             /\ \A u \in Sales \ {t} : txn'[u] = txn[u]
      BY <2>4, PostDoes
    <3>2. \A s \in Staff : Counted(s)' = Counted(s)
      BY <1>i, <1>n, <3>1, UsedIs DEF Counted
    <3> QED
      BY <1>2, <2>1, <2>2, <3>2
  <2>5. CASE txn' = txn
    BY <1>2, <2>1, <2>2, <2>5 DEF Counted, Used
  <2> QED
    BY <1>3, <2>3, <2>4, <2>5 DEF OtherStep, SendCode, SendLogin, LogIn, Expire, Cool, rows, vars
<1>4. ASSUME NEW t \in Sales, PayCommission(t) PROVE CodeInv'
  <2>1. given' = given /\ shared' = shared /\ confirmed' = confirmed /\ txn' = txn
    BY <1>4 DEF PayCommission, history, desk
  <2>2. \A v \in Workers : Notes(v, t)
    BY <1>4, <1>i, PayCommissionDoes
  <2>3. /\ \A s \in Staff : Claims(s)' = Claims(s)
        /\ \A v \in Workers, s \in Staff : Reads(v, s)' <=> Reads(v, s)
    BY <2>2 DEF Notes, Claims, Reads, At
  <2> QED
    BY <1>2, <2>1, <2>3 DEF Counted, Used
<1> QED
  BY <1>1, <1>3, <1>4, NextIs


----------------------------------------------------------------------------
(* What is sold stays in the plan.                                           *)

Planned(t) == txn[t].sold
Stands(t) == t \in Successes /\ Planned(t)

\* No plan was recorded with a pending row; the office verifies no other. The sales a void
\* did not see when it looked for the last one were made, or decided on, since.
PlanInv ==
  /\ \A t \in Used : txn[t].status = "pending" => ~Planned(t)
  /\ \A w \in Workers, t \in Used :
       Busy(w) /\ req[w].kind = "verify" /\ req[w].subject = t => ~Planned(t)
  /\ \A w \in Workers : (At(w, "check") \/ At(w, "erase")) /\ req[w].last =>
       \A t \in Sales \ {req[w].subject} : Stands(t) => t \in squeezed
  /\ \A t \in Sales : Stands(t) => t \in squeezed \/ t \in plan

\* What every step leaves as it is.
Keeps ==
  /\ \A t \in Used : /\ t \in Used' /\ (Planned(t)' <=> Planned(t))
                     /\ txn'[t].status = "pending" => txn[t].status = "pending"
  /\ \A t \in Used' \ Used : txn'[t].status = "pending" => ~Planned(t)'

\* Who stands after a step stood before it, or was sold by it.
Sold(t) == t \in plan' /\ (Voids # {} => t \in squeezed')
Grows ==
  /\ squeezed \subseteq squeezed'
  /\ \A t \in Sales : Stands(t)' => Stands(t) \/ Sold(t)

LEMMA StillIs ==
  ASSUME txn' = txn, squeezed \subseteq squeezed'
  PROVE  Keeps /\ Grows
BY DEF Keeps, Grows, Used, Stands, Successes, Rows, Planned

LEMMA RecordedIs ==
  ASSUME TypeInv, NEW t \in Sales, NEW s, Recorded(t, s)
  PROVE  Keeps /\ Grows /\ plan \subseteq plan'
<1>1. /\ t \notin Used /\ Used' = Used \cup {t} /\ \A u \in Sales \ {t} : txn'[u] = txn[u]
      /\ txn'[t].status = "success" /\ plan' = plan \cup {t}
      /\ squeezed' = IF Voids # {} THEN squeezed \cup {t} ELSE squeezed
  BY DEF Recorded
<1>2. Used \subseteq Sales
  BY DEF Used
<1>3. Keeps
  BY <1>1, <1>2 DEF Keeps, Planned
<1>4. Grows
  BY <1>1, <1>2 DEF Grows, Stands, Sold, Successes, Rows, Planned
<1> QED
  BY <1>1, <1>3, <1>4

LEMMA PostIs ==
  ASSUME TypeInv, NEW t \in Sales, NEW a \in Amounts, Post(t, a)
  PROVE  Keeps /\ Grows /\ plan' = plan
<1>1. /\ t \notin Used /\ Used' = Used \cup {t} /\ \A u \in Sales \ {t} : txn'[u] = txn[u]
      /\ txn'[t].sold = FALSE
  BY PostDoes
<1>2. Used \subseteq Sales
  BY DEF Used
<1>3. plan' = plan /\ squeezed' = squeezed
  BY DEF Post, history
<1> QED
  BY <1>1, <1>2, <1>3 DEF Keeps, Grows, Stands, Successes, Rows, Planned

LEMMA RestatedIs ==
  ASSUME TypeInv, NEW t \in Used, NEW x \in {"success", "failed", "gone"}, Restated(t, x),
         squeezed \subseteq squeezed', x = "success" => ~Planned(t)
  PROVE  Keeps /\ Grows /\ (x = "gone" => ~Stands(t)')
<1>1. Used' = Used /\ txn'[t].status = x /\ txn'[t].sold = txn[t].sold
  BY DEF Restated
<1>2. \A u \in Used \ {t} : txn'[u] = txn[u]
  BY DEF Restated, Used
<1>3. Keeps
  BY <1>1, <1>2 DEF Keeps, Planned
<1>4. \A u \in Used : Stands(u)' => Stands(u)
  BY <1>1, <1>2 DEF Stands, Successes, Rows, Planned
<1>5. \A u \in Sales : Stands(u)' => u \in Used
  BY <1>1 DEF Stands, Successes, Rows
<1> QED
  BY <1>1, <1>3, <1>4, <1>5 DEF Grows, Stands, Successes, Rows

LEMMA StepGrows ==
  ASSUME TypeInv, PlanInv, [Next]_vars
  PROVE  Keeps /\ Grows /\ (plan \subseteq plan' \/ \E w \in Workers : Erase(w) /\ req[w].last)
<1>i. RowsInv /\ ReqInv /\ DeskInv
  BY DEF TypeInv
<1> DEFINE G == Keeps /\ Grows /\ (plan \subseteq plan' \/ \E w \in Workers : Erase(w) /\ req[w].last)
<1>1. ASSUME NEW w \in Workers, RequestStep(w) PROVE G
  <2>1. ASSUME NEW t \in Sales, Sell(w, t) \/ BookEntry(w, t) PROVE G
    <3>1. CASE \E s : Recorded(t, s)
      BY <3>1, RecordedIs
    <3>2. CASE UNCHANGED <<plan, txn, squeezed>>
      BY <3>2, StillIs
    <3> QED
      BY <2>1, <3>1, <3>2, SellDoes, BookEntryDoes
  <2>2. ASSUME SetStatus(w) PROVE G
    <3>1. plan' = plan /\ squeezed \subseteq squeezed'
      BY <2>2 DEF SetStatus
    <3>2. /\ req[w].kind = "verify" => ~Planned(req[w].subject)
          /\ req[w].kind \in {"verify", "reject"}
      BY <2>2, SetStatusDoes DEF PlanInv, At
    <3>3. CASE Restated(req[w].subject, IF req[w].kind = "verify" THEN "success" ELSE "failed")
      <4>1. req[w].subject \in Used
        BY <2>2, SetStatusDoes
      <4> QED
        BY <3>1, <3>2, <3>3, <4>1, RestatedIs
    <3>4. CASE txn' = txn
      BY <3>1, <3>4, StillIs
    <3> QED
      BY <2>2, <3>3, <3>4, SetStatusDoes
  <2>3. ASSUME Erase(w) PROVE G
    <3>1. squeezed' = squeezed /\ (~req[w].last => plan' = plan)
      BY <2>3, EraseDoes DEF Erase, history
    <3>2. Keeps /\ Grows
      <4>1. req[w].subject \in Used /\ Restated(req[w].subject, "gone")
        BY <2>3, EraseDoes
      <4> QED
        BY <3>1, <4>1, RestatedIs
    <3> QED
      BY <2>3, <3>1, <3>2
  <2>4. \/ \E t \in Sales : Sell(w, t) \/ BookEntry(w, t)
        \/ SetStatus(w) \/ Erase(w)
        \/ txn' = txn /\ plan' = plan /\ squeezed \subseteq squeezed'
    BY <1>1 DEF RequestStep, PayStep, OfficeStep, Confirm, Pay, OpenEntry, OpenComplete, Decide, OpenVoid,
                SetKey, ReadKey, DropKey, TakeCode, TakeLogin, TakeReceipt, LockMember, SetReview, ReadRemaining,
                CheckPaid, Finish, BreakOff, rows, desk, history
  <2> QED
    BY <2>1, <2>2, <2>3, <2>4, StillIs
<1>2. ASSUME OtherStep PROVE G
  <2>1. CASE \E t \in Sales : \E a \in Amounts : Subscribe(t, a) \/ Renew(t, a)
    BY <2>1, SubscribeDoes, RecordedIs
  <2>2. CASE \E t \in Sales : \E a \in Amounts : Post(t, a)
    BY <2>2, PostIs
  <2>3. CASE SendLogin \/ LogIn \/ \E s \in Staff : SendCode(s) \/ Expire(s)
    BY <2>3, StillIs DEF SendCode, SendLogin, LogIn, Expire, rows, history
  <2> QED
    BY <1>2, <2>1, <2>2, <2>3 DEF OtherStep
<1>3. ASSUME Cool \/ UNCHANGED vars \/ \E t \in Sales : PayCommission(t) PROVE G
  BY <1>3, StillIs DEF Cool, PayCommission, vars, rows, history
<1> QED
  BY <1>1, <1>2, <1>3, NextIs

\* A void that has looked has looked already, or looks now.
LEMMA VoidStep ==
  ASSUME TypeInv, [Next]_vars, NEW w \in Workers, At(w, "check")' \/ At(w, "erase")', req'[w].last
  PROVE  /\ req'[w].subject = req[w].subject /\ w \in Voids
         /\ \/ (At(w, "check") \/ At(w, "erase")) /\ req[w].last
            \/ ReadRemaining(w) /\ \A t \in Sales \ {req[w].subject} : ~Stands(t)'
<1>i. ReqInv
  BY DEF TypeInv
<1> DEFINE G == /\ req'[w].subject = req[w].subject /\ Busy(w)
                /\ \/ (At(w, "check") \/ At(w, "erase")) /\ req[w].last
                   \/ ReadRemaining(w) /\ \A t \in Sales \ {req[w].subject} : ~Stands(t)'
<1>1. ASSUME NEW v \in Workers, RequestStep(v) PROVE G
  <2>1. CASE v # w
    BY <1>1, <2>1, RequestSteps DEF Others, At, Busy
  <2>2. CASE v = w /\ At(w, "check")'
    <3>1. /\ ReadRemaining(w) /\ req'[w].subject = req[w].subject
          /\ req'[w].last = (Successes \ {req[w].subject} = {})
      BY <1>1, <2>2, RequestSteps DEF Arrives, At
    <3>2. txn' = txn /\ Busy(w)
      BY <3>1 DEF ReadRemaining, rows, At
    <3>3. Successes' = Successes
      BY <3>2 DEF Successes, Rows, Used
    <3> QED
      BY <3>1, <3>2, <3>3 DEF Stands
  <2>3. CASE v = w /\ At(w, "erase")'
    <3>1. CheckPaid(w) /\ req'[w].subject = req[w].subject /\ req'[w].last = req[w].last
      BY <1>1, <2>3, RequestSteps DEF Arrives, At
    <3> QED
      BY <3>1 DEF CheckPaid, At
  <2> QED
    BY <2>1, <2>2, <2>3
<1>2. ASSUME NEW t \in Sales, PayCommission(t) PROVE G
  <2>1. Notes(w, t)
    BY <1>i, <1>2, PayCommissionDoes
  <2> QED
    BY <2>1 DEF Notes, At
<1>3. ASSUME OtherStep \/ Cool \/ UNCHANGED vars PROVE G
  <2>1. req' = req
    BY <1>3 DEF OtherStep, SendCode, SendLogin, LogIn, Expire, Subscribe, Renew, Post, Cool, vars
  <2> QED
    BY <2>1 DEF At, Busy
<1>4. G
  BY <1>1, <1>2, <1>3, NextIs
<1>5. w \in Voids
  <2>1. At(w, "check") \/ At(w, "erase") \/ At(w, "remaining")
    BY <1>4 DEF ReadRemaining
  <2> QED
    BY <1>i, <2>1, StageIs DEF At, Voids
<1> QED
  BY <1>4, <1>5

LEMMA PlanNext == TypeInv /\ PlanInv /\ [Next]_vars => PlanInv'
<1> SUFFICES ASSUME TypeInv, PlanInv, [Next]_vars PROVE PlanInv'
  OBVIOUS
<1>i. RowsInv /\ ReqInv /\ DeskInv /\ ReqInv'
  BY TypeNext DEF TypeInv
<1>g. Keeps /\ Grows /\ (plan \subseteq plan' \/ \E w \in Workers : Erase(w) /\ req[w].last)
  BY StepGrows
<1>1. \A t \in Used' : txn'[t].status = "pending" => ~Planned(t)'
  BY <1>g DEF Keeps, PlanInv
<1>2. ASSUME NEW w \in Workers, Busy(w)', req'[w].kind = "verify"
      PROVE  \E u \in Used : req'[w].subject = u /\ ~Planned(u)
  <2>1. \/ Busy(w) /\ req[w].kind = "verify" /\ req'[w].subject = req[w].subject
        \/ Decide(w, "verify", req'[w].subject) /\ req'[w].subject \in Used
    <3>1. ASSUME NEW v \in Workers, RequestStep(v), v # w
          PROVE  Busy(w) /\ req[w].kind = "verify" /\ req'[w].subject = req[w].subject
      BY <1>2, <3>1, RequestSteps DEF Others, Busy
    <3>2. ASSUME RequestStep(w)
          PROVE  \/ Busy(w) /\ req[w].kind = "verify" /\ req'[w].subject = req[w].subject
                 \/ Decide(w, "verify", req'[w].subject) /\ req'[w].subject \in Used
      <4>1. req'[w].pc \in {"status", "review"}
        BY <1>i, <1>2 DEF ReqInv, Shape, Stage
      <4>2. CASE req'[w].pc = "status"
        BY <1>2, <3>2, <4>2, RequestSteps DEF Arrives, Decide, Rows
      <4>3. CASE req'[w].pc = "review"
        BY <1>2, <3>2, <4>3, RequestSteps DEF Arrives, Goes, Same, SetStatus, At
      <4> QED
        BY <4>1, <4>2, <4>3
    <3>3. ASSUME NEW t \in Sales, PayCommission(t)
          PROVE  Busy(w) /\ req[w].kind = "verify" /\ req'[w].subject = req[w].subject
      <4>1. Notes(w, t)
        BY <1>i, <3>3, PayCommissionDoes
      <4> QED
        BY <1>2, <4>1 DEF Notes
    <3>4. ASSUME OtherStep \/ Cool \/ UNCHANGED vars
          PROVE  Busy(w) /\ req[w].kind = "verify" /\ req'[w].subject = req[w].subject
      <4>1. req' = req
        BY <3>4 DEF OtherStep, SendCode, SendLogin, LogIn, Expire, Subscribe, Renew, Post, Cool, vars
      <4> QED
        BY <1>2, <4>1 DEF Busy
    <3> QED
      BY <3>1, <3>2, <3>3, <3>4, NextIs
  <2>2. CASE Busy(w) /\ req[w].kind = "verify" /\ req'[w].subject = req[w].subject
    BY <1>i, <2>2 DEF PlanInv, ReqInv, Shape
  <2>3. CASE Decide(w, "verify", req'[w].subject) /\ req'[w].subject \in Used
    BY <2>3 DEF PlanInv, Decide
  <2> QED
    BY <2>1, <2>2, <2>3
<1>3. ASSUME NEW w \in Workers, At(w, "check")' \/ At(w, "erase")', req'[w].last,
             NEW t \in Sales \ {req'[w].subject}, Stands(t)'
      PROVE  t \in squeezed'
  <2>1. /\ t # req[w].subject /\ Voids # {}
        /\ \/ (At(w, "check") \/ At(w, "erase")) /\ req[w].last
           \/ \A u \in Sales \ {req[w].subject} : ~Stands(u)'
    BY <1>3, VoidStep
  <2>2. (At(w, "check") \/ At(w, "erase")) /\ req[w].last
    BY <1>3, <2>1
  <2>3. Stands(t) => t \in squeezed
    BY <2>1, <2>2 DEF PlanInv
  <2> QED
    BY <1>3, <1>g, <2>1, <2>3 DEF Grows, Sold
<1>4. ASSUME NEW t \in Sales, Stands(t)' PROVE t \in squeezed' \/ t \in plan'
  <2>1. CASE plan \subseteq plan'
    BY <1>4, <1>g, <2>1 DEF Grows, Sold, PlanInv
  <2>2. ASSUME NEW w \in Workers, Erase(w), req[w].last PROVE t \in squeezed'
    <3>1. At(w, "erase") /\ req[w].subject \in Used /\ Restated(req[w].subject, "gone")
          /\ squeezed' = squeezed
      BY <2>2, EraseDoes DEF Erase, history
    <3>2. PICK u \in Used : u = req[w].subject
      BY <3>1
    <3>3. t # req[w].subject /\ Stands(t)
      <4>1. t # req[w].subject
        BY <1>4, <3>1, <3>2, RestatedIs
      <4>2. txn'[t] = txn[t] /\ Used' = Used
        BY <3>1, <4>1 DEF Restated
      <4> QED
        BY <1>4, <4>1, <4>2 DEF Stands, Successes, Rows, Planned
    <3> QED
      BY <2>2, <3>1, <3>3 DEF PlanInv
  <2> QED
    BY <1>g, <2>1, <2>2
<1>5. \A w \in Workers, t \in Used' :
        Busy(w)' /\ req'[w].kind = "verify" /\ req'[w].subject = t => ~Planned(t)'
  BY <1>g, <1>2 DEF Keeps
<1> QED
  BY <1>1, <1>3, <1>4, <1>5 DEF PlanInv

----------------------------------------------------------------------------
(* Commissions that were paid out.                                           *)

\* Without a plan nothing is earned; a void that takes the plan knows what was paid since
\* it looked.
PaidInv ==
  /\ plan = {} => \A t \in Sales : commission[t] = None
  /\ \A w \in Workers : At(w, "erase") /\ req[w].last =>
       \A t \in Sales : commission[t] = "paid" => t \in req[w].paid

\* The steps at commissions.
LEMMA CommissionStep ==
  ASSUME TypeInv, [Next]_vars
  PROVE  \/ commission' = commission /\ plan' = plan
         \/ /\ \E t \in Sales : commission[t] = None /\ commission' = [commission EXCEPT ![t] = "pending"]
            /\ plan' # {}
         \/ \E t \in Sales : PayCommission(t)
         \/ \E w \in Workers : Erase(w)
<1> DEFINE C == \/ commission' = commission /\ plan' = plan
                \/ /\ \E t \in Sales : commission[t] = None /\ commission' = [commission EXCEPT ![t] = "pending"]
                   /\ plan' # {}
                \/ \E t \in Sales : PayCommission(t)
                \/ \E w \in Workers : Erase(w)
<1>r. ASSUME NEW t \in Sales, NEW s, Recorded(t, s) PROVE C
  BY <1>r DEF Recorded
<1>1. ASSUME NEW w \in Workers, RequestStep(w) PROVE C
  <2>1. ASSUME NEW t \in Sales, Sell(w, t) \/ BookEntry(w, t) PROVE C
    BY <1>r, <2>1, SellDoes, BookEntryDoes
  <2>2. \/ \E t \in Sales : Sell(w, t) \/ BookEntry(w, t)
        \/ Erase(w)
        \/ commission' = commission /\ plan' = plan
    BY <1>1 DEF RequestStep, PayStep, OfficeStep, Confirm, Pay, OpenEntry, OpenComplete, Decide, OpenVoid,
                SetKey, ReadKey, DropKey, TakeCode, TakeLogin, TakeReceipt, LockMember, SetReview, ReadRemaining,
                SetStatus, CheckPaid, Finish, BreakOff, rows
  <2> QED
    BY <2>1, <2>2
<1>2. ASSUME OtherStep \/ Cool \/ UNCHANGED vars PROVE C
  <2>1. CASE \E t \in Sales : \E a \in Amounts : Subscribe(t, a) \/ Renew(t, a)
    BY <1>r, <2>1, SubscribeDoes
  <2>2. CASE UNCHANGED <<commission, plan>>
    BY <2>2
  <2> QED
    BY <1>2, <2>1, <2>2 DEF OtherStep, SendCode, SendLogin, LogIn, Expire, Post, Cool, rows, vars
<1> QED
  BY <1>1, <1>2, NextIs

LEMMA PaidNext == TypeInv /\ PaidInv /\ [Next]_vars => PaidInv'
<1> SUFFICES ASSUME TypeInv, PaidInv, [Next]_vars PROVE PaidInv'
  OBVIOUS
<1>i. RowsInv /\ ReqInv /\ DeskInv
  BY DEF TypeInv
<1>c. commission \in [Sales -> {None, "pending", "paid"}] /\ None # "paid" /\ None # "pending"
  BY <1>i DEF RowsInv, None
<1>1. ASSUME plan' = {} PROVE \A t \in Sales : commission'[t] = None
  <2>1. CASE commission' = commission /\ plan' = plan
    BY <1>1, <2>1 DEF PaidInv
  <2>2. ASSUME NEW t \in Sales, PayCommission(t) PROVE FALSE
    BY <1>1, <1>c, <2>2 DEF PayCommission, PaidInv
  <2>3. ASSUME NEW w \in Workers, Erase(w) PROVE \A t \in Sales : commission'[t] = None
    BY <1>1, <2>3, EraseDoes DEF PaidInv
  <2> QED
    BY <1>1, <2>1, <2>2, <2>3, CommissionStep
\* What is paid after a step was paid before it, or is paid by it.
<1>2. ASSUME NEW t \in Sales, commission'[t] = "paid" PROVE commission[t] = "paid" \/ PayCommission(t)
  <2>1. CASE commission' = commission
    BY <1>2, <2>1
  <2>2. ASSUME NEW u \in Sales, commission' = [commission EXCEPT ![u] = "pending"]
        PROVE  commission[t] = "paid"
    BY <1>2, <1>c, <2>2
  <2>3. ASSUME NEW u \in Sales, PayCommission(u) PROVE commission[t] = "paid" \/ PayCommission(t)
    BY <1>2, <1>c, <2>3 DEF PayCommission
  <2>4. ASSUME NEW w \in Workers, Erase(w) PROVE commission[t] = "paid"
    BY <1>2, <1>c, <2>4, EraseDoes
  <2> QED
    BY <2>1, <2>2, <2>3, <2>4, CommissionStep
<1>3. ASSUME NEW w \in Workers, At(w, "erase")', req'[w].last, NEW t \in Sales, commission'[t] = "paid"
      PROVE  t \in req'[w].paid
  <2>1. CASE \E u \in Sales : PayCommission(u)
    <3>1. PICK u \in Sales : PayCommission(u)
      BY <2>1
    <3>2. Notes(w, u)
      BY <1>i, <3>1, PayCommissionDoes
    <3>3. At(w, "erase") /\ req[w].last
      BY <1>3, <3>2 DEF Notes, At
    <3>4. req[w].kind = "void"
      BY <1>i, <3>3, StageIs DEF At
    <3>5. commission[t] = "paid" \/ t = u
      BY <1>3, <1>c, <3>1 DEF PayCommission
    <3> QED
      BY <3>2, <3>3, <3>4, <3>5 DEF Notes, PaidInv, At
  <2>2. CASE ~\E u \in Sales : PayCommission(u)
    <3>1. commission[t] = "paid"
      BY <1>2, <1>3, <2>2
    <3>2. ASSUME NEW v \in Workers, RequestStep(v) PROVE At(w, "erase") /\ req'[w] = req[w]
      <4>1. CASE v # w
        BY <1>3, <3>2, <4>1, RequestSteps DEF Others, At, Busy
      <4>2. CASE v = w
        <5>1. req[w].last /\ \A u \in Looked(w) : commission[u] # "paid"
          BY <1>3, <3>2, <4>2, RequestSteps DEF Arrives, At
        <5>2. plan # {}
          BY <1>c, <3>1 DEF PaidInv
        <5> QED
          BY <3>1, <5>1, <5>2 DEF Looked
      <4> QED
        BY <4>1, <4>2
    <3>3. ASSUME OtherStep \/ Cool \/ UNCHANGED vars PROVE At(w, "erase") /\ req'[w] = req[w]
      <4>1. req' = req
        BY <3>3 DEF OtherStep, SendCode, SendLogin, LogIn, Expire, Subscribe, Renew, Post, Cool, vars
      <4> QED
        BY <1>3, <4>1 DEF At, Busy
    <3>4. At(w, "erase") /\ req'[w] = req[w]
      BY <2>2, <3>2, <3>3, NextIs
    <3> QED
      BY <1>3, <3>1, <3>4 DEF PaidInv
  <2> QED
    BY <2>1, <2>2
<1> QED
  BY <1>1, <1>3 DEF PaidInv

\* Only a void takes a commission that was paid out.
PaidKept(t) ==
  commission[t] = "paid" =>
    commission'[t] = "paid" \/ \E w \in Voids : At(w, "erase") /\ t \in req[w].paid

LEMMA PaidStep ==
  ASSUME TypeInv, PaidInv, [Next]_vars, NEW t \in Sales
  PROVE  PaidKept(t)
<1> SUFFICES ASSUME commission[t] = "paid", commission'[t] # "paid"
             PROVE  \E w \in Voids : At(w, "erase") /\ t \in req[w].paid
  BY DEF PaidKept
<1>i. RowsInv /\ ReqInv
  BY DEF TypeInv
<1>c. commission \in [Sales -> {None, "pending", "paid"}] /\ None # "paid"
  BY <1>i DEF RowsInv, None
<1>1. ASSUME NEW u \in Sales, commission[u] # "paid", commission' = [commission EXCEPT ![u] = "pending"]
      PROVE  FALSE
  BY <1>c, <1>1
<1>2. ASSUME NEW u \in Sales, PayCommission(u) PROVE FALSE
  BY <1>c, <1>2 DEF PayCommission
<1>3. ASSUME NEW w \in Workers, Erase(w)
      PROVE  w \in Voids /\ At(w, "erase") /\ t \in req[w].paid
  <2>1. At(w, "erase") /\ req[w].kind = "void" /\ req[w].last
    BY <1>3, EraseDoes
  <2> QED
    BY <2>1 DEF PaidInv, Voids, At
<1> QED
  BY <1>c, <1>1, <1>2, <1>3, CommissionStep

----------------------------------------------------------------------------
(* The theorems.                                                             *)

LEMMA InvInit == Init => FreshInv /\ BookInv /\ ReviewInv /\ CodeInv /\ PlanInv /\ PaidInv
<1> SUFFICES ASSUME Init PROVE FreshInv /\ BookInv /\ ReviewInv /\ CodeInv /\ PlanInv /\ PaidInv
  OBVIOUS
<1>i. \A w \in Workers : ~Busy(w)
  BY DEF Init, Busy
<1>1. Used = {} /\ Rows = {} /\ Successes = {}
  BY DEF Init, Used, Rows, Successes
<1>2. \A e \in entries : e.receipt = 0 /\ e.booked = 0 /\ ~e.fresh
  BY DEF Init, Pending
<1>3. \A d, e \in entries : d = e
  BY DEF Init
<1>4. FreshInv
  BY <1>i, <1>3 DEF FreshInv, OneFreshEntry, At
<1>5. BookInv
  BY <1>i, <1>2, <1>3 DEF BookInv, At
<1>6. ReviewInv
  BY <1>1 DEF ReviewInv
<1>7. ASSUME NEW s \in Staff PROVE Covered(s)
  <2>1. Counted(s) = {} /\ Claims(s) = {} /\ One(Marked(s)) = 0 /\ given[s] = 0
    BY <1>i, <1>1 DEF Init, Counted, Claims, One, Marked, Reads, At
  <2>2. \A w \in Workers : ~Reads(w, s)
    BY <1>i DEF Reads, At
  <2> QED
    BY <2>1, <2>2, FS_EmptySet DEF Covered
<1>8. CodeInv
  BY <1>7 DEF CodeInv
<1>9. PlanInv
  BY <1>i, <1>1 DEF PlanInv, At, Stands
<1>10. PaidInv
  BY <1>i DEF PaidInv, At, Init
<1> QED
  BY <1>4, <1>5, <1>6, <1>8, <1>9, <1>10

\* A second sale of the same staff within the cooldown is refused: of two at once, the one
\* that has the member's row locked makes the entry the other finds (_staff_payment_duplicate_check).
THEOREM DuplicateRefused == Spec => []OneFreshEntry
<1>1. FreshInv => OneFreshEntry
  BY DEF FreshInv
<1> QED
  BY <1>1, TypeInit, InvInit, TypeNext, FreshNext, PTL DEF Spec

\* An entry becomes a sale once, unless two managers had it open (BranchPaymentVerifyAPIView).
THEOREM EntrySoldOnce == Spec => []BookedOnce
<1>1. TypeInv /\ BookInv => BookedOnce
  <2> SUFFICES ASSUME TypeInv, BookInv, NEW e \in entries PROVE e.booked <= 1 \/ e.receipt \in rebooked
    BY DEF BookedOnce
  <2> QED
    BY DEF BookInv
<1> QED
  BY <1>1, TypeInit, InvInit, TypeNext, BookNext, PTL DEF Spec

\* The review of a payment says what the office decided on it, unless two decisions on it
\* were made at once or one broke off half way (VerifyPaymentAPIView, RejectPaymentAPIView).
THEOREM ReviewsDecide == Spec => []ReviewAgrees
<1>1. ReviewInv => ReviewAgrees
  BY DEF ReviewInv, Agreed, ReviewAgrees, Deciding, Decides
<1> QED
  BY <1>1, TypeInit, InvInit, TypeNext, ReviewNext, PTL DEF Spec

\* Every sale of a member of staff was paid for by a code of the member, unless two requests
\* saw the same confirmation (StaffPaymentListCreateView.post).
THEOREM SalesAreConfirmed == Spec => []ConfirmedSales
<1>1. TypeInv /\ CodeInv => ConfirmedSales
  <2> SUFFICES ASSUME TypeInv, CodeInv, NEW s \in Staff \ shared
               PROVE  Cardinality(Counted(s)) <= given[s]
    BY DEF ConfirmedSales, Counted
  <2>1. Cardinality(Counted(s)) + Cardinality(Claims(s)) + One(Marked(s)) <= given[s]
    BY DEF CodeInv, Covered
  <2>2. Cardinality(Counted(s)) \in Nat /\ Cardinality(Claims(s)) \in Nat /\ given[s] \in Nat
    BY CountedIs DEF TypeInv, DeskInv
  <2>3. One(Marked(s)) \in Nat
    BY DEF One
  <2> QED
    BY <2>1, <2>2, <2>3
<1> QED
  BY <1>1, TypeInit, InvInit, TypeNext, CodeNext, PTL DEF Spec

\* A sale that stands keeps its days in the plan, whatever is voided around it, unless a void
\* was under way when it was made or decided on (_void_verified_cash_payment).
THEOREM PlanStays == Spec => []SaleKeepsPlan
<1>1. TypeInv /\ PlanInv => SaleKeepsPlan
  <2>1. Successes \subseteq Sales
    BY DEF Successes, Rows, Used
  <2> QED
    BY <2>1 DEF PlanInv, SaleKeepsPlan, Stands, Planned
<1> QED
  BY <1>1, TypeInit, InvInit, TypeNext, PlanNext, PTL DEF Spec

\* A void takes no commission that was paid out when it looked, only ones that were paid out
\* since (_void_verified_cash_payment).
THEOREM PaidStays == Spec => PaidCommissionKept
<1>1. TypeInv /\ PaidInv /\ [Next]_vars =>
        [\A t \in Sales : commission[t] = "paid" =>
           commission'[t] = "paid" \/ \E w \in Voids : At(w, "erase") /\ t \in req[w].paid]_vars
  BY PaidStep DEF PaidKept
<1> QED
  BY <1>1, TypeInit, InvInit, TypeNext, PaidNext, PTL DEF Spec, PaidCommissionKept
=============================================================================
