----------------------------- MODULE QuotaProofs ----------------------------
(***************************************************************************)
(* Proofs about Quota, for every number of members, plans, features and    *)
(* request threads.                                                        *)
(***************************************************************************)
EXTENDS Quota, FiniteSetTheorems, TLAPS

----------------------------------------------------------------------------
(* What the rules of PlanRecords return.                                     *)

LEMMA AmountsTyped ==
  ASSUME NEW option, NEW a \in Nat, NEW c \in Nat
  PROVE  /\ PurchaseAmount(option, a, c) \in Nat
         /\ ChargePaidAfter(option, a, c) \in Nat
         /\ inr_to_paise(a) \in Nat
  BY DEF PurchaseAmount, ChargePaidAfter, Max0, inr_to_paise

LEMMA RemainingTyped ==
  ASSUME NEW up \in UserPlanRow, NEW q \in Quotas
  PROVE  Remaining(up, q) \in Nat
  BY PlanAssumption DEF Remaining, EffectiveLimit, Max0, UserPlanRow

\* A stored repair is a row, with the key and the terms of the repaired one.
LEMMA RepairedTyped ==
  ASSUME NEW up \in UserPlanRow
  PROVE  /\ EffectivePaid(up) \in Nat
         /\ Repaired(up) \in UserPlanRow
         /\ ChargeRemaining(up) \in Int
  BY DEF EffectivePaid, Repaired, ChargeRemaining, UserPlanRow

LEMMA NoPlanIsNoRow == NoPlan \notin UserPlanRow
  BY DEF NoPlan, UserPlanRow

LEMMA ActivatedTyped ==
  ASSUME NEW any \in UserPlanRow \cup {NoPlan}, NEW pk \in Nat, NEW p \in Plans,
         NEW option, NEW a \in Nat, NEW c \in Nat, NEW d \in Nat
  PROVE  Activated(any, pk, p, option, a, c, d) \in UserPlanRow
<1> DEFINE active == CurrentlyActive(any, d)
           renewal == active /\ any.plan = p
           new == Activated(any, pk, p, option, a, c, d)
<1>1. active => any \in UserPlanRow
  BY DEF CurrentlyActive
<1>2. (IF active THEN any.valid_until ELSE d) + Duration[p] \in Nat
  BY <1>1, PlanAssumption DEF UserPlanRow
<1>3. (IF renewal /\ any.service_charge # 0 THEN any.service_charge ELSE c) \in Nat
  BY <1>1 DEF UserPlanRow
<1>4. (IF renewal THEN EffectivePaid(any) ELSE ChargePaidAfter(option, a, c)) \in Nat
  BY <1>1, RepairedTyped, AmountsTyped
<1>5. [q \in Quotas |-> IF active THEN Remaining(any, q) ELSE 0] \in [Quotas -> Nat]
  BY <1>1, RemainingTyped
<1>6. [q \in Quotas |-> 0] \in [Quotas -> Nat]
  OBVIOUS
<1> QED
  BY <1>2, <1>3, <1>4, <1>5, <1>6 DEF Activated, UserPlanRow

----------------------------------------------------------------------------
(* Types.                                                                    *)

\* The row a request has cached is still the member's row.
Live(w) == req[w] # Idle /\ userPlan[req[w].user].pk = req[w].snap.pk

\* Only a contact unlock keeps a row waiting, and a row somebody keeps waiting stays.
HeldAlive ==
  \A w \in Workers : req[w] # Idle =>
    /\ req[w].pc = "contact" => req[w].kind = "contact"
    /\ req[w].writes # {} =>
         /\ Live(w) /\ req[w].writes = {Contact} /\ req[w].kind = "contact"
         /\ req[w].pc \in {"touch", "charge"}

TypeInv == TypeOK /\ HeldAlive

----------------------------------------------------------------------------
(* What is known of a request.                                               *)

LEMMA QuotaNames == View \in Quotas /\ Contact \in Quotas /\ Match \in Quotas
  BY QuotaAssumption

LEMMA RequestIs ==
  ASSUME TypeOK, NEW w \in Workers, req[w] # Idle
  PROVE  /\ req[w] \in Request /\ req[w].user \in Users /\ req[w].snap \in UserPlanRow
         /\ req[w].kind \in {"open", "contact", "match"}
         /\ req[w].kind = "match" => req[w].item \in Pairs /\ req[w].writes = {}
         /\ req[w].kind # "match" => req[w].item \in Profiles
         /\ req[w].pc \in {"contact", "touch"} => req[w].kind # "match"
         /\ req[w].pc = "create" => req[w].kind = "match"
         /\ req[w].pc \in {"decide", "contact", "touch", "create", "charge"}
  BY DEF TypeOK, Request

LEMMA BusyPc ==
  ASSUME NEW w, req[w].pc # "idle"
  PROVE  req[w] # Idle
  BY DEF Idle

\* A live row is a row, not the absence of one.
LEMMA LiveRow ==
  ASSUME TypeOK, NEW w \in Workers, Live(w)
  PROVE  userPlan[req[w].user] \in UserPlanRow
<1>1. req[w].user \in Users /\ req[w].snap.pk \in Nat
  BY RequestIs DEF Live, UserPlanRow
<1>2. NoPlan.pk = -1
  BY DEF NoPlan
<1> QED
  BY <1>1, <1>2 DEF Live, TypeOK

\* The moves of a request between its start and its end.
Moved(w, r) ==
  /\ r.user = req[w].user /\ r.kind = req[w].kind /\ r.item = req[w].item
  /\ r.snap = req[w].snap

LEMMA GoToIs ==
  ASSUME TypeOK, NEW w \in Workers, req[w] # Idle, NEW pc
  PROVE  LET r == [req[w] EXCEPT !.pc = pc]
         IN /\ Moved(w, r) /\ r.pc = pc /\ r.writes = req[w].writes
            /\ (req[w].kind # "match" /\ pc \in {"contact", "touch", "charge"}) => r \in Request
            /\ (req[w].kind = "match" /\ pc \in {"create", "charge"}) => r \in Request
  BY RequestIs DEF Moved, Request

LEMMA HoldIs ==
  ASSUME TypeOK, NEW w \in Workers, req[w] # Idle, req[w].kind # "match"
  PROVE  LET r == [req[w] EXCEPT !.pc = "touch", !.writes = {Contact}]
         IN Moved(w, r) /\ r.pc = "touch" /\ r.writes = {Contact} /\ r \in Request
  BY RequestIs, QuotaNames DEF Moved, Request

----------------------------------------------------------------------------
(* The kinds of steps of a request.                                          *)

Starts(w) ==
  \E r \in Request :
    /\ req[w] = Idle /\ req' = [req EXCEPT ![w] = r]
    /\ r.pc = "decide" /\ r.writes = {} /\ r.snap = userPlan[r.user]
    /\ CurrentlyActive(userPlan[r.user], today)
    /\ r.kind = "contact" => MayUse(r.snap, Contact)
    /\ raced' = [raced EXCEPT ![r.user] = @ \cup (Open(r.user) \cap Charges(r.kind))]
    /\ UNCHANGED <<userPlan, nextId, unlocked, matched, today, spent, viewCharges,
                   matchCharges, renewed>>

LEMMA StartsBy ==
  ASSUME TypeOK, NEW w \in Workers, NEW u \in Users,
         \/ \E p \in Profiles : OpenProfile(w, u, p) \/ UnlockContact(w, u, p)
         \/ \E x \in Pairs : Porutham(w, u, x)
  PROVE  Starts(w)
<1>1. userPlan[u] \in UserPlanRow
  BY DEF OpenProfile, UnlockContact, Porutham, Begin, CurrentlyActive, TypeOK
<1>2. ASSUME NEW kind, NEW item, Begin(w, kind, u, item),
             kind = "contact" => MayUse(userPlan[u], Contact),
             \/ kind \in {"open", "contact"} /\ item \in Profiles
             \/ kind = "match" /\ item \in Pairs
      PROVE  Starts(w)
  <2> DEFINE r == [pc |-> "decide", kind |-> kind, user |-> u, item |-> item,
                   snap |-> userPlan[u], writes |-> {}]
  <2>1. r \in Request
    BY <1>1, <1>2 DEF Request
  <2>2. /\ r.pc = "decide" /\ r.writes = {} /\ r.snap = userPlan[u] /\ r.user = u
        /\ r.kind = kind
    OBVIOUS
  <2>3. req' = [req EXCEPT ![w] = r]
    BY <1>2 DEF Begin
  <2> HIDE DEF r
  <2> QED
    BY <1>2, <2>1, <2>2, <2>3 DEF Begin, Starts
<1> QED
  BY <1>2 DEF OpenProfile, UnlockContact, Porutham

\* A step that commits the columns Q of the request in w.
Commits(w, Q) ==
  /\ req[w] # Idle /\ Commit(w, Q) /\ Q \subseteq Charges(req[w].kind)
  /\ Q # {} => Live(w)
  /\ Contact \in Q => req[w].kind = "contact"
  /\ req[w].pc # "decide" /\ (View \in Q => req[w].pc = "charge")
  /\ UNCHANGED <<nextId, today, raced, renewed>>

\* What a request may become without a commit.
Continued(w, r) ==
  \/ r = Idle
  \/ /\ Moved(w, r) /\ r \in Request
     /\ r.writes = req[w].writes \/ (r.writes = {Contact} /\ r.pc = "touch" /\ Live(w)
                                       /\ r.kind = "contact")
     /\ r.writes # {} => r.pc \in {"touch", "charge"}
     /\ r.pc = "contact" => r.kind = "contact"

\* A step that neither starts a request nor writes a plan row.
Continues(w) ==
  /\ req[w] # Idle
  /\ \E r : Continued(w, r) /\ req' = [req EXCEPT ![w] = r]
  /\ UNCHANGED <<userPlan, nextId, today, spent, raced, renewed>>

LEMMA ContinuesIdle ==
  ASSUME NEW w \in Workers, req[w] # Idle, Become(w, Idle), UNCHANGED <<userPlan, spent>>
  PROVE  Continues(w)
<1>1. Continued(w, Idle)
  BY DEF Continued
<1> QED
  BY <1>1 DEF Become, Continues

LEMMA ContinuesGoTo ==
  ASSUME TypeInv, NEW w \in Workers, req[w] # Idle, NEW pc, GoTo(w, pc),
         UNCHANGED <<userPlan, spent>>,
         \/ req[w].kind # "match" /\ pc \in {"touch", "charge"}
         \/ req[w].kind = "contact" /\ pc = "contact" /\ req[w].writes = {}
         \/ req[w].kind = "match" /\ pc \in {"create", "charge"}
  PROVE  Continues(w)
<1> DEFINE r == [req[w] EXCEPT !.pc = pc]
<1>1. Moved(w, r) /\ r.pc = pc /\ r.writes = req[w].writes /\ r \in Request
  BY GoToIs, RequestIs DEF TypeInv
<1>2. Become(w, r)
  BY DEF GoTo
<1>3. req[w].kind = "match" => req[w].writes = {}
  BY RequestIs DEF TypeInv
<1> HIDE DEF r
<1>4. Continued(w, r)
  BY <1>1, <1>3 DEF Continued, Moved
<1> QED
  BY <1>2, <1>4 DEF Become, Continues

LEMMA DecideContinues ==
  ASSUME TypeInv, NEW w \in Workers, Decide(w)
  PROVE  Continues(w)
<1>1. req[w] # Idle
  BY BusyPc DEF Decide
<1>2. req[w].writes = {}
  BY <1>1 DEF Decide, TypeInv, HeldAlive
<1>3. CASE Become(w, Idle)
  BY <1>1, <1>3, ContinuesIdle DEF Decide
<1>4. CASE \E pc : GoTo(w, pc) /\ ~ Become(w, Idle)
  BY <1>1, <1>2, <1>4, ContinuesGoTo DEF Decide
<1> QED
  BY <1>3, <1>4 DEF Decide

LEMMA ConsumeContactContinues ==
  ASSUME TypeInv, NEW w \in Workers, ConsumeContact(w)
  PROVE  Continues(w)
<1> DEFINE r == [req[w] EXCEPT !.pc = "touch", !.writes = {Contact}]
<1>1. req[w] # Idle /\ UNCHANGED <<userPlan, spent>>
  BY BusyPc DEF ConsumeContact
<1>2. req[w].kind = "contact"
  BY <1>1 DEF ConsumeContact, TypeInv, HeldAlive
<1>3. CASE Become(w, Idle)
  BY <1>1, <1>3, ContinuesIdle
<1>4. CASE GoTo(w, "touch")
  BY <1>1, <1>2, <1>4, ContinuesGoTo
<1>5. CASE Become(w, r) /\ ~ RowGone(w)
  <2>1. Moved(w, r) /\ r.pc = "touch" /\ r.writes = {Contact} /\ r \in Request
    BY <1>1, <1>2, HoldIs DEF TypeInv
  <2>2. Live(w)
    BY <1>1, <1>5 DEF RowGone, Live
  <2> HIDE DEF r
  <2>3. Continued(w, r)
    BY <1>2, <2>1, <2>2 DEF Continued, Moved
  <2> QED
    BY <1>1, <1>5, <2>3 DEF Become, Continues
<1> QED
  BY <1>3, <1>4, <1>5 DEF ConsumeContact

LEMMA RestContinues ==
  ASSUME TypeInv, NEW w \in Workers, CreateResult(w) \/ Abort(w)
  PROVE  Continues(w)
<1>1. req[w] # Idle
  BY BusyPc DEF CreateResult, Abort
<1>2. CASE Become(w, Idle)
  BY <1>1, <1>2, ContinuesIdle DEF CreateResult, Abort, RollBack
<1>3. CASE GoTo(w, "charge") /\ CreateResult(w)
  BY <1>1, <1>3, ContinuesGoTo, RequestIs DEF CreateResult, TypeInv
<1> QED
  BY <1>2, <1>3 DEF CreateResult, Abort, RollBack

LEMMA ChargesAre ==
  /\ Charges("open") = {View} /\ Charges("contact") = {View, Contact}
  /\ Charges("match") = {Match}
  /\ View # Contact /\ View # Match /\ Contact # Match
  BY DEF Charges, View, Contact, Match

LEMMA TouchKinds ==
  ASSUME TypeInv, NEW w \in Workers, Touch(w)
  PROVE  Continues(w) \/ \E Q : Commits(w, Q)
<1>1. req[w] # Idle /\ req[w].kind # "match" /\ req[w].kind \in {"open", "contact", "match"}
  BY BusyPc, RequestIs DEF Touch, TypeInv
<1>2. CASE Commit(w, req[w].writes)
  BY <1>1, <1>2, ChargesAre DEF Commits, Commit, Become, Touch, TypeInv, HeldAlive
<1>3. CASE GoTo(w, "charge") /\ UNCHANGED <<userPlan, spent>>
  BY <1>1, <1>3, ContinuesGoTo
<1> QED
  BY <1>2, <1>3 DEF Touch

LEMMA ConsumeViewKinds ==
  ASSUME TypeInv, NEW w \in Workers, ConsumeView(w)
  PROVE  Continues(w) \/ \E Q : Commits(w, Q)
<1> DEFINE charged == IF Consumes(w, View) THEN {View} ELSE {}
<1>1. req[w] # Idle /\ req[w].kind # "match" /\ req[w].kind \in {"open", "contact", "match"}
  BY BusyPc, RequestIs DEF ConsumeView, TypeInv
<1>2. CASE RollBack(w)
  BY <1>1, <1>2, ContinuesIdle DEF RollBack
<1>3. CASE Commit(w, req[w].writes \cup charged) /\ ~ (charged # {} /\ RowGone(w))
  <2>1. charged # {} => Live(w)
    BY <1>1, <1>3 DEF RowGone, Live
  <2>2. req[w].writes # {} =>
          Live(w) /\ req[w].writes = {Contact} /\ req[w].kind = "contact"
    BY <1>1 DEF TypeInv, HeldAlive
  <2>3. charged \subseteq {View}
    OBVIOUS
  <2>4. req[w].pc = "charge"
    BY DEF ConsumeView
  <2> DEFINE Q == req[w].writes \cup charged
  <2>5. Q \subseteq Charges(req[w].kind) /\ (Contact \in Q => req[w].kind = "contact")
    BY <1>1, <2>2, <2>3, ChargesAre
  <2>6. (Q # {} => Live(w)) /\ Commit(w, Q)
    BY <1>3, <2>1, <2>2
  <2> HIDE DEF Q
  <2>7. Commits(w, Q)
    BY <1>1, <2>4, <2>5, <2>6 DEF Commits, Commit, Become
  <2> QED
    BY <2>7
<1> QED
  BY <1>2, <1>3 DEF ConsumeView

LEMMA ConsumeMatchKinds ==
  ASSUME TypeInv, NEW w \in Workers, ConsumeMatch(w)
  PROVE  Continues(w) \/ \E Q : Commits(w, Q)
<1> DEFINE charged == IF Consumes(w, Match) THEN {Match} ELSE {}
<1>1. req[w] # Idle /\ req[w].kind = "match"
  BY BusyPc DEF ConsumeMatch
<1>2. CASE RollBack(w)
  BY <1>1, <1>2, ContinuesIdle DEF RollBack
<1>3. CASE Commit(w, charged) /\ ~ (charged # {} /\ RowGone(w))
  <2>1. charged # {} => Live(w)
    BY <1>1, <1>3 DEF RowGone, Live
  <2>2. req[w].pc = "charge"
    BY DEF ConsumeMatch
  <2>3. charged \subseteq {Match}
    OBVIOUS
  <2> HIDE DEF charged
  <2>4. Commits(w, charged)
    BY <1>1, <1>3, <2>1, <2>2, <2>3, ChargesAre DEF Commits, Commit, Become
  <2> QED
    BY <2>4
<1> QED
  BY <1>2, <1>3 DEF ConsumeMatch

\* The steps outside the requests.
Outside ==
  \/ \E u \in Users : RemoveUserPlan(u) \/ \E p \in Plans : Purchase(u, p)
  \/ \E x \in Pairs : StaffReport(x)
  \/ NextDay
  \/ UNCHANGED vars

LEMMA StepKinds ==
  ASSUME TypeInv, [Next]_vars
  PROVE  \/ \E w \in Workers : Starts(w) \/ Continues(w) \/ \E Q : Commits(w, Q)
         \/ Outside
<1>1. ASSUME NEW w \in Workers, NEW u \in Users,
             \/ \E p \in Profiles : OpenProfile(w, u, p) \/ UnlockContact(w, u, p)
             \/ \E x \in Pairs : Porutham(w, u, x)
      PROVE  Starts(w)
  BY <1>1, StartsBy DEF TypeInv
<1>2. ASSUME NEW w \in Workers,
             Decide(w) \/ ConsumeContact(w) \/ CreateResult(w) \/ Abort(w)
      PROVE  Continues(w)
  BY <1>2, DecideContinues, ConsumeContactContinues, RestContinues
<1>3. ASSUME NEW w \in Workers, Touch(w) \/ ConsumeView(w) \/ ConsumeMatch(w)
      PROVE  Continues(w) \/ \E Q : Commits(w, Q)
  BY <1>3, TouchKinds, ConsumeViewKinds, ConsumeMatchKinds
<1> QED
  BY <1>1, <1>2, <1>3 DEF Next, Outside

----------------------------------------------------------------------------
(* Type correctness.                                                         *)

LEMMA WrittenIs ==
  ASSUME TypeOK, NEW w \in Workers, Live(w), NEW Q
  PROVE  LET up == userPlan[req[w].user]
             new == Written(w, Q)
         IN /\ new \in UserPlanRow
            /\ new.pk = up.pk /\ new.plan = up.plan /\ new.bonus = up.bonus
            /\ \A q \in Quotas :
                 new.used[q] = IF q \in Q THEN req[w].snap.used[q] + 1 ELSE up.used[q]
<1>1. userPlan[req[w].user] \in UserPlanRow /\ req[w].snap \in UserPlanRow
  BY LiveRow, RequestIs DEF Live
<1>2. [q \in Quotas |-> IF q \in Q THEN req[w].snap.used[q] + 1
                                   ELSE userPlan[req[w].user].used[q]] \in [Quotas -> Nat]
  BY <1>1 DEF UserPlanRow
<1>3. Written(w, Q) = [userPlan[req[w].user] EXCEPT !.used =
         [q \in Quotas |-> IF q \in Q THEN req[w].snap.used[q] + 1
                                      ELSE userPlan[req[w].user].used[q]]]
  BY <1>1 DEF Written, UserPlanRow
<1> QED
  BY <1>1, <1>2, <1>3 DEF UserPlanRow

\* What a commit does to the rows and to what is counted.
LEMMA CommitIs ==
  ASSUME TypeOK, NEW w \in Workers, NEW Q, Commits(w, Q)
  PROVE  /\ req' = [req EXCEPT ![w] = Idle] /\ req[w].user \in Users
         /\ UNCHANGED <<nextId, today, raced, renewed>>
         /\ userPlan' \in [Users -> UserPlanRow \cup {NoPlan}]
         /\ spent' \in [Users -> [Quotas -> Nat]]
         /\ \A u \in Users :
              \/ userPlan'[u] = userPlan[u] /\ spent'[u] = spent[u]
              \/ /\ u = req[w].user /\ Live(w) /\ userPlan'[u] = Written(w, Q)
                 /\ \A q \in Quotas :
                      spent'[u][q] = IF q \in Q \ (raced[u] \cup renewed[u])
                                     THEN spent[u][q] + 1 ELSE spent[u][q]
<1> DEFINE u == req[w].user
           more == [q \in Quotas |-> IF q \in Q \ (raced[u] \cup renewed[u])
                                     THEN spent[u][q] + 1 ELSE spent[u][q]]
<1>1. u \in Users /\ spent[u] \in [Quotas -> Nat] /\ userPlan \in [Users -> UserPlanRow \cup {NoPlan}]
  BY RequestIs DEF Commits, TypeOK
<1>2. /\ req' = [req EXCEPT ![w] = Idle] /\ UNCHANGED <<nextId, today, raced, renewed>>
      /\ userPlan' = IF Q = {} THEN userPlan ELSE [userPlan EXCEPT ![u] = Written(w, Q)]
  BY DEF Commits, Commit, Become
<1>3. spent' = [spent EXCEPT ![u] = more]
  BY <1>1 DEF Commits, Commit, TypeOK
<1>4. more \in [Quotas -> Nat]
  BY <1>1
<1>5. spent' \in [Users -> [Quotas -> Nat]]
  BY <1>3, <1>4 DEF TypeOK
<1>6. CASE Q = {}
  <2>1. more = spent[u]
    BY <1>1, <1>6
  <2> QED
    BY <1>1, <1>2, <1>3, <1>5, <1>6, <2>1 DEF TypeOK
<1>7. CASE Q # {}
  <2>1. Live(w) /\ Written(w, Q) \in UserPlanRow
    BY <1>7, WrittenIs DEF Commits
  <2>2. \A x \in Users : x # u => userPlan'[x] = userPlan[x] /\ spent'[x] = spent[x]
    BY <1>1, <1>2, <1>3, <1>7 DEF TypeOK
  <2>3. userPlan'[u] = Written(w, Q) /\ spent'[u] = more
    BY <1>1, <1>2, <1>3, <1>7 DEF TypeOK
  <2>4. userPlan' \in [Users -> UserPlanRow \cup {NoPlan}]
    BY <1>1, <1>2, <1>7, <2>1
  <2>5. \A q \in Quotas : more[q] = IF q \in Q \ (raced[u] \cup renewed[u])
                                    THEN spent[u][q] + 1 ELSE spent[u][q]
    OBVIOUS
  <2> HIDE DEF more
  <2> QED
    BY <1>1, <1>2, <1>5, <2>1, <2>2, <2>3, <2>4, <2>5
<1> QED
  BY <1>6, <1>7

LEMMA ChargedIs ==
  ASSUME NEW w, NEW q
  PROVE  Cardinality(IF Consumes(w, q) THEN {q} ELSE {}) = IF Consumes(w, q) THEN 1 ELSE 0
<1>1. CASE Consumes(w, q)
  BY <1>1, FS_Singleton
<1>2. CASE ~ Consumes(w, q)
  BY <1>2, FS_EmptySet
<1> QED
  BY <1>1, <1>2

\* The tables that record what was opened and what was charged.
LEMMA ChargesTyped ==
  ASSUME TypeInv, [Next]_vars
  PROVE  /\ unlocked' \in [Users -> SUBSET Profiles] /\ matched' \subseteq Pairs
         /\ viewCharges' \in [Users -> [Profiles -> Nat]] /\ matchCharges' \in [Pairs -> Nat]
<1>1. CASE UNCHANGED <<unlocked, matched, viewCharges, matchCharges>>
  BY <1>1 DEF TypeInv, TypeOK
<1>2. ASSUME NEW w \in Workers, ConsumeView(w)
      PROVE  /\ unlocked' \in [Users -> SUBSET Profiles] /\ matched' \subseteq Pairs
             /\ viewCharges' \in [Users -> [Profiles -> Nat]]
             /\ matchCharges' \in [Pairs -> Nat]
  <2> DEFINE u == req[w].user
             p == req[w].item
             n == Cardinality(IF Consumes(w, View) THEN {View} ELSE {})
  <2>1. u \in Users /\ p \in Profiles
    BY <1>2, BusyPc, RequestIs DEF ConsumeView, TypeInv
  <2>2. n \in Nat
    BY ChargedIs
  <2>3. CASE RollBack(w)
    BY <1>1, <2>3 DEF RollBack
  <2>4. CASE ~ RollBack(w)
    <3>1. /\ unlocked' = [unlocked EXCEPT ![u] = @ \cup {p}]
          /\ viewCharges' = [viewCharges EXCEPT ![u][p] = @ + n]
          /\ UNCHANGED <<matched, matchCharges>>
      BY <1>2, <2>4 DEF ConsumeView
    <3> HIDE DEF n
    <3> QED
      BY <2>1, <2>2, <3>1 DEF TypeInv, TypeOK
  <2> QED
    BY <2>3, <2>4
<1>3. ASSUME NEW w \in Workers, ConsumeMatch(w)
      PROVE  /\ unlocked' \in [Users -> SUBSET Profiles] /\ matched' \subseteq Pairs
             /\ viewCharges' \in [Users -> [Profiles -> Nat]]
             /\ matchCharges' \in [Pairs -> Nat]
  <2> DEFINE x == req[w].item
             n == Cardinality(IF Consumes(w, Match) THEN {Match} ELSE {})
  <2>1. x \in Pairs
    BY <1>3, BusyPc, RequestIs DEF ConsumeMatch, TypeInv
  <2>2. n \in Nat
    BY ChargedIs
  <2>3. CASE RollBack(w)
    BY <1>1, <2>3 DEF RollBack
  <2>4. CASE ~ RollBack(w)
    <3>1. /\ matchCharges' = [matchCharges EXCEPT ![x] = @ + n]
          /\ UNCHANGED <<unlocked, matched, viewCharges>>
      BY <1>3, <2>4 DEF ConsumeMatch
    <3> HIDE DEF n
    <3> QED
      BY <2>1, <2>2, <3>1 DEF TypeInv, TypeOK
  <2> QED
    BY <2>3, <2>4
<1>4. ASSUME NEW w \in Workers, CreateResult(w)
      PROVE  /\ UNCHANGED <<unlocked, viewCharges, matchCharges>> /\ matched' \subseteq Pairs
  BY <1>4, BusyPc, RequestIs DEF CreateResult, TypeInv, TypeOK
<1>5. ASSUME NEW x \in Pairs, StaffReport(x)
      PROVE  /\ UNCHANGED <<unlocked, viewCharges, matchCharges>> /\ matched' \subseteq Pairs
  BY <1>5 DEF StaffReport, TypeInv, TypeOK, history
<1>6. \/ \E w \in Workers : ConsumeView(w) \/ ConsumeMatch(w) \/ CreateResult(w)
      \/ \E x \in Pairs : StaffReport(x)
      \/ UNCHANGED <<unlocked, matched, viewCharges, matchCharges>>
  BY DEF Next, OpenProfile, UnlockContact, Porutham, Begin, Decide, ConsumeContact, Touch, Abort,
     RollBack, RemoveUserPlan, Purchase, NextDay, vars, history
<1> QED
  BY <1>1, <1>2, <1>3, <1>4, <1>5, <1>6 DEF TypeInv, TypeOK

LEMMA PurchaseTyped ==
  ASSUME TypeInv, NEW u \in Users, NEW p \in Plans, Purchase(u, p)
  PROVE  /\ userPlan' \in [Users -> UserPlanRow \cup {NoPlan}] /\ nextId' \in Nat
         /\ spent' \in [Users -> [Quotas -> Nat]]
         /\ raced' \in [Users -> SUBSET Quotas] /\ renewed' \in [Users -> SUBSET Quotas]
<1>1. Open(u) \subseteq Quotas
  BY QuotaNames, ChargesAre, RequestIs DEF Open, TypeInv
<1>2. /\ renewed' \in [Users -> SUBSET Quotas] /\ raced' \in [Users -> SUBSET Quotas]
      /\ spent' \in [Users -> [Quotas -> Nat]] /\ nextId' \in Nat
  BY <1>1 DEF Purchase, TypeInv, TypeOK
<1>3. userPlan' \in [Users -> UserPlanRow \cup {NoPlan}]
  <2> DEFINE any == userPlan[u]
             pk == IF any = NoPlan THEN nextId ELSE any.pk
             new == Activated(any, pk, p, PlanOnly, 0, 0, today)
  <2>1. any \in UserPlanRow \cup {NoPlan} /\ pk \in Nat /\ today \in Nat
    BY DEF TypeInv, TypeOK, UserPlanRow
  <2> HIDE DEF pk
  <2>2. new \in UserPlanRow
    BY <2>1, ActivatedTyped
  <2>3. userPlan' = [userPlan EXCEPT ![u] = new]
    BY DEF Purchase, TypeInv, TypeOK, pk
  <2> HIDE DEF new
  <2> QED
    BY <2>2, <2>3 DEF TypeInv, TypeOK
<1> QED
  BY <1>2, <1>3

\* A commit changes no row but its counters.
LEMMA CommitKeeps ==
  ASSUME TypeOK, NEW w \in Workers, NEW Q, Commits(w, Q), NEW u \in Users
  PROVE  /\ userPlan'[u].pk = userPlan[u].pk
         /\ userPlan'[u] # userPlan[u] =>
              userPlan'[u].plan = userPlan[u].plan /\ userPlan'[u].bonus = userPlan[u].bonus
<1>1. \/ userPlan'[u] = userPlan[u]
      \/ u = req[w].user /\ Live(w) /\ userPlan'[u] = Written(w, Q)
  BY CommitIs
<1>2. CASE u = req[w].user /\ Live(w) /\ userPlan'[u] = Written(w, Q)
  BY <1>2, WrittenIs
<1> QED
  BY <1>1, <1>2

LEMMA TablesTyped ==
  ASSUME TypeInv, [Next]_vars
  PROVE  TypeOK'
<1>1. ASSUME NEW w \in Workers, Starts(w) PROVE TypeOK'
  <2>1. PICK r \in Request :
          /\ req' = [req EXCEPT ![w] = r]
          /\ raced' = [raced EXCEPT ![r.user] = @ \cup (Open(r.user) \cap Charges(r.kind))]
          /\ UNCHANGED <<userPlan, nextId, unlocked, matched, today, spent, viewCharges,
                         matchCharges, renewed>>
    BY <1>1 DEF Starts
  <2>2. Charges(r.kind) \subseteq Quotas
    BY QuotaNames, ChargesAre DEF Request
  <2>3. raced' \in [Users -> SUBSET Quotas]
    BY <2>1, <2>2 DEF TypeInv, TypeOK
  <2>4. req' \in [Workers -> Request \cup {Idle}]
    BY <2>1 DEF TypeInv, TypeOK
  <2> QED
    BY <2>1, <2>3, <2>4 DEF TypeInv, TypeOK
<1>2. ASSUME NEW w \in Workers, Continues(w) PROVE TypeOK'
  <2>1. req' \in [Workers -> Request \cup {Idle}]
    BY <1>2 DEF Continues, Continued, TypeInv, TypeOK
  <2> QED
    BY <1>2, <2>1, ChargesTyped DEF Continues, TypeInv, TypeOK
<1>3. ASSUME NEW w \in Workers, NEW Q, Commits(w, Q) PROVE TypeOK'
  <2>1. req' \in [Workers -> Request \cup {Idle}]
    BY <1>3, CommitIs DEF TypeInv, TypeOK
  <2> QED
    BY <1>3, <2>1, CommitIs, ChargesTyped DEF TypeInv, TypeOK
<1>4. ASSUME NEW u \in Users, NEW p \in Plans, Purchase(u, p) PROVE TypeOK'
  <2>1. today' \in Nat /\ req' \in [Workers -> Request \cup {Idle}]
    BY <1>4 DEF Purchase, TypeInv, TypeOK
  <2> QED
    BY <1>4, <2>1, PurchaseTyped, ChargesTyped DEF TypeOK
<1>5. CASE (\E u \in Users : RemoveUserPlan(u)) \/ (\E x \in Pairs : StaffReport(x))
           \/ NextDay \/ UNCHANGED vars
  <2>1. userPlan' \in [Users -> UserPlanRow \cup {NoPlan}] /\ today' \in Nat
    BY <1>5 DEF RemoveUserPlan, StaffReport, NextDay, vars, TypeInv, TypeOK
  <2>2. UNCHANGED <<nextId, req, spent, raced, renewed>>
    BY <1>5 DEF RemoveUserPlan, StaffReport, NextDay, vars, history
  <2> QED
    BY <2>1, <2>2, ChargesTyped DEF TypeInv, TypeOK
<1> QED
  BY <1>1, <1>2, <1>3, <1>4, <1>5, StepKinds DEF Outside

\* How a request that is still there has changed.
LEMMA RequestMoves ==
  ASSUME TypeInv, [Next]_vars, NEW v \in Workers, req'[v] # Idle
  PROVE  \/ req'[v] = req[v]
         \/ Starts(v) /\ req[v] = Idle
         \/ Continues(v) /\ Continued(v, req'[v]) /\ Moved(v, req'[v]) /\ req[v] # Idle
<1>1. ASSUME NEW w \in Workers, Starts(w)
      PROVE  req'[v] = req[v] \/ (Starts(v) /\ req[v] = Idle)
  <2>1. CASE v = w
    BY <1>1, <2>1 DEF Starts
  <2>2. CASE v # w
    BY <1>1, <2>2 DEF Starts, TypeInv, TypeOK
  <2> QED
    BY <2>1, <2>2
<1>2. ASSUME NEW w \in Workers, Continues(w)
      PROVE  \/ req'[v] = req[v]
             \/ Continues(v) /\ Continued(v, req'[v]) /\ Moved(v, req'[v]) /\ req[v] # Idle
  <2>1. PICK r : Continued(w, r) /\ req' = [req EXCEPT ![w] = r]
    BY <1>2 DEF Continues
  <2>2. CASE v = w
    <3>1. req'[v] = r
      BY <2>1, <2>2 DEF TypeInv, TypeOK
    <3> QED
      BY <1>2, <2>1, <2>2, <3>1 DEF Continued, Continues
  <2>3. CASE v # w
    BY <2>1, <2>3 DEF TypeInv, TypeOK
  <2> QED
    BY <2>2, <2>3
<1>3. ASSUME NEW w \in Workers, NEW Q, Commits(w, Q) PROVE req'[v] = req[v]
  BY <1>3, CommitIs DEF TypeInv, TypeOK
<1>4. Outside => req' = req
  BY DEF Outside, RemoveUserPlan, Purchase, StaffReport, NextDay, vars
<1> QED
  BY <1>1, <1>2, <1>3, <1>4, StepKinds

\* How a member's row changes.
RowKept(u) ==
  /\ userPlan'[u] = userPlan[u]
  /\ spent'[u] = spent[u] /\ raced[u] \subseteq raced'[u] /\ renewed'[u] = renewed[u]

RowCharged(u) ==
  \E w \in Workers : \E Q :
    Commits(w, Q) /\ Live(w) /\ u = req[w].user /\ userPlan'[u] = Written(w, Q)

LEMMA RowMoves ==
  ASSUME TypeInv, [Next]_vars, NEW u \in Users
  PROVE  RowKept(u) \/ RowCharged(u) \/ RemoveUserPlan(u) \/ \E p \in Plans : Purchase(u, p)
<1>1. ASSUME NEW w \in Workers, Starts(w) PROVE RowKept(u)
  <2>1. PICK r \in Request :
          /\ raced' = [raced EXCEPT ![r.user] = @ \cup (Open(r.user) \cap Charges(r.kind))]
          /\ UNCHANGED <<userPlan, spent, renewed>>
    BY <1>1 DEF Starts
  <2> QED
    BY <2>1 DEF RowKept, TypeInv, TypeOK
<1>2. ASSUME NEW w \in Workers, Continues(w) PROVE RowKept(u)
  BY <1>2 DEF Continues, RowKept
<1>3. ASSUME NEW w \in Workers, NEW Q, Commits(w, Q) PROVE RowKept(u) \/ RowCharged(u)
  <2>1. raced' = raced /\ renewed' = renewed
    BY <1>3, CommitIs DEF TypeInv
  <2>2. CASE userPlan'[u] = userPlan[u] /\ spent'[u] = spent[u]
    BY <2>1, <2>2 DEF RowKept
  <2>3. CASE u = req[w].user /\ Live(w) /\ userPlan'[u] = Written(w, Q)
    BY <1>3, <2>3 DEF RowCharged
  <2> QED
    BY <1>3, <2>2, <2>3, CommitIs DEF TypeInv
<1>4. ASSUME NEW x \in Users, x # u, RemoveUserPlan(x) \/ \E p \in Plans : Purchase(x, p)
      PROVE  RowKept(u)
  BY <1>4 DEF RemoveUserPlan, Purchase, RowKept, TypeInv, TypeOK, history
<1>5. (\E x \in Pairs : StaffReport(x)) \/ NextDay \/ UNCHANGED vars => RowKept(u)
  BY DEF StaffReport, NextDay, vars, history, RowKept
<1> QED
  BY <1>1, <1>2, <1>3, <1>4, <1>5, StepKinds DEF Outside

\* What a request holds or has charged is still about the row it has read.
LEMMA LiveStays ==
  ASSUME TypeInv, [Next]_vars, NEW v \in Workers, req'[v] = req[v] \/ Moved(v, req'[v]),
         req[v] # Idle, req'[v] # Idle, Live(v), RowKept(req[v].user) \/ RowCharged(req[v].user)
  PROVE  Live(v)'
<1>1. req'[v].user = req[v].user /\ req'[v].snap = req[v].snap /\ req[v].user \in Users
  BY RequestIs DEF Moved, TypeInv
<1>2. userPlan'[req[v].user].pk = userPlan[req[v].user].pk
  BY <1>1, CommitKeeps DEF RowKept, RowCharged, TypeInv
<1> QED
  BY <1>1, <1>2 DEF Live

LEMMA HeldStays ==
  ASSUME TypeInv, [Next]_vars
  PROVE  HeldAlive'
<1> SUFFICES ASSUME NEW v \in Workers, req'[v] # Idle
             PROVE  /\ req'[v].pc = "contact" => req'[v].kind = "contact"
                    /\ req'[v].writes # {} =>
                         /\ Live(v)' /\ req'[v].writes = {Contact}
                         /\ req'[v].kind = "contact" /\ req'[v].pc \in {"touch", "charge"}
  BY DEF HeldAlive
<1>1. CASE Starts(v) /\ req[v] = Idle
  BY <1>1 DEF Starts, TypeInv, TypeOK
<1>2. CASE req'[v] = req[v]
  <2>1. /\ req[v].pc = "contact" => req[v].kind = "contact"
        /\ req[v].writes # {} =>
             /\ Live(v) /\ req[v].writes = {Contact}
             /\ req[v].kind = "contact" /\ req[v].pc \in {"touch", "charge"}
    BY <1>2 DEF TypeInv, HeldAlive
  <2>2. req[v].user \in Users
    BY <1>2, RequestIs DEF TypeInv
  <2>3. req[v].writes # {} => RowKept(req[v].user) \/ RowCharged(req[v].user)
    BY <1>2, <2>2, RowMoves DEF RemoveUserPlan, Purchase, HoldsPlan
  <2> QED
    BY <1>2, <2>1, <2>3, LiveStays
<1>3. CASE Continues(v) /\ Continued(v, req'[v]) /\ Moved(v, req'[v]) /\ req[v] # Idle
  <2>1. req[v].writes # {} => Live(v) /\ req[v].writes = {Contact} /\ req[v].kind = "contact"
    BY <1>3 DEF TypeInv, HeldAlive
  <2>2. RowKept(req[v].user)
    BY <1>3 DEF Continues, RowKept
  <2>3. req'[v].kind = req[v].kind
    BY <1>3 DEF Moved
  <2> QED
    BY <1>3, <2>1, <2>2, <2>3, LiveStays DEF Continued
<1> QED
  BY <1>1, <1>2, <1>3, RequestMoves

LEMMA InitTyped == Init => TypeInv
<1> SUFFICES ASSUME Init PROVE TypeInv
  OBVIOUS
<1>1. TypeOK
  BY DEF Init, TypeOK
<1> QED
  BY <1>1 DEF Init, TypeInv, HeldAlive

\* Rows, counters, requests and what is charged keep their types, and a row that a contact
\* unlock keeps waiting is still the row it read (Quota!TypeOK).
THEOREM TypeCorrect == Spec => []TypeInv
<1>1. TypeInv /\ [Next]_vars => TypeInv'
  BY TablesTyped, HeldStays DEF TypeInv
<1> QED
  BY <1>1, InitTyped, PTL DEF Spec

----------------------------------------------------------------------------
(* What is charged.                                                          *)

\* The steps that charge for a profile or for a report.
PaysView(w) ==
  /\ req[w].pc = "charge" /\ req[w].kind # "match" /\ req' = [req EXCEPT ![w] = Idle]
  /\ unlocked' = [unlocked EXCEPT ![req[w].user] = @ \cup {req[w].item}]
  /\ viewCharges' = [viewCharges EXCEPT ![req[w].user][req[w].item] =
                       @ + (IF Consumes(w, View) THEN 1 ELSE 0)]
  /\ UNCHANGED <<matched, matchCharges>>

PaysMatch(w) ==
  /\ req[w].pc = "charge" /\ req[w].kind = "match" /\ req' = [req EXCEPT ![w] = Idle]
  /\ matchCharges' = [matchCharges EXCEPT ![req[w].item] =
                        @ + (IF Consumes(w, Match) THEN 1 ELSE 0)]
  /\ UNCHANGED <<unlocked, matched, viewCharges>>

NonePays == UNCHANGED <<unlocked, viewCharges, matchCharges>> /\ matched \subseteq matched'

LEMMA OnlyPayments ==
  ASSUME [Next]_vars
  PROVE  NonePays \/ \E w \in Workers : PaysView(w) \/ PaysMatch(w)
<1>1. ASSUME NEW w \in Workers, ConsumeView(w) PROVE NonePays \/ PaysView(w)
  BY <1>1, ChargedIs DEF ConsumeView, RollBack, Commit, Become, NonePays, PaysView
<1>2. ASSUME NEW w \in Workers, ConsumeMatch(w) PROVE NonePays \/ PaysMatch(w)
  BY <1>2, ChargedIs DEF ConsumeMatch, RollBack, Commit, Become, NonePays, PaysMatch
<1>3. \/ \E w \in Workers : ConsumeView(w) \/ ConsumeMatch(w)
      \/ NonePays
  BY DEF Next, OpenProfile, UnlockContact, Porutham, Begin, Decide, ConsumeContact, Touch, Abort,
     CreateResult, StaffReport, RollBack, RemoveUserPlan, Purchase, NextDay, vars, history, NonePays
<1> QED
  BY <1>1, <1>2, <1>3

\* How a request comes to the point of being charged.
Charging(w) == req[w].pc = "charge"

ToView(w) ==
  /\ req[w].kind # "match" /\ req[w].item \notin unlocked[req[w].user]
  /\ ViewFree(req[w].user, req[w].item, w)

ToMatch(w) ==
  req[w].kind = "match" /\ req[w].item \notin matched /\ req[w].item \in matched'

LEMMA ComesToCharge ==
  ASSUME TypeInv, [Next]_vars, NEW w \in Workers, Charging(w)'
  PROVE  /\ req[w] # Idle /\ req'[w] # Idle
         /\ \/ req'[w] = req[w]
            \/ Moved(w, req'[w]) /\ (\A v \in Workers \ {w} : req'[v] = req[v])
                 /\ (ToView(w) \/ ToMatch(w)) /\ NonePays
<1> DEFINE Comes ==
      req[w] # Idle /\ Moved(w, req'[w]) /\ (\A v \in Workers \ {w} : req'[v] = req[v])
        /\ (ToView(w) \/ ToMatch(w)) /\ NonePays
<1>1. req'[w] # Idle
  BY DEF Charging, Idle
<1>2. ASSUME NEW v \in Workers, NEW u \in Users,
             \/ \E p \in Profiles : OpenProfile(v, u, p) \/ UnlockContact(v, u, p)
             \/ \E x \in Pairs : Porutham(v, u, x)
      PROVE  req'[w] = req[w]
  <2>1. PICK r : req' = [req EXCEPT ![v] = r] /\ r.pc = "decide"
    BY <1>2, StartsBy DEF Starts, TypeInv
  <2>2. v # w
    BY <2>1 DEF Charging, TypeInv, TypeOK
  <2> QED
    BY <2>1, <2>2 DEF TypeInv, TypeOK
<1>3. ASSUME NEW v \in Workers, NEW r, Become(v, r), r.pc # "charge"
      PROVE  req'[w] = req[w]
  BY <1>3 DEF Become, Charging, TypeInv, TypeOK
<1>4. Idle.pc # "charge"
  BY DEF Idle
<1>5. ASSUME NEW v \in Workers, req[v] # Idle, NEW pc, GoTo(v, pc), pc # "charge"
      PROVE  req'[w] = req[w]
  <2>1. [req[v] EXCEPT !.pc = pc].pc = pc
    BY <1>5, GoToIs DEF TypeInv
  <2> QED
    BY <1>3, <1>5, <2>1 DEF GoTo
<1>6. ASSUME NEW v \in Workers, Decide(v) PROVE req'[w] = req[w]
  <2>1. req[v] # Idle
    BY <1>6, BusyPc DEF Decide
  <2> QED
    BY <1>3, <1>4, <1>5, <1>6, <2>1 DEF Decide
<1>7. ASSUME NEW v \in Workers, ConsumeContact(v) PROVE req'[w] = req[w]
  <2>1. req[v] # Idle
    BY <1>7, BusyPc DEF ConsumeContact
  <2>2. req[v].kind # "match"
    BY <1>7, <2>1, RequestIs DEF ConsumeContact, TypeInv
  <2>3. [req[v] EXCEPT !.pc = "touch", !.writes = {Contact}].pc # "charge"
    BY <2>1, <2>2, HoldIs DEF TypeInv
  <2> QED
    BY <1>3, <1>4, <1>5, <1>7, <2>1, <2>3 DEF ConsumeContact
<1>8. ASSUME NEW v \in Workers, ConsumeView(v) \/ ConsumeMatch(v) \/ Abort(v)
      PROVE  req'[w] = req[w]
  BY <1>3, <1>4, <1>8 DEF ConsumeView, ConsumeMatch, Abort, RollBack, Commit
<1>9. ASSUME NEW v \in Workers, GoTo(v, "charge"), req[v] # Idle, ToView(v) \/ ToMatch(v), NonePays
      PROVE  req'[w] = req[w] \/ Comes
  <2>1. req' = [req EXCEPT ![v] = [req[v] EXCEPT !.pc = "charge"]]
    BY <1>9 DEF GoTo, Become
  <2>2. CASE v = w
    <3>1. req'[w] = [req[w] EXCEPT !.pc = "charge"]
      BY <2>1, <2>2 DEF TypeInv, TypeOK
    <3>2. Moved(w, req'[w])
      BY <1>9, <2>2, <3>1, GoToIs DEF TypeInv
    <3>3. \A x \in Workers \ {w} : req'[x] = req[x]
      BY <2>1, <2>2 DEF TypeInv, TypeOK
    <3> QED
      BY <1>9, <2>2, <3>2, <3>3
  <2>3. CASE v # w
    BY <2>1, <2>3 DEF TypeInv, TypeOK
  <2> QED
    BY <2>2, <2>3
<1>10. ASSUME NEW v \in Workers, Touch(v) PROVE req'[w] = req[w] \/ Comes
  <2>1. req[v] # Idle /\ req[v].kind # "match"
    BY <1>10, BusyPc, RequestIs DEF Touch, TypeInv
  <2>2. CASE Commit(v, req[v].writes)
    BY <1>3, <1>4, <2>2 DEF Commit
  <2>3. CASE GoTo(v, "charge") /\ req[v].item \notin unlocked[req[v].user]
    BY <1>9, <1>10, <2>1, <2>3 DEF Touch, ToView, NonePays
  <2> QED
    BY <1>10, <2>2, <2>3 DEF Touch
<1>11. ASSUME NEW v \in Workers, CreateResult(v) PROVE req'[w] = req[w] \/ Comes
  <2>1. req[v] # Idle /\ req[v].kind = "match"
    BY <1>11, BusyPc, RequestIs DEF CreateResult, TypeInv
  <2>2. CASE Become(v, Idle)
    BY <1>3, <1>4, <2>2
  <2>3. CASE GoTo(v, "charge") /\ req[v].item \notin matched
    BY <1>9, <1>11, <2>1, <2>3 DEF CreateResult, ToMatch, NonePays
  <2> QED
    BY <1>11, <2>2, <2>3 DEF CreateResult
<1>12. Outside => req' = req
  BY DEF Outside, RemoveUserPlan, Purchase, StaffReport, NextDay, vars
<1>13. req'[w] = req[w] \/ Comes
  BY <1>2, <1>6, <1>7, <1>8, <1>10, <1>11, <1>12 DEF Next, Outside
<1> QED
  BY <1>1, <1>13

\* Who is about to be charged for a profile has not opened it, and nobody else is about
\* to be charged for the same profile of the same member; so for reports.
ChargesNew ==
  \A w \in Workers : Charging(w) =>
    IF req[w].kind = "match"
    THEN /\ req[w].item \in matched /\ matchCharges[req[w].item] = 0
         /\ \A v \in Workers \ {w} :
              (Charging(v) /\ req[v].kind = "match") => req[v].item # req[w].item
    ELSE /\ req[w].item \notin unlocked[req[w].user]
         /\ \A v \in Workers \ {w} :
              (Charging(v) /\ req[v].kind # "match") =>
                req[v].user # req[w].user \/ req[v].item # req[w].item

ChargedInv == ChargesNew /\ ChargedOnce

LEMMA InitCharged == Init => ChargedInv
  BY DEF Init, ChargedInv, ChargesNew, ChargedOnce, Charging, Idle

\* A request's own charge is not of the same profile or report as another's.
LEMMA PaymentIsNew ==
  ASSUME TypeInv, ChargedInv, NEW w \in Workers, PaysView(w) \/ PaysMatch(w)
  PROVE  ChargedOnce'
<1>1. req[w] # Idle
  BY BusyPc DEF PaysView, PaysMatch
<1>2. CASE PaysView(w)
  <2> DEFINE u == req[w].user
             p == req[w].item
  <2>1. u \in Users /\ p \in Profiles /\ p \notin unlocked[u]
    BY <1>1, <1>2, RequestIs DEF PaysView, TypeInv, ChargedInv, ChargesNew, Charging
  <2>2. viewCharges[u][p] = 0
    BY <2>1 DEF ChargedInv, ChargedOnce, TypeInv, TypeOK
  <2>3. p \in unlocked'[u] /\ viewCharges'[u][p] \in {0, 1}
    BY <1>2, <2>1, <2>2 DEF PaysView, TypeInv, TypeOK
  <2>4. \A x \in Users, y \in Profiles :
          (x # u \/ y # p) => /\ viewCharges'[x][y] = viewCharges[x][y]
                              /\ y \in unlocked'[x] <=> y \in unlocked[x]
    BY <1>2, <2>1 DEF PaysView, TypeInv, TypeOK
  <2>5. UNCHANGED <<matched, matchCharges>>
    BY <1>2 DEF PaysView
  <2> HIDE DEF u, p
  <2> QED
    BY <2>3, <2>4, <2>5 DEF ChargedInv, ChargedOnce
<1>3. CASE PaysMatch(w)
  <2> DEFINE x == req[w].item
  <2>1. x \in Pairs /\ x \in matched /\ matchCharges[x] = 0
    BY <1>1, <1>3, RequestIs DEF PaysMatch, TypeInv, ChargedInv, ChargesNew, Charging
  <2>2. matchCharges'[x] \in {0, 1}
    BY <1>3, <2>1 DEF PaysMatch, TypeInv, TypeOK
  <2>3. \A y \in Pairs : y # x => matchCharges'[y] = matchCharges[y]
    BY <1>3, <2>1 DEF PaysMatch, TypeInv, TypeOK
  <2>4. UNCHANGED <<unlocked, matched, viewCharges>>
    BY <1>3 DEF PaysMatch
  <2> HIDE DEF x
  <2> QED
    BY <2>1, <2>2, <2>3, <2>4 DEF ChargedInv, ChargedOnce
<1> QED
  BY <1>2, <1>3

LEMMA ChargedOnceStays ==
  ASSUME TypeInv, [Next]_vars, ChargedInv
  PROVE  ChargedOnce'
<1>1. NonePays => ChargedOnce'
  BY DEF NonePays, ChargedInv, ChargedOnce, TypeInv, TypeOK
<1> QED
  BY <1>1, OnlyPayments, PaymentIsNew

\* A request that has come to be charged is still about something new.
NewFor(w) ==
  IF req[w].kind = "match"
  THEN req[w].item \in matched /\ matchCharges[req[w].item] = 0
  ELSE req[w].item \notin unlocked[req[w].user]

Apart(v, w) ==
  /\ req[v].kind = "match" /\ req[w].kind = "match" => req[v].item # req[w].item
  /\ req[v].kind # "match" /\ req[w].kind # "match" =>
       req[v].user # req[w].user \/ req[v].item # req[w].item

LEMMA ChargesNewIs ==
  ChargesNew <=> \A w \in Workers : Charging(w) =>
    NewFor(w) /\ \A v \in Workers \ {w} : Charging(v) => Apart(v, w)
  BY DEF ChargesNew, NewFor, Apart

\* A request comes to be charged when no other one waits to be charged for the same.
LEMMA ComesApart ==
  ASSUME TypeInv, ChargedInv, NEW w \in Workers, req[w] # Idle, ToView(w) \/ ToMatch(w),
         NEW v \in Workers \ {w}, Charging(v)
  PROVE  Apart(v, w)
<1>1. req[v] # Idle
  BY BusyPc DEF Charging
<1>2. CASE ToView(w)
  BY <1>1, <1>2 DEF ToView, ViewFree, Others, Charging, Apart
<1>3. CASE ToMatch(w)
  BY <1>3 DEF ToMatch, ChargedInv, ChargesNew, Charging, Apart
<1> QED
  BY <1>2, <1>3

LEMMA NewStays ==
  ASSUME TypeInv, [Next]_vars, ChargedInv, NEW w \in Workers, Charging(w)'
  PROVE  NewFor(w)'
<1>1. CASE req'[w] = req[w]
  <2>1. Charging(w) /\ req[w] # Idle /\ req'[w] # Idle
    BY <1>1, ComesToCharge DEF Charging
  <2>2. NewFor(w)
    BY <2>1, ChargesNewIs DEF ChargedInv
  <2>3. CASE NonePays
    BY <1>1, <2>2, <2>3 DEF NewFor, NonePays
  <2>4. ASSUME NEW v \in Workers, PaysView(v) \/ PaysMatch(v) PROVE NewFor(w)'
    <3>1. v # w /\ Charging(v) /\ req[v] # Idle
      BY <2>1, <2>4, BusyPc DEF PaysView, PaysMatch, Charging, TypeInv, TypeOK
    <3>2. Apart(w, v)
      BY <2>1, <3>1, ChargesNewIs DEF ChargedInv
    <3>3. /\ req[w].user \in Users /\ req[v].user \in Users
          /\ req[w].kind = "match" => req[w].item \in Pairs
      BY <2>1, <3>1, RequestIs DEF TypeInv
    <3>4. CASE PaysView(v)
      BY <1>1, <2>2, <3>2, <3>3, <3>4 DEF PaysView, Apart, NewFor, TypeInv, TypeOK
    <3>5. CASE PaysMatch(v)
      BY <1>1, <2>2, <3>2, <3>3, <3>5 DEF PaysMatch, Apart, NewFor, TypeInv, TypeOK
    <3> QED
      BY <2>4, <3>4, <3>5
  <2> QED
    BY <2>3, <2>4, OnlyPayments
<1>2. CASE /\ Moved(w, req'[w]) /\ (ToView(w) \/ ToMatch(w)) /\ NonePays
  <2>1. req[w] # Idle
    BY ComesToCharge
  <2>2. CASE ToView(w)
    BY <1>2, <2>2 DEF Moved, ToView, NonePays, NewFor
  <2>3. CASE ToMatch(w)
    <3>1. req[w].item \in Pairs
      BY <2>1, <2>3, RequestIs DEF ToMatch, TypeInv
    <3>2. matchCharges[req[w].item] = 0
      BY <2>3, <3>1 DEF ToMatch, ChargedInv, ChargedOnce, TypeInv, TypeOK
    <3> QED
      BY <1>2, <2>3, <3>2 DEF Moved, ToMatch, NonePays, NewFor
  <2> QED
    BY <1>2, <2>2, <2>3
<1> QED
  BY <1>1, <1>2, ComesToCharge

LEMMA ApartStays ==
  ASSUME TypeInv, [Next]_vars, ChargedInv, NEW w \in Workers, NEW v \in Workers \ {w},
         Charging(w)', Charging(v)'
  PROVE  Apart(v, w)'
<1>1. req[w] # Idle /\ req[v] # Idle
  BY ComesToCharge
<1>2. CASE req'[w] = req[w] /\ req'[v] = req[v]
  <2>1. Charging(w) /\ Charging(v)
    BY <1>2 DEF Charging
  <2> QED
    BY <1>2, <2>1, ChargesNewIs DEF ChargedInv, Apart
<1>3. CASE Moved(w, req'[w]) /\ req'[v] = req[v] /\ (ToView(w) \/ ToMatch(w))
  <2>1. Apart(v, w)
    BY <1>1, <1>3, ComesApart DEF Charging
  <2> QED
    BY <1>3, <2>1 DEF Moved, Apart
<1>4. CASE Moved(v, req'[v]) /\ req'[w] = req[w] /\ (ToView(v) \/ ToMatch(v))
  <2>1. Apart(w, v)
    BY <1>1, <1>4, ComesApart DEF Charging
  <2> QED
    BY <1>4, <2>1 DEF Moved, Apart
<1> QED
  BY <1>2, <1>3, <1>4, ComesToCharge

LEMMA ChargedAlways == Spec => []ChargedInv
<1>1. TypeInv /\ ChargedInv /\ [Next]_vars => ChargedInv'
  <2> SUFFICES ASSUME TypeInv, ChargedInv, [Next]_vars PROVE ChargedInv'
    OBVIOUS
  <2>1. ChargesNew'
    <3>1. \A w \in Workers : Charging(w)' =>
            NewFor(w)' /\ \A v \in Workers \ {w} : Charging(v)' => Apart(v, w)'
      BY NewStays, ApartStays
    <3> QED
      BY <3>1 DEF ChargesNew, NewFor, Apart, Charging
  <2> QED
    BY <2>1, ChargedOnceStays DEF ChargedInv
<1> QED
  BY <1>1, InitCharged, TypeCorrect, PTL DEF Spec

\* Nobody pays twice for a profile, nor anybody for the same report (Quota!ChargedOnce).
THEOREM PaidOnce == Spec => []ChargedOnce
<1>1. ChargedInv => ChargedOnce
  BY DEF ChargedInv
<1> QED
  BY <1>1, ChargedAlways, PTL

\* Whoever unlocks a profile is charged for it in the same step, unless the plan has no
\* limit or has run out meanwhile (Quota!UnlockIsCharged).
THEOREM UnlockCharges == Spec => UnlockIsCharged
<1>1. ASSUME TypeInv, [Next]_vars, NEW u \in Users, NEW p \in Profiles,
             p \in unlocked'[u] \ unlocked[u]
      PROVE  \/ viewCharges'[u][p] = viewCharges[u][p] + 1
             \/ \E w \in Workers :
                  /\ req[w] # Idle /\ req'[w] = Idle
                  /\ req[w].user = u /\ req[w].item = p
                  /\ ~ Consumes(w, View)
  <2>1. PICK w \in Workers : PaysView(w)
    BY <1>1, OnlyPayments DEF NonePays, PaysMatch
  <2>2. req[w] # Idle
    BY <2>1, BusyPc DEF PaysView
  <2>3. req'[w] = Idle
    BY <1>1, <2>1 DEF PaysView, TypeInv, TypeOK
  <2>4. req[w].user = u /\ req[w].item = p
    BY <1>1, <2>1 DEF PaysView, TypeInv, TypeOK
  <2>5. CASE Consumes(w, View)
    <3>1. viewCharges' = [viewCharges EXCEPT ![u][p] = @ + 1]
      BY <2>1, <2>4, <2>5 DEF PaysView
    <3> QED
      BY <1>1, <3>1 DEF TypeInv, TypeOK
  <2> QED
    BY <2>2, <2>3, <2>4, <2>5
<1>2. TypeInv /\ [Next]_vars =>
        [\A u \in Users, p \in Profiles :
           p \in unlocked'[u] \ unlocked[u] =>
             \/ viewCharges'[u][p] = viewCharges[u][p] + 1
             \/ \E w \in Workers :
                  /\ req[w] # Idle /\ req'[w] = Idle
                  /\ req[w].user = u /\ req[w].item = p
                  /\ ~ Consumes(w, View)]_vars
  BY <1>1
<1> QED
  BY <1>2, TypeCorrect, PTL DEF Spec, UnlockIsCharged

----------------------------------------------------------------------------
(***************************************************************************)
(* The counters of Quota: why the stale copies of a plan row that requests *)
(* work on lose no charge but the ones that MetersHold exempts.            *)
(***************************************************************************)

\* A key is given once: a row bought after a removal is never taken for the removed one.
KeysFresh ==
  /\ \A u \in Users : userPlan[u] # NoPlan => userPlan[u].pk < nextId
  /\ \A w \in Workers : req[w] # Idle => req[w].snap.pk < nextId

\* Two requests that can both still write a counter of one row were noted as racing.
RacesSeen ==
  \A w \in Workers, v \in Workers :
    (v # w /\ Live(v) /\ Live(w) /\ req[v].user = req[w].user) =>
      \A q \in Charges(req[v].kind) \cap Charges(req[w].kind) :
        q \in raced[req[w].user] \cup renewed[req[w].user]

\* A cached row agrees with the row it was read from, in whatever the request may charge.
SnapsAgree ==
  \A w \in Workers : Live(w) =>
    LET up == userPlan[req[w].user]
    IN \A q \in Charges(req[w].kind) : q \notin renewed[req[w].user] =>
         /\ req[w].snap.plan = up.plan /\ req[w].snap.bonus = up.bonus
         /\ q \notin raced[req[w].user] => req[w].snap.used[q] = up.used[q]

\* Whatever a request will charge, its cached row has an allowance for.
Checked(w) ==
  /\ (req[w].kind = "open" /\ req[w].pc # "decide") => MayUse(req[w].snap, View)
  /\ req[w].kind = "contact" => MayUse(req[w].snap, Contact)
  /\ (req[w].kind = "contact" /\ req[w].pc # "decide") =>
       req[w].item \in unlocked[req[w].user] \/ MayUse(req[w].snap, View)
  /\ (req[w].kind = "match" /\ req[w].pc # "decide") => MayUse(req[w].snap, Match)

LimitsChecked == \A w \in Workers : req[w] # Idle => Checked(w)

MeterInv == KeysFresh /\ RacesSeen /\ SnapsAgree /\ LimitsChecked /\ MetersHold

----------------------------------------------------------------------------
(* Keys.                                                                     *)

LEMMA NextIdGrows ==
  ASSUME TypeInv, [Next]_vars
  PROVE  nextId' = nextId \/ nextId' = nextId + 1
<1>1. \/ \E u \in Users, p \in Plans : Purchase(u, p)
      \/ nextId' = nextId
  BY StepKinds, CommitIs DEF TypeInv, Starts, Continues, Outside, RemoveUserPlan, StaffReport,
     NextDay, vars
<1> QED
  BY <1>1 DEF Purchase

\* A purchase gives the row a new key, or the key it had.
LEMMA PurchaseIs ==
  ASSUME TypeInv, NEW u \in Users, NEW p \in Plans, Purchase(u, p)
  PROVE  LET new == userPlan'[u]
         IN /\ new \in UserPlanRow
            /\ new.pk = IF userPlan[u] = NoPlan THEN nextId ELSE userPlan[u].pk
            /\ \A q \in Quotas : new.used[q] = 0 /\ spent'[u][q] = 0
            /\ renewed'[u] = IF userPlan[u] = NoPlan THEN {} ELSE Open(u)
            /\ nextId' = nextId + 1 /\ req' = req
<1> DEFINE pk == IF userPlan[u] = NoPlan THEN nextId ELSE userPlan[u].pk
           new == Activated(userPlan[u], pk, p, PlanOnly, 0, 0, today)
<1>1. userPlan'[u] = new
  BY DEF Purchase, TypeInv, TypeOK
<1>2. pk \in Nat /\ today \in Nat /\ userPlan[u] \in UserPlanRow \cup {NoPlan}
  BY DEF TypeInv, TypeOK, UserPlanRow
<1>3. new \in UserPlanRow
  BY <1>2, ActivatedTyped
<1>4. new.pk = pk /\ \A q \in Quotas : new.used[q] = 0
  BY DEF Activated
<1>5. /\ \A q \in Quotas : spent'[u][q] = 0
      /\ renewed'[u] = IF userPlan[u] = NoPlan THEN {} ELSE Open(u)
      /\ nextId' = nextId + 1 /\ req' = req
  BY DEF Purchase, TypeInv, TypeOK
<1> QED
  BY <1>1, <1>3, <1>4, <1>5

LEMMA KeysStay ==
  ASSUME TypeInv, [Next]_vars, KeysFresh
  PROVE  KeysFresh'
<1>1. nextId \in Nat /\ (nextId' = nextId \/ nextId' = nextId + 1)
  BY NextIdGrows DEF TypeInv, TypeOK
<1>2. ASSUME NEW u \in Users, userPlan'[u] # NoPlan PROVE userPlan'[u].pk < nextId'
  <2>1. CASE userPlan'[u].pk = userPlan[u].pk /\ userPlan[u] # NoPlan
    <3>1. userPlan[u].pk < nextId /\ userPlan[u].pk \in Int
      BY <2>1 DEF KeysFresh, TypeInv, TypeOK, UserPlanRow
    <3> QED
      BY <1>1, <2>1, <3>1
  <2>2. CASE RowKept(u)
    BY <1>2, <2>1, <2>2 DEF RowKept
  <2>3. CASE RowCharged(u)
    <3>1. userPlan[u] \in UserPlanRow
      BY <2>3, LiveRow DEF RowCharged, TypeInv
    <3> QED
      BY <2>1, <2>3, <3>1, CommitKeeps, NoPlanIsNoRow DEF RowCharged, TypeInv
  <2>4. CASE RemoveUserPlan(u)
    BY <1>2, <2>4 DEF RemoveUserPlan, TypeInv, TypeOK
  <2>5. ASSUME NEW p \in Plans, Purchase(u, p) PROVE userPlan'[u].pk < nextId'
    <3>1. CASE userPlan[u] = NoPlan
      BY <1>1, <2>5, <3>1, PurchaseIs
    <3>2. CASE userPlan[u] # NoPlan
      BY <2>1, <2>5, <3>2, PurchaseIs
    <3> QED
      BY <3>1, <3>2
  <2> QED
    BY <2>2, <2>3, <2>4, <2>5, RowMoves
<1>3. ASSUME NEW w \in Workers, req'[w] # Idle PROVE req'[w].snap.pk < nextId'
  <2>1. CASE req[w] # Idle /\ req'[w].snap = req[w].snap
    <3>1. req[w].snap.pk < nextId /\ req[w].snap.pk \in Int
      BY <2>1, RequestIs DEF KeysFresh, TypeInv, UserPlanRow
    <3> QED
      BY <1>1, <2>1, <3>1
  <2>2. CASE Starts(w)
    <3>1. PICK r \in Request :
            /\ req' = [req EXCEPT ![w] = r] /\ r.snap = userPlan[r.user]
            /\ CurrentlyActive(userPlan[r.user], today) /\ nextId' = nextId
      BY <2>2 DEF Starts
    <3>2. req'[w].snap = userPlan[r.user] /\ r.user \in Users
      BY <3>1 DEF TypeInv, TypeOK, Request
    <3> QED
      BY <3>1, <3>2 DEF KeysFresh, CurrentlyActive
  <2> QED
    BY <1>3, <2>1, <2>2, RequestMoves DEF Moved
<1> QED
  BY <1>2, <1>3 DEF KeysFresh

----------------------------------------------------------------------------
(* Requests that go on.                                                      *)

Goes(w) == req[w] # Idle /\ req'[w] # Idle /\ Moved(w, req'[w])

\* A request that goes on is about the row it was about, unless that row was bought anew,
\* and then everything it may charge is noted as open at the renewal.
LEMMA LiveBefore ==
  ASSUME TypeInv, [Next]_vars, KeysFresh, NEW w \in Workers, Goes(w), Live(w)'
  PROVE  /\ Live(w) /\ req[w].user \in Users
         /\ \/ RowKept(req[w].user)
            \/ RowCharged(req[w].user)
            \/ Charges(req[w].kind) \subseteq renewed'[req[w].user]
<1> DEFINE u == req[w].user
<1>1. /\ req'[w].user = u /\ req'[w].snap = req[w].snap /\ u \in Users
      /\ req[w].snap.pk \in Nat /\ req[w].snap.pk < nextId
  BY RequestIs DEF Goes, Moved, TypeInv, UserPlanRow, KeysFresh
<1>2. userPlan'[u].pk = req[w].snap.pk
  BY <1>1 DEF Live
<1>3. CASE RowKept(u)
  BY <1>1, <1>2, <1>3 DEF RowKept, Live, Goes
<1>4. CASE RowCharged(u)
  <2>1. userPlan'[u].pk = userPlan[u].pk
    BY <1>1, <1>4, CommitKeeps DEF RowCharged, TypeInv
  <2> QED
    BY <1>1, <1>2, <1>4, <2>1 DEF Live, Goes
<1>5. ~ RemoveUserPlan(u)
  <2>1. RemoveUserPlan(u) => userPlan'[u].pk = -1
    BY <1>1 DEF RemoveUserPlan, NoPlan, TypeInv, TypeOK
  <2> QED
    BY <1>1, <1>2, <2>1
<1>6. ASSUME NEW p \in Plans, Purchase(u, p)
      PROVE  Live(w) /\ Charges(req[w].kind) \subseteq renewed'[u]
  <2>1. userPlan[u] # NoPlan
    BY <1>1, <1>2, <1>6, PurchaseIs DEF TypeInv, TypeOK
  <2>2. Charges(req[w].kind) \subseteq Open(u)
    BY DEF Open, Goes
  <2>3. renewed'[u] = Open(u) /\ userPlan'[u].pk = userPlan[u].pk
    BY <1>1, <1>6, <2>1, PurchaseIs
  <2> QED
    BY <1>2, <2>2, <2>3 DEF Live, Goes
<1> QED
  BY <1>1, <1>3, <1>4, <1>5, <1>6, RowMoves

\* A request that is there was there, or has just read the row.
Reads(w) ==
  /\ req'[w].snap = userPlan[req'[w].user] /\ req'[w].pc = "decide"
  /\ req'[w].user \in Users /\ req[w] = Idle
  /\ req'[w].kind = "contact" => MayUse(req'[w].snap, Contact)
  /\ \A v \in Workers \ {w} : req'[v] = req[v]
  /\ Open(req'[w].user) \cap Charges(req'[w].kind) \subseteq raced'[req'[w].user]
  /\ UNCHANGED <<userPlan, unlocked>>

LEMMA GoesOrReads ==
  ASSUME TypeInv, [Next]_vars, NEW w \in Workers, req'[w] # Idle
  PROVE  Goes(w) \/ Reads(w)
<1>1. CASE Starts(w) /\ req[w] = Idle
  <2>1. PICK r \in Request :
          /\ req' = [req EXCEPT ![w] = r]
          /\ r.pc = "decide" /\ r.snap = userPlan[r.user]
          /\ r.kind = "contact" => MayUse(r.snap, Contact)
          /\ raced' = [raced EXCEPT ![r.user] = @ \cup (Open(r.user) \cap Charges(r.kind))]
          /\ UNCHANGED <<userPlan, unlocked>>
    BY <1>1 DEF Starts
  <2>2. req'[w] = r /\ r.user \in Users /\ \A v \in Workers \ {w} : req'[v] = req[v]
    BY <2>1 DEF TypeInv, TypeOK, Request
  <2>3. Open(r.user) \cap Charges(r.kind) \subseteq raced'[r.user]
    BY <2>1, <2>2 DEF TypeInv, TypeOK
  <2> QED
    BY <1>1, <2>1, <2>2, <2>3 DEF Reads
<1>2. CASE req'[w] = req[w]
  BY <1>2 DEF Goes, Moved
<1>3. CASE Moved(w, req'[w]) /\ req[w] # Idle
  BY <1>3 DEF Goes
<1> QED
  BY <1>1, <1>2, <1>3, RequestMoves

----------------------------------------------------------------------------
(* Races and copies.                                                         *)

\* Somebody who reads a row sees the requests that have it open.
LEMMA ReaderSeesRace ==
  ASSUME TypeInv, [Next]_vars, NEW w \in Workers, Reads(w), NEW v \in Workers, v # w,
         req'[v] # Idle, req'[v].user = req'[w].user
  PROVE  Charges(req'[v].kind) \cap Charges(req'[w].kind) \subseteq raced'[req'[w].user]
<1>1. req'[v] = req[v]
  BY DEF Reads
<1>2. Charges(req'[v].kind) \subseteq Open(req'[w].user)
  BY <1>1 DEF Open
<1> QED
  BY <1>2 DEF Reads

LEMMA RaceOfGoing ==
  ASSUME TypeInv, [Next]_vars, KeysFresh, RacesSeen,
         NEW w \in Workers, Goes(w), Live(w)', NEW v \in Workers, v # w, Goes(v), Live(v)',
         req'[v].user = req'[w].user,
         NEW q \in Charges(req'[v].kind) \cap Charges(req'[w].kind)
  PROVE  q \in raced'[req'[w].user] \cup renewed'[req'[w].user]
<1> DEFINE u == req[w].user
<1>1. /\ Live(w) /\ Live(v) /\ u \in Users
      /\ RowKept(u) \/ RowCharged(u) \/ Charges(req[w].kind) \subseteq renewed'[u]
  BY LiveBefore
<1>2. /\ req'[w].user = u /\ req[v].user = u
      /\ q \in Charges(req[v].kind) \cap Charges(req[w].kind)
  BY DEF Goes, Moved
<1>3. q \in raced[u] \cup renewed[u]
  BY <1>1, <1>2 DEF RacesSeen
<1>4. RowCharged(u) => raced' = raced /\ renewed' = renewed
  BY CommitIs DEF RowCharged, TypeInv
<1> QED
  BY <1>1, <1>2, <1>3, <1>4 DEF RowKept

LEMMA RacesStay ==
  ASSUME TypeInv, [Next]_vars, KeysFresh, RacesSeen
  PROVE  RacesSeen'
<1> SUFFICES ASSUME NEW w \in Workers, NEW v \in Workers, v # w, Live(v)', Live(w)',
                    req'[v].user = req'[w].user,
                    NEW q \in Charges(req'[v].kind) \cap Charges(req'[w].kind)
             PROVE  q \in raced'[req'[w].user] \cup renewed'[req'[w].user]
  BY DEF RacesSeen, Charges
<1>1. req'[w] # Idle /\ req'[v] # Idle
  BY DEF Live
<1>2. CASE Goes(w) /\ Goes(v)
  BY <1>2, RaceOfGoing
<1>3. CASE Reads(w)
  BY <1>1, <1>3, ReaderSeesRace
<1>4. CASE Reads(v)
  BY <1>1, <1>4, ReaderSeesRace
<1> QED
  BY <1>1, <1>2, <1>3, <1>4, GoesOrReads

\* A charge that others make leaves the counters alone that a request may charge alone.
LEMMA OthersCharge ==
  ASSUME TypeInv, [Next]_vars, RacesSeen, NEW w \in Workers, Goes(w), Live(w),
         RowCharged(req[w].user),
         NEW q \in Quotas, q \in Charges(req[w].kind),
         q \notin raced[req[w].user] \cup renewed[req[w].user]
  PROVE  userPlan'[req[w].user].used[q] = userPlan[req[w].user].used[q]
<1>1. PICK v \in Workers : \E Q :
        /\ Commits(v, Q) /\ Live(v) /\ req[w].user = req[v].user
        /\ userPlan'[req[w].user] = Written(v, Q)
  BY DEF RowCharged
<1>2. PICK Q :
        /\ Commits(v, Q) /\ Live(v) /\ req[w].user = req[v].user
        /\ userPlan'[req[w].user] = Written(v, Q)
  BY <1>1
<1>3. v # w
  BY <1>2, CommitIs DEF Goes, TypeInv, TypeOK
<1>4. q \notin Q
  BY <1>2, <1>3 DEF RacesSeen, Commits
<1> QED
  BY <1>2, <1>4, WrittenIs DEF TypeInv

LEMMA SnapsStay ==
  ASSUME TypeInv, [Next]_vars, KeysFresh, RacesSeen, SnapsAgree
  PROVE  SnapsAgree'
<1> SUFFICES ASSUME NEW w \in Workers, Live(w)',
                    NEW q \in Charges(req'[w].kind), q \notin renewed'[req'[w].user]
             PROVE  LET up == userPlan'[req'[w].user]
                    IN /\ req'[w].snap.plan = up.plan /\ req'[w].snap.bonus = up.bonus
                       /\ q \notin raced'[req'[w].user] => req'[w].snap.used[q] = up.used[q]
  BY DEF SnapsAgree, Charges
<1>1. CASE Reads(w)
  BY <1>1 DEF Reads
<1>2. CASE Goes(w)
  <2> DEFINE u == req[w].user
  <2>1. /\ req'[w].user = u /\ req'[w].snap = req[w].snap /\ q \in Charges(req[w].kind)
        /\ q \notin renewed'[u]
    BY <1>2 DEF Goes, Moved
  <2>2. Live(w) /\ u \in Users /\ (RowKept(u) \/ RowCharged(u))
    BY <1>2, <2>1, LiveBefore
  <2>3. q \in Quotas
    BY <2>1, QuotaNames, ChargesAre, RequestIs, <1>2 DEF Goes, TypeInv
  <2>4. RowCharged(u) => raced' = raced /\ renewed' = renewed
    BY CommitIs DEF RowCharged, TypeInv
  <2>5. q \notin renewed[u]
    BY <2>1, <2>2, <2>4 DEF RowKept
  <2>6. /\ req[w].snap.plan = userPlan[u].plan /\ req[w].snap.bonus = userPlan[u].bonus
        /\ q \notin raced[u] => req[w].snap.used[q] = userPlan[u].used[q]
    BY <2>1, <2>2, <2>5 DEF SnapsAgree
  <2>7. CASE RowKept(u)
    BY <2>1, <2>6, <2>7 DEF RowKept
  <2>8. CASE RowCharged(u)
    <3>1. userPlan'[u].plan = userPlan[u].plan /\ userPlan'[u].bonus = userPlan[u].bonus
      BY <2>2, <2>8, CommitKeeps DEF RowCharged, TypeInv
    <3>2. q \notin raced[u] => userPlan'[u].used[q] = userPlan[u].used[q]
      BY <1>2, <2>1, <2>2, <2>3, <2>5, <2>8, OthersCharge
    <3> QED
      BY <2>1, <2>4, <2>6, <2>8, <3>1, <3>2
  <2> QED
    BY <2>2, <2>7, <2>8
<1>3. req'[w] # Idle
  BY DEF Live
<1> QED
  BY <1>1, <1>2, <1>3, GoesOrReads

----------------------------------------------------------------------------
(* Limits.                                                                   *)

LEMMA UnlockedGrows ==
  ASSUME TypeInv, [Next]_vars, NEW u \in Users
  PROVE  unlocked[u] \subseteq unlocked'[u]
<1>1. ASSUME NEW w \in Workers, PaysView(w) PROVE unlocked[u] \subseteq unlocked'[u]
  BY <1>1 DEF PaysView, TypeInv, TypeOK
<1> QED
  BY <1>1, OnlyPayments DEF NonePays, PaysMatch

\* A request that leaves its first step has looked at the limit.
LEMMA DecisionIsChecked ==
  ASSUME TypeInv, NEW w \in Workers, req[w] # Idle, Decide(w), req'[w] # Idle
  PROVE  /\ req[w].kind = "open" => MayUse(req[w].snap, View)
         /\ req[w].kind = "contact" =>
              req[w].item \in unlocked[req[w].user] \/ MayUse(req[w].snap, View)
         /\ req[w].kind = "match" => MayUse(req[w].snap, Match)
<1>1. ~ Become(w, Idle)
  BY DEF Become, TypeInv, TypeOK
<1> QED
  BY <1>1 DEF Decide, Allowed

LEMMA DecidesFirst ==
  ASSUME TypeInv, [Next]_vars, NEW w \in Workers, Goes(w), req[w].pc = "decide"
  PROVE  req'[w] = req[w] \/ Decide(w)
<1>1. ASSUME NEW v \in Workers, NEW r, Become(v, r), v # w PROVE req'[w] = req[w]
  BY <1>1 DEF Become, TypeInv, TypeOK
<1>2. ASSUME NEW v \in Workers, v # w,
             \/ Decide(v) \/ ConsumeContact(v) \/ Touch(v) \/ ConsumeView(v)
             \/ CreateResult(v) \/ ConsumeMatch(v) \/ Abort(v)
      PROVE  req'[w] = req[w]
  BY <1>1, <1>2 DEF Decide, ConsumeContact, Touch, ConsumeView, CreateResult, ConsumeMatch, Abort,
     RollBack, Commit, GoTo
<1>3. ~ Abort(w)
  BY DEF Abort, RollBack, Become, Goes, TypeInv, TypeOK
<1>4. ~ (Touch(w) \/ ConsumeContact(w) \/ ConsumeView(w) \/ CreateResult(w) \/ ConsumeMatch(w))
  BY DEF Touch, ConsumeContact, ConsumeView, CreateResult, ConsumeMatch
<1>5. ASSUME NEW v \in Workers, NEW u \in Users,
             \/ \E p \in Profiles : OpenProfile(v, u, p) \/ UnlockContact(v, u, p)
             \/ \E x \in Pairs : Porutham(v, u, x)
      PROVE  req'[w] = req[w]
  <2>1. PICK r : req' = [req EXCEPT ![v] = r] /\ req[v] = Idle
    BY <1>5, StartsBy DEF Starts, TypeInv
  <2> QED
    BY <2>1 DEF Goes, TypeInv, TypeOK
<1>6. Outside => req'[w] = req[w]
  BY DEF Outside, RemoveUserPlan, Purchase, StaffReport, NextDay, vars
<1> QED
  BY <1>2, <1>3, <1>4, <1>5, <1>6 DEF Next, Outside

LEMMA LimitsStay ==
  ASSUME TypeInv, [Next]_vars, LimitsChecked
  PROVE  LimitsChecked'
<1> SUFFICES ASSUME NEW w \in Workers, req'[w] # Idle PROVE Checked(w)'
  BY DEF LimitsChecked
<1>1. CASE Reads(w)
  BY <1>1 DEF Reads, Checked
<1>2. CASE Goes(w)
  <2>1. /\ req'[w].user = req[w].user /\ req'[w].kind = req[w].kind
        /\ req'[w].item = req[w].item /\ req'[w].snap = req[w].snap
        /\ Checked(w) /\ req[w] # Idle
    BY <1>2 DEF Goes, Moved, LimitsChecked
  <2>2. unlocked[req[w].user] \subseteq unlocked'[req[w].user]
    BY <2>1, RequestIs, UnlockedGrows DEF TypeInv
  <2>3. CASE req[w].pc # "decide" \/ req'[w] = req[w]
    BY <2>1, <2>2, <2>3 DEF Checked
  <2>4. CASE Decide(w)
    BY <1>2, <2>1, <2>2, <2>4, DecisionIsChecked DEF Checked
  <2> QED
    BY <1>2, <2>3, <2>4, DecidesFirst
<1> QED
  BY <1>1, <1>2, GoesOrReads

----------------------------------------------------------------------------
(* Counters.                                                                 *)

\* What a request charges it has an allowance for.
LEMMA ChargeIsAllowed ==
  ASSUME TypeInv, LimitsChecked, ChargedInv, NEW w \in Workers, NEW Q, Commits(w, Q), NEW q \in Q
  PROVE  q \in Charges(req[w].kind) /\ MayUse(req[w].snap, q)
<1>1. /\ Checked(w) /\ req[w] # Idle /\ req[w].pc # "decide"
      /\ q \in Charges(req[w].kind) /\ req[w].kind \in {"open", "contact", "match"}
  BY RequestIs DEF Commits, LimitsChecked, TypeInv
<1>2. CASE q = View /\ req[w].kind = "contact"
  <2>1. Charging(w)
    BY <1>2 DEF Commits, Charging
  <2>2. req[w].item \notin unlocked[req[w].user]
    BY <1>2, <2>1 DEF ChargedInv, ChargesNew
  <2> QED
    BY <1>1, <1>2, <2>2 DEF Checked
<1>3. CASE ~ (q = View /\ req[w].kind = "contact")
  BY <1>1, <1>3, ChargesAre DEF Checked
<1> QED
  BY <1>2, <1>3

\* One more action within the allowance does not pass it.
LEMMA OneMoreFits ==
  ASSUME NEW up \in UserPlanRow, NEW q \in Quotas, Metered(up.plan, q), MayUse(up, q)
  PROVE  up.used[q] + 1 <= EffectiveLimit(up, q)
<1> DEFINE l == EffectiveLimit(up, q)
<1>1. l \in Nat /\ up.used[q] \in Nat
  BY PlanAssumption DEF EffectiveLimit, UserPlanRow
<1>2. Max0(l - up.used[q]) > 0
  BY DEF MayUse, Remaining
<1> HIDE DEF l
<1>3. l - up.used[q] > 0
  BY <1>1, <1>2 DEF Max0
<1> QED
  BY <1>1, <1>3 DEF l

Exact(u, q) ==
  (userPlan[u] # NoPlan /\ Metered(userPlan[u].plan, q) /\ q \notin renewed[u]) =>
    /\ q \notin raced[u] => userPlan[u].used[q] = spent[u][q]
    /\ userPlan[u].used[q] <= EffectiveLimit(userPlan[u], q)

LEMMA ChargeIsExact ==
  ASSUME TypeInv, MeterInv, ChargedInv, NEW u \in Users, NEW q \in Quotas, RowCharged(u),
         Metered(userPlan'[u].plan, q), q \notin renewed'[u]
  PROVE  /\ q \notin raced'[u] => userPlan'[u].used[q] = spent'[u][q]
         /\ userPlan'[u].used[q] <= EffectiveLimit(userPlan'[u], q)
<1>1. PICK w \in Workers : \E Q :
        Commits(w, Q) /\ Live(w) /\ u = req[w].user /\ userPlan'[u] = Written(w, Q)
  BY DEF RowCharged
<1>2. PICK Q : Commits(w, Q) /\ Live(w) /\ u = req[w].user /\ userPlan'[u] = Written(w, Q)
  BY <1>1
<1> DEFINE up == userPlan[u]
           new == userPlan'[u]
           snap == req[w].snap
<1>3. /\ up \in UserPlanRow /\ snap \in UserPlanRow
      /\ up # NoPlan /\ raced' = raced /\ renewed' = renewed /\ spent[u][q] \in Nat
  BY <1>2, LiveRow, RequestIs, NoPlanIsNoRow, CommitIs DEF Live, TypeInv, TypeOK
<1>4. /\ new.plan = up.plan /\ new.bonus = up.bonus
      /\ new.used[q] = IF q \in Q THEN snap.used[q] + 1 ELSE up.used[q]
  BY <1>2, WrittenIs DEF TypeInv
<1>5. EffectiveLimit(new, q) = EffectiveLimit(up, q) /\ Metered(up.plan, q)
  BY <1>4 DEF EffectiveLimit
<1>6. /\ q \notin raced[u] => up.used[q] = spent[u][q]
      /\ up.used[q] <= EffectiveLimit(up, q)
  BY <1>3, <1>5 DEF MeterInv, MetersHold
<1>7. CASE q \in Q
  <2>1. /\ snap.plan = up.plan /\ snap.bonus = up.bonus /\ MayUse(snap, q)
        /\ q \notin raced[u] => snap.used[q] = up.used[q]
    BY <1>2, <1>3, <1>7, ChargeIsAllowed DEF MeterInv, SnapsAgree
  <2>2. snap.used[q] + 1 <= EffectiveLimit(snap, q)
    BY <1>3, <1>5, <2>1, OneMoreFits
  <2>3. EffectiveLimit(snap, q) = EffectiveLimit(new, q)
    BY <1>4, <2>1 DEF EffectiveLimit
  <2>4. q \notin raced[u] => spent'[u][q] = spent[u][q] + 1
    <3>1. \/ userPlan'[u] = userPlan[u] /\ spent'[u] = spent[u]
          \/ spent'[u][q] = IF q \in Q \ (raced[u] \cup renewed[u])
                            THEN spent[u][q] + 1 ELSE spent[u][q]
      BY <1>2, CommitIs DEF TypeInv
    <3>2. q \notin raced[u] => userPlan'[u] # userPlan[u]
      <4>1. up.used[q] \in Nat
        BY <1>3 DEF UserPlanRow
      <4> QED
        BY <1>4, <1>7, <2>1, <4>1
    <3> QED
      BY <1>3, <1>7, <3>1, <3>2
  <2> HIDE DEF up, new, snap
  <2> QED
    BY <1>3, <1>4, <1>6, <1>7, <2>1, <2>2, <2>3, <2>4 DEF up, new
<1>8. CASE q \notin Q
  <2>1. spent'[u][q] = spent[u][q]
    BY <1>2, <1>8, CommitIs DEF TypeInv
  <2> QED
    BY <1>3, <1>4, <1>5, <1>6, <1>8, <2>1
<1> QED
  BY <1>7, <1>8

LEMMA ExactStays ==
  ASSUME TypeInv, [Next]_vars, MeterInv, ChargedInv, NEW u \in Users, NEW q \in Quotas
  PROVE  Exact(u, q)'
<1>1. CASE RowKept(u)
  <2>1. Exact(u, q)
    BY DEF MeterInv, MetersHold, Exact
  <2> QED
    BY <1>1, <2>1 DEF RowKept, Exact
<1>2. CASE RowCharged(u)
  BY <1>2, ChargeIsExact DEF Exact
<1>3. CASE RemoveUserPlan(u)
  BY <1>3 DEF RemoveUserPlan, Exact, TypeInv, TypeOK
<1>4. ASSUME NEW p \in Plans, Purchase(u, p) PROVE Exact(u, q)'
  <2>1. userPlan'[u] \in UserPlanRow /\ userPlan'[u].used[q] = 0 /\ spent'[u][q] = 0
    BY <1>4, PurchaseIs
  <2>2. EffectiveLimit(userPlan'[u], q) \in Nat
    BY <2>1, PlanAssumption DEF EffectiveLimit, UserPlanRow
  <2> QED
    BY <2>1, <2>2 DEF Exact
<1> QED
  BY <1>1, <1>2, <1>3, <1>4, RowMoves

LEMMA InitMeters == Init => MeterInv
<1> SUFFICES ASSUME Init PROVE MeterInv
  OBVIOUS
<1>1. KeysFresh /\ RacesSeen /\ SnapsAgree /\ LimitsChecked
  BY DEF Init, KeysFresh, RacesSeen, SnapsAgree, LimitsChecked, Live
<1>2. MetersHold
  BY DEF Init, MetersHold
<1> QED
  BY <1>1, <1>2 DEF MeterInv

\* A counter that no two requests had open at once, and that was not open while the plan was
\* bought anew, says what was charged, and one that was not open at a renewal never passes the
\* allowance (Quota!MetersHold).
THEOREM Metering == Spec => []MetersHold
<1>1. TypeInv /\ ChargedInv /\ MeterInv /\ [Next]_vars => MeterInv'
  <2> SUFFICES ASSUME TypeInv, ChargedInv, MeterInv, [Next]_vars PROVE MeterInv'
    OBVIOUS
  <2>1. KeysFresh' /\ RacesSeen' /\ SnapsAgree' /\ LimitsChecked'
    BY KeysStay, RacesStay, SnapsStay, LimitsStay DEF MeterInv
  <2>2. MetersHold'
    BY ExactStays DEF MetersHold, Exact
  <2> QED
    BY <2>1, <2>2 DEF MeterInv
<1>2. MeterInv => MetersHold
  BY DEF MeterInv
<1> QED
  BY <1>1, <1>2, InitMeters, TypeCorrect, ChargedAlways, PTL DEF Spec

=============================================================================
