------------------------------- MODULE Quota -------------------------------
(***************************************************************************)
(* The metered features of a plan and the requests that consume them:      *)
(* opening a profile (profiles/views.py), unlocking a contact              *)
(* (plans/views.py) and a porutham report (astrology/views.py), against    *)
(* the same member's purchases and plan removals.                          *)
(*                                                                         *)
(* request.user caches the member's plan row: a request reads it once, at  *)
(* its first limit check, and every later check and counter update of that *)
(* request works on the cached object.  An update writes the counter's     *)
(* column only (save with update_fields).                                  *)
(*                                                                         *)
(* A step is one database statement outside a transaction, and one         *)
(* statement that takes a row lock inside one.  What a transaction has     *)
(* written stays in the request record until it commits; its row locks are *)
(* the records other requests wait for.                                    *)
(***************************************************************************)
EXTENDS PlanRecords, FiniteSets

CONSTANTS
  Users, Workers,
  Profiles,                  \* profiles of other members
  Pairs,                     \* bride and groom pairs
  MaxDay, MaxPurchases       \* bounds of the model

View == "profile_view"
Contact == "contact_view"
Match == "horoscope_match"

ASSUME QuotaAssumption ==
  /\ {View, Contact, Match} \subseteq Quotas
  /\ {MaxDay, MaxPurchases} \subseteq Nat

VARIABLES
  userPlan,     \* userPlan[u]: the member's plans_user_plan row
  nextId,       \* the next primary key
  unlocked,     \* unlocked[u]: profiles with plans_profile_view.unlocked
  matched,      \* pairs with an astrology_porutham_result row
  req,          \* req[w]: the request worker w is serving
  today,
  spent,        \* history: spent[u][q], actions charged since the purchase (see Commit)
  viewCharges,  \* history: viewCharges[u][p], profile views charged for p
  matchCharges, \* history: matchCharges[x], reports charged for pair x
  raced,        \* history: raced[u], quotas two requests of u had open at once
  renewed       \* history: renewed[u], quotas open when u's row was renewed

history == <<spent, viewCharges, matchCharges, raced, renewed>>
vars == <<userPlan, nextId, unlocked, matched, req, today, history>>

Request ==
  [pc : {"decide", "contact", "touch", "charge"}, kind : {"open", "contact"},
   user : Users, item : Profiles, snap : UserPlanRow, writes : SUBSET Quotas]
  \cup
  [pc : {"decide", "create", "charge"}, kind : {"match"},
   user : Users, item : Pairs, snap : UserPlanRow, writes : {{}}]

Idle == [pc |-> "idle"]

TypeOK ==
  /\ userPlan \in [Users -> UserPlanRow \cup {NoPlan}]
  /\ {nextId, today} \subseteq Nat
  /\ unlocked \in [Users -> SUBSET Profiles]
  /\ matched \subseteq Pairs
  /\ req \in [Workers -> Request \cup {Idle}]
  /\ spent \in [Users -> [Quotas -> Nat]]
  /\ viewCharges \in [Users -> [Profiles -> Nat]]
  /\ matchCharges \in [Pairs -> Nat]
  /\ raced \in [Users -> SUBSET Quotas] /\ renewed \in [Users -> SUBSET Quotas]

Init ==
  /\ userPlan = [u \in Users |-> NoPlan]
  /\ nextId = 0 /\ today = 0
  /\ unlocked = [u \in Users |-> {}] /\ matched = {}
  /\ req = [w \in Workers |-> Idle]
  /\ spent = [u \in Users |-> [q \in Quotas |-> 0]]
  /\ viewCharges = [u \in Users |-> [p \in Profiles |-> 0]]
  /\ matchCharges = [x \in Pairs |-> 0]
  /\ raced = [u \in Users |-> {}] /\ renewed = [u \in Users |-> {}]

----------------------------------------------------------------------------
(* The cached plan row of a request.                                         *)

\* PlanLimitService.can_*: the cached row against the clock of this moment.
Allowed(w, q) == CurrentlyActive(req[w].snap, today) /\ MayUse(req[w].snap, q)

\* PlanLimitService.consume_* does nothing for an unlimited feature, nor when
\* the plan has run out since the check.
Consumes(w, q) ==
  CurrentlyActive(req[w].snap, today) /\ Metered(req[w].snap.plan, q)

\* Mutant: the counter is saved with every other column of the cached row.
SavesAllColumns(w, Q) ==
  [req[w].snap EXCEPT !.used =
     [q \in Quotas |-> IF q \in Q THEN req[w].snap.used[q] + 1 ELSE @[q]]]

\* The row after the updates of the columns Q: cached counters plus one.
Written(w, Q) ==
  [userPlan[req[w].user] EXCEPT !.used =
     [q \in Quotas |-> IF q \in Q THEN req[w].snap.used[q] + 1 ELSE @[q]]]

\* An update by key of a row that is gone raises DatabaseError.
RowGone(w) == userPlan[req[w].user].pk # req[w].snap.pk

----------------------------------------------------------------------------
(* Row locks.                                                                *)

Others(w) == {v \in Workers \ {w} : req[v] # Idle}

\* The transaction of v has updated the plan row of u.
HoldsPlan(v, u) == req[v] # Idle /\ req[v].user = u /\ req[v].writes # {}

\* No other transaction than w's has.
PlanFree(u, w) == \A v \in Workers \ {w} : ~ HoldsPlan(v, u)

\* No other transaction has written the plans_profile_view row of u and p.
ViewFree(u, p, w) ==
  \A v \in Others(w) :
    ~ (req[v].pc = "charge" /\ req[v].kind # "match"
         /\ req[v].user = u /\ req[v].item = p)

----------------------------------------------------------------------------
(* Requests.                                                                 *)

Charges(kind) ==
  CASE kind = "open" -> {View}
    [] kind = "contact" -> {View, Contact}
    [] kind = "match" -> {Match}

\* The quotas that requests of u may still charge.
Open(u) == UNION {Charges(req[v].kind) : v \in {v \in Workers : req[v] # Idle /\ req[v].user = u}}

Begin(w, kind, u, item) ==
  /\ req[w] = Idle
  /\ CurrentlyActive(userPlan[u], today)
  /\ req' = [req EXCEPT ![w] = [pc |-> "decide", kind |-> kind, user |-> u, item |-> item,
                                snap |-> userPlan[u], writes |-> {}]]
  /\ raced' = [raced EXCEPT ![u] = @ \cup (Open(u) \cap Charges(kind))]
  /\ UNCHANGED <<userPlan, nextId, unlocked, matched, today, spent, viewCharges,
                 matchCharges, renewed>>

\* The three views.  A member without an active plan is refused (or shown the
\* restricted profile), which changes nothing.
OpenProfile(w, u, p) == Begin(w, "open", u, p)

UnlockContact(w, u, p) ==
  /\ CurrentlyActive(userPlan[u], today)
  /\ MayUse(userPlan[u], Contact)
  /\ Begin(w, "contact", u, p)

Porutham(w, u, x) == Begin(w, "match", u, x)

Become(w, r) ==
  /\ req' = [req EXCEPT ![w] = r]
  /\ UNCHANGED <<nextId, today, raced, renewed>>

GoTo(w, pc) == Become(w, [req[w] EXCEPT !.pc = pc])

\* has_unlocked_profile (or the query for an earlier report), then the limit.
Decide(w) ==
  LET r == req[w]
  IN /\ r.pc = "decide"
     /\ \/ /\ r.kind = "open"
           /\ IF r.item \notin unlocked[r.user] /\ Allowed(w, View)
              THEN GoTo(w, "touch") ELSE Become(w, Idle)
        \/ /\ r.kind = "contact"
           /\ IF r.item \in unlocked[r.user] \/ Allowed(w, View)
              THEN GoTo(w, "contact") ELSE Become(w, Idle)
        \/ /\ r.kind = "match"
           /\ IF r.item \notin matched /\ Allowed(w, Match)
              THEN GoTo(w, "create") ELSE Become(w, Idle)
     /\ UNCHANGED <<userPlan, unlocked, matched, spent, viewCharges, matchCharges>>

\* The request fails; whatever its transaction has written is rolled back.
RollBack(w) ==
  /\ Become(w, Idle)
  /\ UNCHANGED <<userPlan, unlocked, matched, spent, viewCharges, matchCharges>>

\* The updates of the columns Q become visible.  An action is counted as spent
\* for as long as q is neither raced nor renewed.
Commit(w, Q) ==
  LET u == req[w].user
  IN /\ Become(w, Idle)
     /\ userPlan' = IF Q = {} THEN userPlan ELSE [userPlan EXCEPT ![u] = Written(w, Q)]
     /\ spent' = [spent EXCEPT ![u] = [q \in Quotas |->
                    IF q \in Q \ (raced[u] \cup renewed[u]) THEN @[q] + 1 ELSE @[q]]]

\* The contact unlock's transaction: first its contact counter ...
ConsumeContact(w) ==
  /\ req[w].pc = "contact"
  /\ IF Consumes(w, Contact)
     THEN /\ PlanFree(req[w].user, w)
          /\ IF RowGone(w) THEN Become(w, Idle)
             ELSE Become(w, [req[w] EXCEPT !.pc = "touch", !.writes = {Contact}])
     ELSE GoTo(w, "touch")
  /\ UNCHANGED <<userPlan, unlocked, matched, spent, viewCharges, matchCharges>>

\* Mutant: whether the unlock is new is judged from the earlier query.
TouchWithoutRecheck(w) ==
  /\ req[w].pc = "touch"
  /\ ViewFree(req[w].user, req[w].item, w)
  /\ GoTo(w, "charge")
  /\ UNCHANGED <<userPlan, unlocked, matched, spent, viewCharges, matchCharges>>

\* Mutant: the profile is marked unlocked outside the transaction.
TouchCommits(w) ==
  LET u == req[w].user
      p == req[w].item
  IN /\ req[w].pc = "touch"
     /\ \/ /\ p \in unlocked[u]
           /\ Commit(w, req[w].writes)
           /\ UNCHANGED unlocked
        \/ /\ p \notin unlocked[u]
           /\ unlocked' = [unlocked EXCEPT ![u] = @ \cup {p}]
           /\ GoTo(w, "charge")
           /\ UNCHANGED <<userPlan, spent>>
     /\ UNCHANGED <<matched, viewCharges, matchCharges>>

\* ... then, for both, ProfileView.touch(unlock=True), which locks or inserts
\* the row and only then looks whether it is unlocked ...
Touch(w) ==
  LET u == req[w].user
      p == req[w].item
  IN /\ req[w].pc = "touch"
     /\ ViewFree(u, p, w)
     /\ \/ /\ p \in unlocked[u]
           /\ Commit(w, req[w].writes)
        \/ /\ p \notin unlocked[u]
           /\ GoTo(w, "charge")
           /\ UNCHANGED <<userPlan, spent>>
     /\ UNCHANGED <<unlocked, matched, viewCharges, matchCharges>>

\* ... and, for a new unlock, the profile view counter and the commit.
ConsumeView(w) ==
  LET u == req[w].user
      p == req[w].item
      charged == IF Consumes(w, View) THEN {View} ELSE {}
  IN /\ req[w].pc = "charge" /\ req[w].kind # "match"
     /\ charged # {} => PlanFree(u, w)
     /\ IF charged # {} /\ RowGone(w) THEN RollBack(w)
        ELSE /\ Commit(w, req[w].writes \cup charged)
             /\ unlocked' = [unlocked EXCEPT ![u] = @ \cup {p}]
             /\ viewCharges' = [viewCharges EXCEPT ![u][p] = @ + Cardinality(charged)]
             /\ UNCHANGED <<matched, matchCharges>>

\* update_or_create of the report; the unique key lets one request create it.
CreateResult(w) ==
  /\ req[w].pc = "create"
  /\ matched' = matched \cup {req[w].item}
  /\ IF req[w].item \in matched THEN Become(w, Idle) ELSE GoTo(w, "charge")
  /\ UNCHANGED <<userPlan, unlocked, spent, viewCharges, matchCharges>>

\* The request that created the report pays for it, in a statement of its own.
ConsumeMatch(w) ==
  LET charged == IF Consumes(w, Match) THEN {Match} ELSE {}
  IN /\ req[w].pc = "charge" /\ req[w].kind = "match"
     /\ charged # {} => PlanFree(req[w].user, w)
     /\ IF charged # {} /\ RowGone(w) THEN RollBack(w)
        ELSE /\ Commit(w, charged)
             /\ matchCharges' = [matchCharges EXCEPT ![req[w].item] = @ + Cardinality(charged)]
             /\ UNCHANGED <<unlocked, matched, viewCharges>>

\* A process dies, the client's connection is cut, or the database ends a
\* deadlock (a contact unlock holds the plan row and waits for the profile view
\* row, a profile opening holds that and waits for the plan row).
Abort(w) == req[w] # Idle /\ RollBack(w)

----------------------------------------------------------------------------
(* What happens to the plan row meanwhile.                                   *)

\* A purchase holds the row from its read to its commit, and resets the counters.
Purchase(u, p) ==
  /\ nextId < MaxPurchases
  /\ \A w \in Workers : ~ HoldsPlan(w, u)
  /\ userPlan' = [userPlan EXCEPT ![u] =
       Activated(@, IF @ = NoPlan THEN nextId ELSE @.pk, p, PlanOnly, 0, 0, today)]
  /\ nextId' = nextId + 1
  /\ spent' = [spent EXCEPT ![u] = [q \in Quotas |-> 0]]
  /\ raced' = [raced EXCEPT ![u] = {}]
  /\ renewed' = [renewed EXCEPT ![u] = IF userPlan[u] = NoPlan THEN {} ELSE Open(u)]
  /\ UNCHANGED <<unlocked, matched, req, today, viewCharges, matchCharges>>

\* MyPlanView.delete; the profiles unlocked stay so.
RemoveUserPlan(u) ==
  /\ userPlan[u] # NoPlan
  /\ \A w \in Workers : ~ HoldsPlan(w, u)
  /\ userPlan' = [userPlan EXCEPT ![u] = NoPlan]
  /\ UNCHANGED <<nextId, unlocked, matched, req, today, history>>

\* A member of staff runs the same pair: a report nobody is charged for.
StaffReport(x) ==
  /\ x \notin matched
  /\ matched' = matched \cup {x}
  /\ UNCHANGED <<userPlan, nextId, unlocked, req, today, history>>

NextDay ==
  /\ today < MaxDay
  /\ today' = today + 1
  /\ UNCHANGED <<userPlan, nextId, unlocked, matched, req, history>>

Next ==
  \/ \E w \in Workers, u \in Users :
       \/ \E p \in Profiles : OpenProfile(w, u, p) \/ UnlockContact(w, u, p)
       \/ \E x \in Pairs : Porutham(w, u, x)
  \/ \E w \in Workers :
       \/ Decide(w) \/ ConsumeContact(w) \/ Touch(w) \/ ConsumeView(w)
       \/ CreateResult(w) \/ ConsumeMatch(w) \/ Abort(w)
  \/ \E u \in Users : RemoveUserPlan(u) \/ \E p \in Plans : Purchase(u, p)
  \/ \E x \in Pairs : StaffReport(x)
  \/ NextDay

Spec == Init /\ [][Next]_vars

----------------------------------------------------------------------------
(* Properties.                                                               *)

\* A counter says how many actions it was charged for since the purchase, and does not
\* pass the allowance: requests for different features, served at the same time from
\* stale copies of one row, do not disturb each other's counters, and two requests for
\* one feature lose a charge at most.  Exempt are a counter two requests had open at
\* once, from the first, and one open while the plan was bought anew, from both
\* (PlanLimitService.can_*, consume_*).
MetersHold ==
  \A u \in Users, q \in Quotas :
    (userPlan[u] # NoPlan /\ Metered(userPlan[u].plan, q) /\ q \notin renewed[u]) =>
      /\ q \notin raced[u] => userPlan[u].used[q] = spent[u][q]
      /\ userPlan[u].used[q] <= EffectiveLimit(userPlan[u], q)

\* A member pays at most once to open a profile, only for a profile that is then
\* open, and a pair's report is paid for at most once, by whoever asks: also when
\* a profile opening and a contact unlock, or two reports, race each other.
ChargedOnce ==
  /\ \A u \in Users, p \in Profiles :
       viewCharges[u][p] <= IF p \in unlocked[u] THEN 1 ELSE 0
  /\ \A x \in Pairs : matchCharges[x] <= IF x \in matched THEN 1 ELSE 0

\* A profile is unlocked in the very step that charges for it: no failure leaves
\* an unlocked profile that was not paid for, except by a plan that has no limit
\* or that ran out between the check and the charge.
UnlockIsCharged ==
  [][\A u \in Users, p \in Profiles :
       p \in unlocked'[u] \ unlocked[u] =>
         \/ viewCharges'[u][p] = viewCharges[u][p] + 1
         \/ \E w \in Workers :
              /\ req[w] # Idle /\ req'[w] = Idle
              /\ req[w].user = u /\ req[w].item = p
              /\ ~ Consumes(w, View)]_vars

----------------------------------------------------------------------------
(* What the repository says of itself and the code does not guarantee.       *)

\* "Consume methods decrement the usage counter when the action is performed."
ConsumeMovesCounter ==
  [][\A u \in Users, p \in Profiles :
       viewCharges'[u][p] > viewCharges[u][p]
         => userPlan'[u].used[View] = userPlan[u].used[View] + 1]_vars
=============================================================================
