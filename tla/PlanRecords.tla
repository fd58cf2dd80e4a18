---------------------------- MODULE PlanRecords ----------------------------
(***************************************************************************)
(* The rows of the plans application and the pure rules that compute them  *)
(* (plans/models.py, plans/services.py, plans/razorpay_client.py).  Money  *)
(* is in whole rupees, dates are day numbers.  The modules that keep a     *)
(* subscription table (Fulfillment, Quota) share these rules.              *)
(***************************************************************************)
EXTENDS Integers

CONSTANTS
  Plans,     \* plans_plan rows
  Quotas,    \* the metered features: profile view, interest, chat, ...
  Limit,     \* Limit[p][q]: the plan's limit columns; 0 means unlimited
  Duration   \* Duration[p]: duration_days

ASSUME PlanAssumption ==
  /\ Limit \in [Plans -> [Quotas -> Nat]]
  /\ Duration \in [Plans -> Nat]

PlanOnly == "plan_only"
Full == "full"
PaymentOptions == {PlanOnly, Full}

\* A plans_user_plan row; pk tells a re-created row from the deleted one.
UserPlanRow ==
  [pk : Nat, plan : Plans, price_paid : Nat, service_charge : Nat,
   service_charge_paid : Nat, valid_until : Nat, is_active : BOOLEAN,
   bonus : [Quotas -> Nat], used : [Quotas -> Nat]]

\* The absent row, tagged so that it is comparable with a row.
NoPlan == [pk |-> -1]

Max0(x) == IF x > 0 THEN x ELSE 0

inr_to_paise(r) == 100 * r

----------------------------------------------------------------------------
(* Quotas. *)

\* Unlimited features (limit 0) are never metered.
Metered(p, q) == Limit[p][q] # 0

\* The allowance of a row: the plan's limit plus what was carried forward.
EffectiveLimit(up, q) == Limit[up.plan][q] + up.bonus[q]

Remaining(up, q) ==
  IF Metered(up.plan, q) THEN Max0(EffectiveLimit(up, q) - up.used[q]) ELSE 0

MayUse(up, q) == Metered(up.plan, q) => Remaining(up, q) > 0

----------------------------------------------------------------------------
(* Amounts. *)

\* Mutant: a plan dearer than the service charge is not clamped to zero.
PurchaseAmountUnclamped(option, price, charge) ==
  IF option = Full THEN charge - price ELSE price

\* compute_plan_purchase_amounts: what checkout charges, and what it credits
\* towards the service charge.
PurchaseAmount(option, price, charge) ==
  IF option = Full THEN Max0(charge - price) ELSE price

ChargePaidAfter(option, price, charge) ==
  IF option = Full THEN charge ELSE price

\* Legacy rows carry price_paid but no service_charge_paid.
EffectivePaid(up) ==
  IF up.service_charge_paid <= 0 /\ up.price_paid > 0
  THEN up.price_paid ELSE up.service_charge_paid

\* _effective_service_charge_paid(repair_legacy=True) also stores it.
Repaired(up) == [up EXCEPT !.service_charge_paid = EffectivePaid(up)]

\* Negative when more than the charge has been credited.
ChargeRemaining(up) == up.service_charge - EffectivePaid(up)

----------------------------------------------------------------------------
(* Purchase. *)

\* resolve_current_active_user_plan
CurrentlyActive(up, today) ==
  /\ up # NoPlan
  /\ up.is_active
  /\ ~ (up.valid_until < today)

\* Mutant: a purchase counts its days from today.
ActivatedFromToday(any, pk, p, option, price, charge, today) ==
  LET active == CurrentlyActive(any, today)
  IN [pk |-> pk, plan |-> p, price_paid |-> price, service_charge |-> charge,
      service_charge_paid |-> ChargePaidAfter(option, price, charge),
      valid_until |-> today + Duration[p],
      is_active |-> TRUE,
      bonus |-> [q \in Quotas |-> IF active THEN Remaining(any, q) ELSE 0],
      used |-> [q \in Quotas |-> 0]]

\* The row update_or_create writes in activate_plan_purchase: any is the row
\* that was read under select_for_update, pk the key the written row will have.
Activated(any, pk, p, option, price, charge, today) ==
  LET active == CurrentlyActive(any, today)
      renewal == active /\ any.plan = p
  IN [pk |-> pk,
      plan |-> p,
      price_paid |-> price,
      service_charge |->
        IF renewal /\ any.service_charge # 0 THEN any.service_charge ELSE charge,
      service_charge_paid |->
        IF renewal THEN EffectivePaid(any) ELSE ChargePaidAfter(option, price, charge),
      valid_until |-> (IF active THEN any.valid_until ELSE today) + Duration[p],
      is_active |-> TRUE,
      bonus |-> [q \in Quotas |-> IF active THEN Remaining(any, q) ELSE 0],
      used |-> [q \in Quotas |-> 0]]
=============================================================================
