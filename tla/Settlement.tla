----------------------------- MODULE Settlement -----------------------------
(***************************************************************************)
(* What fulfilment promises about the payments it is given, whatever       *)
(* requests, threads and deliveries it takes: a payment is booked once     *)
(* unless its booking was contested while it was open, nothing is booked   *)
(* or shown for money that was not captured, and a payment is shown as     *)
(* fulfilled only if it is in the books or its member has left the plan.   *)
(*                                                                         *)
(* An abstract specification: module Fulfillment implements it.            *)
(***************************************************************************)
CONSTANTS Payments, Outcomes

VARIABLES
  paid,       \* payments captured
  entries,    \* the books: records with a field "order"
  contested,  \* payments that two requests were booking at once
  left,       \* payments of members who have removed their plan
  shown       \* shown[p]: what the shop's order list says, "open" at first

vars == <<paid, entries, contested, left, shown>>

Booked(p) == \E e \in entries : e.order = p

Init ==
  /\ paid = {} /\ entries = {} /\ contested = {} /\ left = {}
  /\ shown = [p \in Payments |-> "open"]

Pay(p) ==
  /\ p \notin paid
  /\ paid' = paid \cup {p}
  /\ UNCHANGED <<entries, contested, left, shown>>

\* Only a payment that is not in the books yet can become contested.
Contest(p) ==
  /\ p \in paid /\ ~Booked(p)
  /\ contested' = contested \cup {p}
  /\ UNCHANGED <<paid, entries, left, shown>>

Book(p) ==
  /\ p \in paid
  /\ Booked(p) => p \in contested
  /\ \E e \in entries' : e.order = p /\ entries' = entries \cup {e}
  /\ UNCHANGED <<paid, contested, left, shown>>

\* A payment is never shown as open again.
Show(p, s) ==
  /\ p \in paid
  /\ s = "fulfilled" => Booked(p) \/ p \in left
  /\ shown' = [shown EXCEPT ![p] = s]
  /\ UNCHANGED <<paid, entries, contested, left>>

\* A member removes the plan. The entries go after it, or stay.
Leave ==
  /\ left \subseteq left'
  /\ UNCHANGED <<paid, entries, contested, shown>>

Erase ==
  /\ entries' \subseteq entries
  /\ \A e \in entries \ entries' : e.order \in left
  /\ UNCHANGED <<paid, contested, left, shown>>

Next ==
  \/ \E p \in Payments : Pay(p) \/ Contest(p) \/ Book(p) \/ \E s \in Outcomes : Show(p, s)
  \/ Leave \/ Erase

Spec == Init /\ [][Next]_vars
=============================================================================
