--------------------------- MODULE MCFulfillment ---------------------------
(***************************************************************************)
(* Small instances of Fulfillment for TLC.  One member, two orders and two *)
(* server threads are enough for every pair of requests to meet: verify    *)
(* with webhook, webhook with its own redelivery, one purchase with        *)
(* another.                                                                *)
(***************************************************************************)
EXTENDS Fulfillment, TLC

CONSTANTS u1, p1, p2, o1, o2, w1, w2

\* p1 lasts longer than p2; p2 costs more.
MCLimit == [p \in Plans |-> [q \in Quotas |-> 1]]
MCDuration == [p \in Plans |-> IF p = p1 THEN 2 ELSE 1]
MCInitialPrice == [p \in Plans |-> IF p = p1 THEN 1 ELSE 2]
MCCatalogPrice == [x \in Products |-> 1]
MCSymmetry == Permutations(Workers) \cup Permutations(Orders)
=============================================================================
