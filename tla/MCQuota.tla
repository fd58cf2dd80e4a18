------------------------------ MODULE MCQuota ------------------------------
(***************************************************************************)
(* Small instances of Quota for TLC: one member, two requests at a time.   *)
(***************************************************************************)
EXTENDS Quota, TLC

CONSTANTS u1, u2, p1, p2, w1, w2, f1, f2, x1

\* p1 allows two contacts and one of everything else; p2 one contact, and reports
\* without limit.
MCLimit ==
  [p \in Plans |-> [q \in Quotas |->
     IF p = p1 THEN (IF q = "contact_view" THEN 2 ELSE 1)
     ELSE IF q = "horoscope_match" THEN 0 ELSE 1]]
MCDuration == [p \in Plans |-> 0]
MCSymmetry == Permutations(Workers) \cup Permutations(Profiles) \cup Permutations(Users)
=============================================================================
