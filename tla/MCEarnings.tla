----------------------------- MODULE MCEarnings -----------------------------
(***************************************************************************)
(* Small instances of Earnings for TLC.                                    *)
(***************************************************************************)
EXTENDS Earnings, TLC

CONSTANTS c1, c2, w1, w2

MCEarner == [c \in Commissions |-> 1]
MCSymmetry == Permutations(Workers) \cup Permutations(Commissions)
=============================================================================
