------------------------------ MODULE MCOffice ------------------------------
(***************************************************************************)
(* Small instances of Office for TLC.                                      *)
(***************************************************************************)
EXTENDS Office, TLC

CONSTANTS b1, b2, s1, s2, m1, m2, m3, w1, w2

OneHired == s1 :> m1
MCSymmetry == Permutations(Workers) \cup Permutations({m2, m3})
=============================================================================
