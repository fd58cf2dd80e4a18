--------------------------- MODULE MCConnections ---------------------------
(***************************************************************************)
(* Small instances of Connections for TLC: two members, two requests at a  *)
(* time.                                                                   *)
(***************************************************************************)
EXTENDS Connections, TLC

CONSTANTS u1, u2, w1, w2

MCSymmetry == Permutations(Users) \cup Permutations(Workers)
=============================================================================
