---------------------------- MODULE MCHoroscope ----------------------------
(* Instances of Horoscope for TLC. *)
EXTENDS Horoscope

CONSTANTS w1, w2
=============================================================================
