------------------------------- MODULE MCDesk -------------------------------
(* Instances of Desk for TLC. *)
EXTENDS Desk, TLC

CONSTANTS s1, s2, w1, w2

Mix(kinds, sales) == [kinds |-> kinds, sales |-> sales]
Counter == Mix({"send", "confirm", "pay", "wait", "break"}, 2)
CounterLogin == Mix({"send", "login", "pay", "wait"}, 2)
CounterVoid == Mix({"send", "pay", "void", "paid", "expire", "break"}, 2)
Branch == Mix({"branch_verify", "complete", "void", "break"}, 3)
Office == Mix({"post", "verify", "reject", "void", "break"}, 2)
Voiding == Mix({"subscribe", "renew", "void", "paid"}, 3)
AllMixes == {Counter, CounterLogin, CounterVoid, Branch, Office, Voiding}
Symmetry == Permutations(Staff) \cup Permutations(Workers)
=============================================================================
