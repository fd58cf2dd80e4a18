----------------------------- MODULE MCAccounts -----------------------------
(* Instances of Accounts for TLC. *)
EXTENDS Accounts, TLC

CONSTANTS p1, p2, w1, w2

OnePhone(kinds) == [phones |-> {p1}, kinds |-> kinds]
Signup == OnePhone({"register", "verify_otp", "evict"})
Codes1 == OnePhone({"register_mobile", "login", "evict", "break"})
Codes2 == OnePhone({"register_mobile", "login", "expire", "resend"})
Windows == OnePhone({"register", "resend", "window", "break"})
Doors == OnePhone({"register", "verify_mobile", "desk"})
Revived == OnePhone({"resend", "verify_mobile"})
Desks == [phones |-> {p1, p2}, kinds |-> {"desk", "break"}]
AllMixes == {Signup, Codes1, Codes2, Windows, Doors, Revived, Desks}
IdMixes == {Desks}
OneMember == {7}
Swap == Permutations({w1, w2})
=============================================================================
