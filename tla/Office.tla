------------------------------- MODULE Office -------------------------------
(***************************************************************************)
(* The office: branches (admin_panel/branches), their staff                *)
(* (admin_panel/staff_mgmt) and the accounts staff log in with             *)
(* (admin_panel/auth).  A member of staff is two rows, a StaffProfile and  *)
(* an AdminUser, that repeat each other's mobile, branch and is_active and *)
(* are saved one after the other without a transaction.  Editing saves all *)
(* columns of rows read at the start of the request.                       *)
(*                                                                         *)
(* A step is one query or one save.  The three transactions (hiring,       *)
(* switching and closing a branch) are one step each, but for what the     *)
(* latter two have listed before they write.                               *)
(***************************************************************************)
EXTENDS Naturals, FiniteSets

CONSTANTS
  Staff, Branches, Mobiles, Workers,
  FirstMobile,  \* FirstMobile[s]: of the staff there are at the start
  FirstBranch,  \* the branch they are in
  FailLimit,    \* ADMIN_OTP_FAILED_ATTEMPT_LIMIT
  MaxCode,      \* bound of the model: codes sent
  Mixes         \* bound of the model: what is done together in one behaviour

Hired == DOMAIN FirstMobile

\* tombstone_staff_mobile, tombstone_admin_mobile: unique by the id of the staff row.
Tomb(s) == [gone |-> s]
NoMobile == [mobile |-> "none"]

ASSUME OfficeAssumption ==
  /\ Hired \subseteq Staff /\ FirstBranch \in Branches
  /\ {"nobody", "office"} \cap Branches = {}
  \* both tables hold a mobile once, and no tombstone is a number to call
  /\ \A s, t \in Hired : FirstMobile[s] = FirstMobile[t] => s = t
  /\ \A s \in Hired : FirstMobile[s] \in Mobiles
  /\ NoMobile \notin Mobiles /\ \A s \in Staff : Tomb(s) \notin Mobiles
  /\ FailLimit \in Nat \ {0} /\ MaxCode \in Nat

VARIABLES
  staff,     \* staff[s]: the StaffProfile row
  login,     \* login[s]: the AdminUser row it belongs to
  branch,    \* branch[b]: the Branch row
  offer,     \* cache, per AdminUser: the new mobile a code was sent to
  tries,     \* cache, per mobile: wrong codes counted
  locked,    \* cache: mobiles locked after too many
  sent,      \* sent[n]: the mobile the n-th login code went to
  lapsed,    \* codes past otp_expiry
  mix,       \* the kinds of requests made in this behaviour, the columns edited
  req,       \* req[w]: the request worker w is serving
  mixed,     \* history: staff two requests worked on at once, or one left half saved
  offBy,     \* history: offBy[s], who switched s off: the office or a branch
  relit,     \* history: staff the office switched on while their branch was off
  shared,    \* history: codes read, or counted for, by two requests at once, or
             \* kept on a new mobile
  accepted,  \* history: accepted[n], how often the code opened a session (2: or more)
  wrong      \* history: wrong[n], wrong answers given while n was the code, to one too many

tables == <<staff, login, branch>>
caches == <<offer, tries, locked>>
codes == <<sent, lapsed, shared, accepted, wrong>>
switches == <<offBy, relit>>
officeVars == <<tables, caches, codes, switches, mix, req, mixed>>

NoRow == [row |-> "none"]
NoCode == 0
Codes == 1..MaxCode

Numbers == Mobiles \cup {Tomb(s) : s \in Staff}

StaffRow == [mobile : Numbers, branch : Branches, active : BOOLEAN, deleted : BOOLEAN,
             byBranch : BOOLEAN]
BranchRow == [active : BOOLEAN, deleted : BOOLEAN]
LoginRow == [mobile : Numbers, branch : Branches, active : BOOLEAN, code : Codes \cup {NoCode}]

NewStaff(m, b) ==
  [mobile |-> m, branch |-> b, active |-> TRUE, deleted |-> FALSE, byBranch |-> FALSE]
NewLogin(m, b) == [mobile |-> m, branch |-> b, active |-> TRUE, code |-> NoCode]

\* What an edit changes: a column both rows have, or others.
Changes ==
  [mobile : Mobiles] \cup [branch : Branches] \cup [active : BOOLEAN] \cup [other : {"column"}]
Apply(change, row) ==
  [f \in DOMAIN row |-> IF f \in DOMAIN change THEN change[f] ELSE row[f]]

OnStaff == {"edit", "toggle", "destroy", "phone"}
OnBranch == {"switch", "close", "amend"}
OnLogin == {"send", "verify"}

Free == [kind |-> "idle", pc |-> "idle"]
Request ==
  [kind : {"create"}, pc : {"insert"}, mobile : Mobiles, branch : Branches]
  \cup [kind : {"edit"}, pc : {"login", "staff"}, s : Staff, change : Changes,
        ofStaff : StaffRow, ofLogin : LoginRow]
  \cup [kind : {"toggle"}, pc : {"staff", "login"}, s : Staff, to : BOOLEAN]
  \cup [kind : {"destroy"}, pc : {"staff", "login"}, s : Staff]
  \cup [kind : {"phone"}, pc : {"login", "staff", "drop"}, s : Staff, mobile : Mobiles]
  \cup [kind : {"switch", "close"}, pc : {"list", "commit"}, b : Branches, to : BOOLEAN,
        listed : SUBSET Staff]
  \cup [kind : {"amend"}, pc : {"save"}, b : Branches, row : BranchRow]
  \cup [kind : OnLogin, pc : {"save", "forget", "clear", "count", "put", "accept", "reset"},
        s : Staff, mobile : Mobiles, code : Codes \cup {NoCode}, n : Nat]

Offs == {"nobody", "office"} \cup Branches

OfficeTypeOK ==
  /\ staff \in [Staff -> StaffRow \cup {NoRow}]
  /\ login \in [Staff -> LoginRow \cup {NoRow}]
  /\ branch \in [Branches -> BranchRow]
  /\ offer \in [Staff -> Mobiles \cup {NoMobile}]
  /\ tries \in [Mobiles -> Nat] /\ locked \subseteq Mobiles
  /\ sent \in [Codes -> Mobiles \cup {NoMobile}] /\ lapsed \subseteq Codes
  /\ mix \in Mixes
  /\ req \in [Workers -> Request \cup {Free}]
  /\ mixed \subseteq Staff /\ relit \subseteq Staff
  /\ offBy \in [Staff -> Offs]
  /\ shared \subseteq Codes \cup {NoCode}
  /\ accepted \in [Codes -> 0..2] /\ wrong \in [Codes -> 0..(FailLimit + 1)]

OfficeInit ==
  /\ staff = [s \in Staff |->
       IF s \in Hired THEN NewStaff(FirstMobile[s], FirstBranch) ELSE NoRow]
  /\ login = [s \in Staff |->
       IF s \in Hired THEN NewLogin(FirstMobile[s], FirstBranch) ELSE NoRow]
  /\ branch = [b \in Branches |-> [active |-> TRUE, deleted |-> FALSE]]
  /\ offer = [s \in Staff |-> NoMobile]
  /\ tries = [m \in Mobiles |-> 0] /\ locked = {}
  /\ sent = [n \in Codes |-> NoMobile] /\ lapsed = {}
  /\ mix \in Mixes
  /\ req = [w \in Workers |-> Free]
  /\ mixed = {} /\ relit = {}
  /\ offBy = [s \in Staff |-> "nobody"]
  /\ shared = {}
  /\ accepted = [n \in Codes |-> 0] /\ wrong = [n \in Codes |-> 0]

----------------------------------------------------------------------------
Doing(w, kind, pc) == req[w].kind = kind /\ req[w].pc = pc
Move(w, pc) == req' = [req EXCEPT ![w].pc = pc]
Finish(w) == req' = [req EXCEPT ![w] = Free]
Exists(s) == staff[s] # NoRow

\* The staff a request works on.  Of a branch, also those being moved into it.
Concerned(q, w) ==
  CASE q[w].kind \in OnBranch ->
         {s \in Staff : Exists(s) /\ staff[s].branch = q[w].b}
           \cup {s \in Staff : \E v \in Workers :
                   q[v].kind = "edit" /\ q[v].s = s /\ "branch" \in DOMAIN q[v].change
                     /\ q[v].change.branch = q[w].b}
    [] q[w].kind \in OnStaff -> {q[w].s}
    [] OTHER -> {}

\* Two requests that read or write one code, or one count: wrong codes are counted by
\* mobile, also for a login that has another by then.
Overlap(r, q) ==
  \/ {r.kind, q.kind} \subseteq OnLogin \cup {"edit"} /\ r.s = q.s
  \/ {r.kind, q.kind} \subseteq OnLogin /\ r.mobile = q.mobile

\* A request is taken up; who else is at work on the same staff, or code, is noted.
Open(w, r) ==
  /\ req[w] = Free /\ r.kind \in mix
  /\ LET q == [req EXCEPT ![w] = r]
         others == {v \in Workers \ {w} : req[v] # Free}
     IN  /\ req' = q
         /\ mixed' = mixed \cup (Concerned(q, w) \cap UNION {Concerned(q, v) : v \in others})
         /\ shared' = shared \cup
              (IF \E v \in others : Overlap(r, req[v]) THEN {login[r.s].code} ELSE {})
  /\ UNCHANGED <<tables, caches, sent, lapsed, accepted, wrong, switches, mix>>

\* is_active of s is saved by the office.
Switched(s, to) ==
  /\ offBy' = [offBy EXCEPT ![s] =
       IF to THEN "nobody" ELSE IF staff[s].active THEN "office" ELSE @]
  /\ relit' = IF to /\ ~staff[s].active /\ offBy[s] \in Branches THEN relit \cup {s} ELSE relit

----------------------------------------------------------------------------
(* Who has a mobile already.                                                 *)

\* personal_mobile_in_use, of staff and logins; members are left out.
InUse(m, others) ==
  \E t \in others : Exists(t) /\ ~staff[t].deleted /\ m \in {staff[t].mobile, login[t].mobile}

\* The unique constraints of the two tables.
StaffTaken(m, s) == \E t \in Staff \ {s} : Exists(t) /\ staff[t].mobile = m
LoginTaken(m, s) == \E t \in Staff \ {s} : Exists(t) /\ login[t].mobile = m

----------------------------------------------------------------------------
(* Staff: hiring, editing, switching on and off, deleting.                   *)

OpenCreate(w, m, b) ==
  /\ ~InUse(m, Staff) /\ branch[b].active /\ \E t \in Staff : ~Exists(t)
  /\ Open(w, [kind |-> "create", pc |-> "insert", mobile |-> m, branch |-> b])

\* StaffSerializer.create: both rows, or neither when the mobile was taken meanwhile.
InsertStaff(w) ==
  /\ Doing(w, "create", "insert")
  /\ LET r == req[w] IN
       \E s \in {t \in Staff : ~Exists(t)} :
         IF LoginTaken(r.mobile, s) \/ StaffTaken(r.mobile, s)
         THEN UNCHANGED <<staff, login, mixed>>
         ELSE /\ staff' = [staff EXCEPT ![s] = NewStaff(r.mobile, r.branch)]
              /\ login' = [login EXCEPT ![s] = NewLogin(r.mobile, r.branch)]
              /\ mixed' = IF \E v \in Workers : req[v].kind \in OnBranch /\ req[v].b = r.branch
                          THEN mixed \cup {s} ELSE mixed
  /\ Finish(w)
  /\ UNCHANGED <<branch, caches, codes, switches, mix>>

\* partial_update: the rows, deleted ones with status=inactive; then the validators.
OpenEdit(w, s, change) ==
  /\ DOMAIN change \subseteq mix /\ Exists(s)
  /\ "mobile" \in DOMAIN change => ~InUse(change.mobile, Staff \ {s})
  /\ "branch" \in DOMAIN change => branch[change.branch].active
  /\ Open(w, [kind |-> "edit", pc |-> "login", s |-> s, change |-> change,
              ofStaff |-> staff[s], ofLogin |-> login[s]])

\* A code that is kept while its login changes its mobile.
Carried(s, m) == IF login[s].mobile = m THEN {} ELSE {login[s].code}

\* admin_user.save(): all columns, the code's included, as they were read.
EditLogin(w) ==
  /\ Doing(w, "edit", "login")
  /\ LET s == req[w].s  row == Apply(req[w].change, req[w].ofLogin) IN
       IF LoginTaken(row.mobile, s)
       THEN Finish(w) /\ UNCHANGED <<login, shared>>
       ELSE /\ login' = [login EXCEPT ![s] = row] /\ Move(w, "staff")
            /\ shared' = shared \cup Carried(s, row.mobile)
  /\ UNCHANGED <<staff, branch, caches, sent, lapsed, accepted, wrong, switches, mix, mixed>>

\* instance.save(): all columns again.  A mobile taken meanwhile leaves a changed login.
EditStaff(w) ==
  /\ Doing(w, "edit", "staff")
  /\ LET s == req[w].s  row == Apply(req[w].change, req[w].ofStaff) IN
       IF StaffTaken(row.mobile, s)
       THEN mixed' = mixed \cup {s} /\ UNCHANGED <<staff, switches>>
       ELSE /\ staff' = [staff EXCEPT ![s] = row]
            /\ Switched(s, row.active)
            /\ UNCHANGED mixed
  /\ Finish(w)
  /\ UNCHANGED <<login, branch, caches, codes, mix>>

\* StaffViewSet.toggle_status
OpenToggle(w, s) ==
  /\ Exists(s)
  /\ Open(w, [kind |-> "toggle", pc |-> "staff", s |-> s, to |-> ~staff[s].active])

ToggleStaff(w) ==
  /\ Doing(w, "toggle", "staff")
  /\ staff' = [staff EXCEPT ![req[w].s].active = req[w].to]
  /\ Switched(req[w].s, req[w].to)
  /\ Move(w, "login")
  /\ UNCHANGED <<login, branch, caches, codes, mix, mixed>>

\* Mutant: the login is not switched.
ForgetLogin(w) ==
  /\ Doing(w, "toggle", "login")
  /\ Finish(w)
  /\ UNCHANGED <<tables, caches, codes, switches, mix, mixed>>

ToggleLogin(w) ==
  /\ Doing(w, "toggle", "login")
  /\ login' = [login EXCEPT ![req[w].s].active = req[w].to]
  /\ Finish(w)
  /\ UNCHANGED <<staff, branch, caches, codes, switches, mix, mixed>>

\* StaffViewSet.destroy, release_staff_unique_fields
OpenDestroy(w, s) ==
  /\ Exists(s)
  /\ Open(w, [kind |-> "destroy", pc |-> "staff", s |-> s])

ReleasedStaff(s) == [staff[s] EXCEPT !.mobile = Tomb(s), !.active = FALSE, !.deleted = TRUE]
ReleasedLogin(s) == [login[s] EXCEPT !.mobile = Tomb(s), !.active = FALSE]

ReleaseStaff(w) ==
  /\ Doing(w, "destroy", "staff")
  /\ staff' = [staff EXCEPT ![req[w].s] = ReleasedStaff(req[w].s)]
  /\ Switched(req[w].s, FALSE)
  /\ Move(w, "login")
  /\ UNCHANGED <<login, branch, caches, codes, mix, mixed>>

ReleaseLogin(w) ==
  /\ Doing(w, "destroy", "login")
  /\ login' = [login EXCEPT ![req[w].s] = ReleasedLogin(req[w].s)]
  /\ shared' = shared \cup Carried(req[w].s, Tomb(req[w].s))
  /\ Finish(w)
  /\ UNCHANGED <<staff, branch, caches, sent, lapsed, accepted, wrong, switches, mix, mixed>>

----------------------------------------------------------------------------
(* A member of staff changes his own mobile.                                 *)

\* AdminChangePhoneSendOTPView: the code goes with the mobile into the cache.
OfferPhone(s, m) ==
  /\ "phone" \in mix /\ Exists(s) /\ login[s].active
  /\ ~InUse(m, Staff \ {s}) /\ ~(staff[s].mobile = m /\ ~staff[s].deleted)
  /\ offer' = [offer EXCEPT ![s] = m]
  /\ UNCHANGED <<tables, tries, locked, codes, switches, mix, req, mixed>>

\* It times out, or wrong codes use it up.
LoseOffer(s) ==
  /\ offer[s] # NoMobile
  /\ offer' = [offer EXCEPT ![s] = NoMobile]
  /\ UNCHANGED <<tables, tries, locked, codes, switches, mix, req, mixed>>

\* AdminChangePhoneVerifyOTPView, with the right code.
OpenPhone(w, s) ==
  /\ Exists(s) /\ login[s].active /\ offer[s] # NoMobile
  /\ ~LoginTaken(offer[s], s)
  /\ Open(w, [kind |-> "phone", pc |-> "login", s |-> s, mobile |-> offer[s]])

PhoneLogin(w) ==
  /\ Doing(w, "phone", "login")
  /\ LET s == req[w].s  m == req[w].mobile IN
       IF LoginTaken(m, s)
       THEN Finish(w) /\ UNCHANGED <<login, shared>>
       ELSE /\ login' = [login EXCEPT ![s].mobile = m] /\ Move(w, "staff")
            /\ shared' = shared \cup Carried(s, m)
  /\ UNCHANGED <<staff, branch, caches, sent, lapsed, accepted, wrong, switches, mix, mixed>>

\* _sync_staff_profile_from_admin_user: refused, it leaves the new mobile on the login.
PhoneStaff(w) ==
  /\ Doing(w, "phone", "staff")
  /\ LET s == req[w].s  m == req[w].mobile IN
       IF StaffTaken(m, s)
       THEN Finish(w) /\ mixed' = mixed \cup {s} /\ UNCHANGED staff
       ELSE staff' = [staff EXCEPT ![s].mobile = m] /\ Move(w, "drop") /\ UNCHANGED mixed
  /\ UNCHANGED <<login, branch, caches, codes, switches, mix>>

DropOffer(w) ==
  /\ Doing(w, "phone", "drop")
  /\ offer' = [offer EXCEPT ![req[w].s] = NoMobile]
  /\ Finish(w)
  /\ UNCHANGED <<tables, tries, locked, codes, switches, mix, mixed>>

----------------------------------------------------------------------------
(* Branches.                                                                 *)

OpenBranch(w, kind, b) ==
  /\ ~branch[b].deleted
  /\ \/ /\ kind \in {"switch", "close"}
        /\ Open(w, [kind |-> kind, pc |-> "list", b |-> b, listed |-> {},
                    to |-> kind = "switch" /\ ~branch[b].active])
     \/ /\ kind = "amend"
        /\ \E to \in BOOLEAN :
             Open(w, [kind |-> kind, pc |-> "save", b |-> b,
                      row |-> [branch[b] EXCEPT !.active = to]])

\* The transaction begins with a save of the branch, so one of them runs at a time.
Unlocked(b, w) == \A v \in Workers \ {w} : ~(req[v].pc = "commit" /\ req[v].b = b)

InBranch(b) == {s \in Staff : Exists(s) /\ staff[s].branch = b /\ ~staff[s].deleted}

\* Mutant: reactivation takes everybody who is off.
AllOff(b, to) == {s \in InBranch(b) : staff[s].active # to}

\* Whom toggle_status finds: affected or restorable.
Found(b, to) == {s \in InBranch(b) : IF to THEN staff[s].byBranch ELSE staff[s].active}

\* The ids, or the rows, are listed.
ListStaff(w) ==
  /\ req[w].pc = "list" /\ Unlocked(req[w].b, w)
  /\ req' = [req EXCEPT
       ![w].pc = "commit",
       ![w].listed = IF req[w].kind = "switch" THEN Found(req[w].b, req[w].to)
                     ELSE InBranch(req[w].b)]
  /\ UNCHANGED <<tables, caches, codes, switches, mix, mixed>>

\* BranchViewSet.toggle_status: the staff are looked up again, the logins are those listed.
CommitSwitch(w) ==
  /\ Doing(w, "switch", "commit")
  /\ LET b == req[w].b  to == req[w].to  found == Found(b, to) IN
       /\ branch' = [branch EXCEPT ![b].active = to]
       /\ staff' = [s \in Staff |->
            IF s \in found THEN [staff[s] EXCEPT !.active = to, !.byBranch = ~to] ELSE staff[s]]
       /\ login' = [s \in Staff |->
            IF s \in req[w].listed THEN [login[s] EXCEPT !.active = to] ELSE login[s]]
       /\ offBy' = [s \in Staff |->
            IF s \notin found THEN offBy[s] ELSE IF to THEN "nobody" ELSE b]
       /\ relit' = relit \ found
  /\ Finish(w)
  /\ UNCHANGED <<caches, codes, mix, mixed>>

\* BranchViewSet.destroy: the staff listed are released, other logins of the branch closed.
CommitClose(w) ==
  /\ Doing(w, "close", "commit")
  /\ LET b == req[w].b  L == req[w].listed IN
       /\ branch' = [branch EXCEPT ![b] = [active |-> FALSE, deleted |-> TRUE]]
       /\ staff' = [s \in Staff |-> IF s \in L THEN ReleasedStaff(s) ELSE staff[s]]
       /\ login' = [s \in Staff |->
            CASE s \in L -> ReleasedLogin(s)
              [] s \notin L /\ Exists(s) /\ login[s].branch = b ->
                   [login[s] EXCEPT !.active = FALSE]
              [] OTHER -> login[s]]
       /\ offBy' = [s \in Staff |->
            IF s \in L /\ staff[s].active THEN "office" ELSE offBy[s]]
       /\ shared' = shared \cup {login[s].code : s \in L}
  /\ Finish(w)
  /\ UNCHANGED <<caches, sent, lapsed, accepted, wrong, relit, mix, mixed>>

\* A PATCH of the branch saves all of its columns; its staff are left alone.
SaveBranch(w) ==
  /\ Doing(w, "amend", "save") /\ Unlocked(req[w].b, w)
  /\ branch' = [branch EXCEPT ![req[w].b] = req[w].row]
  /\ Finish(w)
  /\ UNCHANGED <<staff, login, caches, codes, switches, mix, mixed>>

----------------------------------------------------------------------------
(* Logging in.                                                               *)

OpenLogin(w, kind, pc, s) ==
  /\ Exists(s) /\ login[s].active
  /\ login[s].mobile \in Mobiles \ locked
  /\ Open(w, [kind |-> kind, pc |-> pc, s |-> s, mobile |-> login[s].mobile,
              code |-> login[s].code, n |-> 0])

\* SendOTPView.  The rate limit may refuse any request, which changes nothing.
OpenSend(w, s) == OpenLogin(w, "send", "save", s)

SaveCode(w) ==
  /\ Doing(w, "send", "save")
  /\ \E n \in Codes :
       /\ sent[n] = NoMobile /\ \A k \in 1..(n - 1) : sent[k] # NoMobile
       /\ sent' = [sent EXCEPT ![n] = req[w].mobile]
       /\ login' = [login EXCEPT ![req[w].s].code = n]
       /\ shared' = IF login[req[w].s].mobile = req[w].mobile THEN shared ELSE shared \cup {n}
  /\ Move(w, "forget")
  /\ UNCHANGED <<staff, branch, caches, lapsed, accepted, wrong, switches, mix, mixed>>

ForgetTries(w) ==
  /\ Doing(w, "send", "forget")
  /\ tries' = [tries EXCEPT ![req[w].mobile] = 0]
  /\ Finish(w)
  /\ UNCHANGED <<tables, offer, locked, codes, switches, mix, mixed>>

\* VerifyOTPView, with the right code or a wrong one.
OpenVerify(w, s, right) ==
  /\ Exists(s)
  /\ OpenLogin(w, "verify",
       IF login[s].code \in lapsed \cup {NoCode} THEN "clear"
       ELSE IF right THEN "accept" ELSE "count", s)

ClearCode(w) ==
  /\ Doing(w, "verify", "clear")
  /\ login' = [login EXCEPT ![req[w].s].code = NoCode]
  /\ Finish(w)
  /\ UNCHANGED <<staff, branch, caches, codes, switches, mix, mixed>>

CountTry(w) ==
  /\ Doing(w, "verify", "count")
  /\ req' = [req EXCEPT ![w].pc = "put", ![w].n = tries[req[w].mobile] + 1]
  /\ UNCHANGED <<tables, caches, codes, switches, mix, mixed>>

\* Mutant: the mobile is locked one try too late.
LockLate(w) ==
  /\ Doing(w, "verify", "put")
  /\ LET m == req[w].mobile  n == req[w].n IN
       /\ tries' = [tries EXCEPT ![m] = n]
       /\ locked' = IF n > FailLimit THEN locked \cup {m} ELSE locked
       /\ wrong' = [wrong EXCEPT ![req[w].code] = IF @ > FailLimit THEN @ ELSE @ + 1]
  /\ Finish(w)
  /\ UNCHANGED <<tables, offer, sent, lapsed, shared, accepted, switches, mix, mixed>>

PutTry(w) ==
  /\ Doing(w, "verify", "put")
  /\ LET m == req[w].mobile  n == req[w].n IN
       /\ tries' = [tries EXCEPT ![m] = n]
       /\ locked' = IF n >= FailLimit THEN locked \cup {m} ELSE locked
       /\ wrong' = [wrong EXCEPT ![req[w].code] = IF @ > FailLimit THEN @ ELSE @ + 1]
  /\ Finish(w)
  /\ UNCHANGED <<tables, offer, sent, lapsed, shared, accepted, switches, mix, mixed>>

AcceptCode(w) ==
  /\ Doing(w, "verify", "accept")
  /\ login' = [login EXCEPT ![req[w].s].code = NoCode]
  /\ accepted' = [accepted EXCEPT ![req[w].code] = IF @ = 0 THEN 1 ELSE 2]
  /\ Move(w, "reset")
  /\ UNCHANGED <<staff, branch, caches, sent, lapsed, shared, wrong, switches, mix, mixed>>

ResetTries(w) ==
  /\ Doing(w, "verify", "reset")
  /\ tries' = [tries EXCEPT ![req[w].mobile] = 0]
  /\ locked' = locked \ {req[w].mobile}
  /\ Finish(w)
  /\ UNCHANGED <<tables, offer, codes, switches, mix, mixed>>

----------------------------------------------------------------------------
(* Time, and requests that break off.                                        *)

Lapse(n) ==
  /\ "lapse" \in mix /\ sent[n] # NoMobile /\ n \notin lapsed
  /\ lapsed' = lapsed \cup {n}
  /\ UNCHANGED <<tables, caches, sent, shared, accepted, wrong, switches, mix, req, mixed>>

\* The count of wrong codes (10 minutes) and the lock (15) outlive the code (10); here
\* every code sent so far.
CacheLapses(m) ==
  /\ tries[m] > 0 \/ m \in locked
  /\ \A n \in Codes : sent[n] # NoMobile => n \in lapsed
  /\ tries' = [tries EXCEPT ![m] = 0] /\ locked' = locked \ {m}
  /\ UNCHANGED <<tables, offer, codes, switches, mix, req, mixed>>

HalfSaved(r) == <<r.kind, r.pc>> \in
  {<<"edit", "staff">>, <<"toggle", "login">>, <<"destroy", "login">>, <<"phone", "staff">>}

BreakOff(w) ==
  /\ "break" \in mix /\ req[w] # Free
  /\ Finish(w)
  /\ mixed' = IF HalfSaved(req[w]) THEN mixed \cup {req[w].s} ELSE mixed
  /\ UNCHANGED <<tables, caches, codes, switches, mix>>

Take(w) ==
  \/ \E m \in Mobiles, b \in Branches : OpenCreate(w, m, b)
  \/ \E s \in Staff :
       \/ \E change \in Changes : OpenEdit(w, s, change)
       \/ OpenToggle(w, s) \/ OpenDestroy(w, s) \/ OpenPhone(w, s)
       \/ OpenSend(w, s) \/ \E right \in BOOLEAN : OpenVerify(w, s, right)
  \/ \E kind \in OnBranch, b \in Branches : OpenBranch(w, kind, b)

StaffStep(w) ==
  InsertStaff(w) \/ EditLogin(w) \/ EditStaff(w) \/ ToggleStaff(w) \/ ToggleLogin(w)
  \/ ReleaseStaff(w) \/ ReleaseLogin(w) \/ PhoneLogin(w) \/ PhoneStaff(w) \/ DropOffer(w)
BranchStep(w) == ListStaff(w) \/ CommitSwitch(w) \/ CommitClose(w) \/ SaveBranch(w)
LoginStep(w) ==
  SaveCode(w) \/ ForgetTries(w) \/ ClearCode(w) \/ CountTry(w) \/ PutTry(w)
  \/ AcceptCode(w) \/ ResetTries(w)

OfficeNext ==
  \/ \E w \in Workers :
       Take(w) \/ StaffStep(w) \/ BranchStep(w) \/ LoginStep(w) \/ BreakOff(w)
  \/ \E s \in Staff : LoseOffer(s) \/ \E m \in Mobiles : OfferPhone(s, m)
  \/ \E n \in Codes : Lapse(n)
  \/ \E m \in Mobiles : CacheLapses(m)

OfficeSpec == OfficeInit /\ [][OfficeNext]_officeVars

----------------------------------------------------------------------------
(* Properties.                                                               *)

\* Staff and login agree on the mobile, the branch and whether the person is in, as
\* soon as nobody works on them, whichever of the saves, transactions and validators
\* kept them so; exempt are staff two requests worked on at once or one left half saved
\* (StaffSerializer.update, toggle_status, _sync_staff_profile_from_admin_user).  A
\* deleted row that is switched on again is left on when closing its branch closes the
\* login (BranchViewSet.destroy): of the deleted, a login that is on says as much.
LoginFollowsStaff ==
  \A s \in Staff \ mixed :
    Exists(s) /\ (\A w \in Workers : s \notin Concerned(req, w)) =>
      /\ login[s].mobile = staff[s].mobile
      /\ login[s].branch = staff[s].branch
      /\ login[s].active => staff[s].active
      /\ staff[s].active => login[s].active \/ staff[s].deleted

\* A branch that is switched on gets back the staff it took out with it, logins
\* included, though they left for another branch in between and came back, and nobody
\* the office had switched off, unless the office had also switched him on while a branch
\* had him out.  Whom another branch took out before he was moved here is left to
\* RestoresOnlyItsOwn (BranchViewSet.toggle_status).
BranchRestores ==
  [][\A w \in Workers :
       Doing(w, "switch", "commit") /\ req[w].to /\ req'[w] = Free /\ branch'[req[w].b].active =>
         \A s \in InBranch(req[w].b) \ mixed :
           /\ offBy[s] = req[w].b => staff'[s].active /\ login'[s].active
           /\ offBy[s] = "office" /\ s \notin relit => ~staff'[s].active]_officeVars

\* A login code opens one session and allows FailLimit wrong answers, unless requests
\* that read it, or count for its mobile, overlap, or it is kept while the login moves to
\* another mobile, for which nothing has been counted (VerifyOTPView).
CodeLimits ==
  \A n \in Codes \ shared : accepted[n] <= 1 /\ wrong[n] <= FailLimit

\* Not so: "only restore staff that were disabled by this branch, leaving
\* individually-disabled staff untouched" (admin_panel/branches/views.py:156).
RestoresOnlyItsOwn ==
  [][\A w \in Workers :
       Doing(w, "switch", "commit") /\ req[w].to /\ req'[w] = Free =>
         \A s \in InBranch(req[w].b) \ mixed :
           offBy[s] \notin {"nobody", req[w].b} => ~staff'[s].active]_officeVars
=============================================================================
