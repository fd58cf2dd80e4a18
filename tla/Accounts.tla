------------------------------ MODULE Accounts ------------------------------
(***************************************************************************)
(* One-time codes and the accounts they open (accounts/).                  *)
(*                                                                         *)
(* A code is kept twice: in the cache, and in an OTPRecord row that is     *)
(* read when the cache has lost it. Registration details wait in the cache *)
(* until the code comes back; the account is created then. No request runs *)
(* in a transaction: a step here is one cache call or one query, and a     *)
(* request may stop for good between any two.                              *)
(***************************************************************************)
EXTENDS Integers, FiniteSets, FiniteSetsExt

CONSTANTS
  Phones, Workers,
  AttemptLimit,    \* OTP_ATTEMPT_LIMIT
  RateLimit,       \* OTP_RATE_LIMIT_REQUESTS
  SixNines,        \* the last Matri ID of six digits: 999999
  OtherIds,        \* numbers of the Matri IDs of the members not modelled
  MaxCodes,        \* bound of the model: codes sent per identifier
  Mixes            \* bound of the model: phones, requests and events of one behaviour

Events == {"evict", "expire", "window", "break"}
Kinds == {"register", "resend", "register_mobile", "verify_otp", "login", "verify_mobile", "desk"}

ASSUME AccountsAssumption ==
  /\ AttemptLimit \in Nat \ {0} /\ RateLimit \in Nat \ {0} /\ MaxCodes \in Nat
  /\ SixNines \in Nat /\ OtherIds \subseteq Nat /\ IsFiniteSet(OtherIds) /\ IsFiniteSet(Phones)
  /\ \A m \in Mixes : m.phones \subseteq Phones /\ m.kinds \subseteq Kinds \cup Events

Idents == Phones \X {"phone", "mobile"}
Buckets == Phones \X {"phone", "mobile", "resend"}
Channels == {"phone", "mobile"}
Codes == 0..MaxCodes    \* codes in the order sent; 0 is a code that was never sent

NoCode == [code |-> 0, attempts |-> 0]
NoUser == [pk |-> 0, id |-> 0, verified |-> FALSE]

VARIABLES
  cache,      \* cache[i]: the payload under otp:<i>, or NoCode
  record,     \* record[i]: code and attempts of the OTPRecord row of i, or NoCode
  used,       \* identifiers whose record is marked verified
  rate,       \* rate[b]: requests counted in the bucket's window
  pending,    \* phones with registration details in the cache
  user,       \* user[p]: the account of phone p, or NoUser
  rows,       \* rows[p]: accounts ever created for p
  issued,     \* issued[i]: codes sent to i
  dead,       \* dead[i]: the newest code of i that has expired
  mix,        \* phones, kinds of requests and events of this behaviour
  req,        \* req[w]: the request worker w is serving
  tries,      \* history: wrong codes compared since the newest code of i was sent
  accepted,   \* history: the last code of i that was accepted, and how often (to 2)
  sends,      \* history: requests let through in the bucket's window
  raced,      \* history: buckets with two checks at once in their window
  muddled     \* history: identifiers on which requests overlapped or broke off, or whose
              \* signup the desk or a code of before overtook, since a code was last sent
              \* in peace

store == <<cache, record, used>>
people == <<pending, user, rows>>
window == <<rate, sends, raced>>
answers == <<tries, accepted>>
vars == <<store, people, window, issued, dead, mix, req, muddled, answers>>

Payload == [code : Codes, attempts : Nat]
UserRow == [pk : Nat, id : Nat, verified : BOOLEAN]
Pcs == {"rate", "collect", "delete", "pend", "cache", "wipe", "record",
        "compare", "miss", "count", "take", "mark", "pop", "unpend",
        "user", "activate", "id", "insert"}
Past == -1    \* a count read in a window that has ended
Request ==
  [pc : Pcs, kind : Kinds, ident : Idents, bucket : Buckets,
   code : Codes, sent : Channels,    \* the code typed or sent, and where to
   got : Payload, cached : BOOLEAN,
   n : Nat \cup {Past},    \* the count, account or Matri ID it has read
   solo : BOOLEAN,         \* history: no other request for the phone overlapped it
   overtaken : BOOLEAN]    \* history: since it looked, an account was inserted or activated
Idle == [pc |-> "idle"]

TypeOK ==
  /\ cache \in [Idents -> Payload] /\ record \in [Idents -> Payload] /\ used \subseteq Idents
  /\ rate \in [Buckets -> 0..RateLimit] /\ sends \in [Buckets -> Nat] /\ raced \subseteq Buckets
  /\ pending \subseteq Phones
  /\ user \in [Phones -> UserRow] /\ rows \in [Phones -> Nat]
  /\ issued \in [Idents -> Codes] /\ dead \in [Idents -> Codes]
  /\ mix \in Mixes
  /\ req \in [Workers -> Request \cup {Idle}]
  /\ tries \in [Idents -> Nat] /\ accepted \in [Idents -> [code : Codes, times : 0..2]]
  /\ muddled \subseteq Idents

----------------------------------------------------------------------------
Busy(w) == req[w] # Idle
At(w, pc) == Busy(w) /\ req[w].pc = pc
I(w) == req[w].ident
P(w) == req[w].ident[1]
On(p) == {w \in Workers : Busy(w) /\ P(w) = p}

Go(w, pc) == req' = [req EXCEPT ![w].pc = pc]
Done(w) == req' = [req EXCEPT ![w] = Idle]
\* The end of request w, which passes the requests V on its way.
EndOvertaking(w, V) ==
  req' = [v \in Workers |-> IF v = w THEN Idle
                            ELSE IF v \in V THEN [req[v] EXCEPT !.overtaken = TRUE] ELSE req[v]]
Both(p) == {p} \X {"phone", "mobile"}

Ids == OtherIds \cup {user[p].id : p \in {q \in Phones : user[q] # NoUser}}

\* Mutant: the last id, not the one after it.
LastId == IF Ids = {} THEN 1 ELSE Max(Ids)

\* _generate_matri_id: Max over a text column. An id of seven digits sorts before
\* every one of six ("AM1000000" < "AM100001"), so the six-digit maximum wins.
NextId ==
  LET six == {n \in Ids : n <= SixNines}
  IN  IF Ids = {} THEN 1 ELSE IF six # {} THEN Max(six) + 1 ELSE Max(Ids) + 1

FirstId == IF OtherIds = {} THEN 1 ELSE Max(OtherIds) + 1

\* Nobody has asked for a code; a phone may have a row left by an earlier signup.
Init ==
  /\ cache = [i \in Idents |-> NoCode] /\ record = [i \in Idents |-> NoCode] /\ used = {}
  /\ rate = [b \in Buckets |-> 0] /\ sends = [b \in Buckets |-> 0]
  /\ pending = {}
  /\ mix \in Mixes
  /\ user = [p \in Phones |-> NoUser] \/ \E p \in mix.phones, v \in BOOLEAN :
       user = [[q \in Phones |-> NoUser] EXCEPT ![p] = [pk |-> 1, id |-> FirstId, verified |-> v]]
  /\ rows = [p \in Phones |-> user[p].pk]
  /\ issued = [i \in Idents |-> 0] /\ dead = [i \in Idents |-> 0]
  /\ req = [w \in Workers |-> Idle]
  /\ tries = [i \in Idents |-> 0]
  /\ accepted = [i \in Idents |-> [code |-> 0, times |-> 0]]
  /\ raced = {} /\ muddled = {}

----------------------------------------------------------------------------
(* The start of a request.                                                   *)

\* RegisterSerializer, ResendOTPView and RegisterMobileView look the phone up first:
\* which identifier the code goes to, and which bucket counts it.
Channel(kind, p) ==
  CASE kind = "resend" -> IF user[p].verified THEN "mobile" ELSE "phone"
    [] kind \in {"register_mobile", "login"} -> "mobile"
    [] OTHER -> "phone"
Refused(kind, p) ==
  CASE kind = "register" -> user[p].verified
    [] kind = "register_mobile" -> ~user[p].verified
    [] kind = "desk" -> user[p] # NoUser
    [] OTHER -> FALSE

FirstPc(kind) ==
  CASE kind \in {"register", "resend", "register_mobile"} -> "rate"
    [] kind = "desk" -> "id"
    [] OTHER -> "compare"

\* The request and its first read: the count of its bucket, or the cached code.
Open(kind, p, chan, sent, code) ==
  LET bucket == <<p, IF kind = "resend" THEN "resend" ELSE chan>>
      got == cache[<<p, chan>>]
  IN  [pc |-> FirstPc(kind), kind |-> kind, ident |-> <<p, chan>>, bucket |-> bucket,
       code |-> code, sent |-> sent,
       got |-> IF FirstPc(kind) = "compare" THEN got ELSE NoCode,
       cached |-> FirstPc(kind) = "compare" /\ got # NoCode,
       n |-> IF FirstPc(kind) = "rate" THEN rate[bucket] ELSE 0,
       solo |-> On(p) = {}, overtaken |-> FALSE]

\* Who verifies types a code that was sent to p, or one that never was; any but that of
\* the identifier asked for is a wrong one, but in VerifyMobileView, which asks for both.
Begin(w, kind, p, sent, code) ==
  /\ ~Busy(w) /\ kind \in mix.kinds /\ p \in mix.phones
  /\ ~Refused(kind, p)
  /\ FirstPc(kind) # "compare" => code = 0
  /\ code <= issued[<<p, sent>>]
  /\ LET chan == Channel(kind, p)
         r == Open(kind, p, chan, sent, code)
     IN  /\ sent # chan => kind = "verify_mobile" /\ code # 0
         /\ r.pc = "rate" => issued[<<p, chan>>] < MaxCodes
         /\ req' = [v \in Workers |-> CASE v = w -> r
                                       [] v \in On(p) -> [req[v] EXCEPT !.solo = FALSE]
                                       [] OTHER -> req[v]]
         /\ raced' = IF \E v \in On(p) : At(v, "rate") /\ r.pc = "rate" /\ req[v].bucket = r.bucket
                     THEN raced \cup {r.bucket} ELSE raced
  /\ muddled' = IF On(p) # {} THEN muddled \cup Both(p) ELSE muddled
  /\ UNCHANGED <<store, people, rate, sends, issued, dead, mix, answers>>

----------------------------------------------------------------------------
(* Sending a code.                                                           *)

\* check_otp_rate_limit writes back the count it read, plus one, under the start of
\* the window it read.
CountRequest(w) ==
  /\ At(w, "rate")
  /\ LET b == req[w].bucket
         counts == req[w].n # Past
     IN  IF req[w].n >= RateLimit
         THEN Done(w) /\ UNCHANGED <<rate, sends>>
         ELSE /\ req' = [req EXCEPT ![w].n = 0,
                   ![w].pc = IF req[w].kind = "register" THEN "collect" ELSE "cache"]
              /\ rate' = [rate EXCEPT ![b] = IF counts THEN req[w].n + 1 ELSE 0]
              /\ sends' = [sends EXCEPT ![b] = IF counts THEN Min({@ + 1, RateLimit + 1}) ELSE @]
  /\ UNCHANGED <<store, people, raced, issued, dead, mix, muddled, answers>>

\* Mutant: the second look at the account is left out.
CollectAny(w) ==
  /\ At(w, "collect")
  /\ req' = [req EXCEPT ![w].pc = "delete", ![w].n = user[P(w)].pk, ![w].overtaken = FALSE]
  /\ UNCHANGED <<store, people, window, issued, dead, mix, muddled, answers>>

\* RegisterView: a verified account ends the request; an unverified one is to be deleted.
Collect(w) ==
  /\ At(w, "collect")
  /\ IF user[P(w)].verified THEN Done(w)
     ELSE req' = [req EXCEPT ![w].pc = "delete", ![w].n = user[P(w)].pk, ![w].overtaken = FALSE]
  /\ UNCHANGED <<store, people, window, issued, dead, mix, muddled, answers>>

\* The delete of the rows collected, by primary key, whatever they have become.
DeleteCollected(w) ==
  /\ At(w, "delete")
  /\ user' = IF user[P(w)].pk = req[w].n THEN [user EXCEPT ![P(w)] = NoUser] ELSE user
  /\ req' = [req EXCEPT ![w].pc = "pend", ![w].n = 0, ![w].overtaken = FALSE]
  /\ UNCHANGED <<store, pending, rows, window, issued, dead, mix, muddled, answers>>

SetPending(w) ==
  /\ At(w, "pend")
  /\ pending' = pending \cup {P(w)}
  /\ Go(w, "cache")
  /\ UNCHANGED <<store, user, rows, window, issued, dead, mix, muddled, answers>>

\* generate_otp: a new code, stored in the cache first.
CacheCode(w) ==
  /\ At(w, "cache") /\ issued[I(w)] < MaxCodes
  /\ LET c == issued[I(w)] + 1
     IN  /\ issued' = [issued EXCEPT ![I(w)] = c]
         /\ cache' = [cache EXCEPT ![I(w)] = [code |-> c, attempts |-> 0]]
         /\ req' = [req EXCEPT ![w].pc = "wipe", ![w].code = c]
  /\ tries' = [tries EXCEPT ![I(w)] = 0]
  /\ UNCHANGED <<record, used, people, window, dead, mix, muddled, accepted>>

\* persist_otp_record: the old rows go, the new one follows.
WipeRecord(w) ==
  /\ At(w, "wipe")
  /\ record' = [record EXCEPT ![I(w)] = NoCode] /\ used' = used \ {I(w)}
  /\ Go(w, "record")
  /\ UNCHANGED <<cache, people, window, issued, dead, mix, muddled, answers>>

InsertRecord(w) ==
  /\ At(w, "record")
  /\ record' = [record EXCEPT ![I(w)] = [code |-> req[w].code, attempts |-> 0]]
  /\ used' = used \ {I(w)}
  /\ Done(w)
  /\ muddled' = IF req[w].solo THEN muddled \ {I(w)} ELSE muddled
  /\ UNCHANGED <<cache, people, window, issued, dead, mix, answers>>

----------------------------------------------------------------------------
(* verify_otp, with the payload the request read from the cache.             *)

\* What the code is compared with: the cached payload, or the row when there is none.
Held(w) == IF req[w].cached THEN req[w].got ELSE record[I(w)]
RowBars(w) ==
  IF req[w].cached THEN record[I(w)].attempts >= AttemptLimit
  ELSE record[I(w)] = NoCode \/ I(w) \in used
Spent(w) == RowBars(w) \/ Held(w).attempts >= AttemptLimit \/ Held(w).code <= dead[I(w)]

\* VerifyMobileView tries the other identifier before it gives up.
NextTry(w) ==
  IF req[w].kind = "verify_mobile" /\ I(w)[2] = "phone"
  THEN LET i == <<P(w), "mobile">>
       IN  req' = [req EXCEPT ![w].pc = "compare", ![w].ident = i,
                              ![w].got = cache[i], ![w].cached = cache[i] # NoCode]
  ELSE Done(w)

\* A code used up or out of date; only a cached one is dropped.
Reject(w) ==
  /\ At(w, "compare") /\ Spent(w)
  /\ cache' = IF req[w].cached THEN [cache EXCEPT ![I(w)] = NoCode] ELSE cache
  /\ NextTry(w)
  /\ UNCHANGED <<record, used, people, window, issued, dead, mix, muddled, answers>>

Matches(w) == req[w].sent = I(w)[2] /\ Held(w).code = req[w].code

WrongCode(w) ==
  /\ At(w, "compare") /\ ~Spent(w) /\ ~Matches(w)
  /\ req' = [req EXCEPT ![w].pc = IF req[w].cached THEN "miss" ELSE "count", ![w].got = Held(w)]
  /\ tries' = [tries EXCEPT ![I(w)] = Min({@ + 1, AttemptLimit + 1})]
  /\ UNCHANGED <<store, people, window, issued, dead, mix, muddled, accepted>>

\* The payload read earlier goes back with one more attempt, over whatever is there now.
CacheMiss(w) ==
  /\ At(w, "miss")
  /\ cache' = [cache EXCEPT ![I(w)] = [req[w].got EXCEPT !.attempts = @ + 1]]
  /\ Go(w, "count")
  /\ UNCHANGED <<record, used, people, window, issued, dead, mix, muddled, answers>>

\* Mutant: only the cache counts attempts.
ForgetMiss(w) ==
  /\ At(w, "count")
  /\ NextTry(w)
  /\ UNCHANGED <<store, people, window, issued, dead, mix, muddled, answers>>

CountMiss(w) ==
  /\ At(w, "count")
  /\ record' = IF record[I(w)] = NoCode THEN record
               ELSE [record EXCEPT ![I(w)].attempts = req[w].got.attempts + 1]
  /\ NextTry(w)
  /\ UNCHANGED <<cache, used, people, window, issued, dead, mix, muddled, answers>>

RightCode(w) ==
  /\ At(w, "compare") /\ ~Spent(w) /\ Matches(w)
  /\ accepted' = [accepted EXCEPT ![I(w)] =
       [code |-> req[w].code, times |-> IF @.code = req[w].code THEN 2 ELSE 1]]
  /\ req' = [req EXCEPT ![w].pc = "take", ![w].code = 0, ![w].got = NoCode, ![w].cached = FALSE]
  /\ UNCHANGED <<store, people, window, issued, dead, mix, muddled, tries>>

\* _mark_otp_verified: the cache, then the row.
TakeCode(w) ==
  /\ At(w, "take")
  /\ cache' = [cache EXCEPT ![I(w)] = NoCode]
  /\ Go(w, "mark")
  /\ UNCHANGED <<record, used, people, window, issued, dead, mix, muddled, answers>>

\* Mutant: the row stays good.
MarkNothing(w) ==
  /\ At(w, "mark")
  /\ Go(w, IF req[w].kind = "verify_otp" THEN "pop" ELSE "user")
  /\ UNCHANGED <<store, people, window, issued, dead, mix, muddled, answers>>

MarkUsed(w) ==
  /\ At(w, "mark")
  /\ used' = IF record[I(w)] = NoCode THEN used ELSE used \cup {I(w)}
  /\ Go(w, IF req[w].kind = "verify_otp" THEN "pop" ELSE "user")
  /\ UNCHANGED <<cache, record, people, window, issued, dead, mix, muddled, answers>>

----------------------------------------------------------------------------
(* What an accepted code opens.                                              *)

\* pop_pending_registration: read, then deleted.
GetPending(w) ==
  /\ At(w, "pop")
  /\ Go(w, IF P(w) \in pending THEN "unpend" ELSE "user")
  /\ UNCHANGED <<store, people, window, issued, dead, mix, muddled, answers>>

DropPending(w) ==
  /\ At(w, "unpend")
  /\ pending' = pending \ {P(w)}
  /\ Go(w, "id")
  /\ UNCHANGED <<store, user, rows, window, issued, dead, mix, muddled, answers>>

\* Without details the account of the phone is looked up. VerifyMobileView creates one.
FindUser(w) ==
  /\ At(w, "user")
  /\ LET u == user[P(w)]
     IN  CASE u = NoUser /\ req[w].kind = "verify_mobile" -> Go(w, "id")
           [] u # NoUser /\ ~u.verified ->
                req' = [req EXCEPT ![w].pc = "activate", ![w].n = u.pk]
           [] OTHER -> Done(w)
  /\ UNCHANGED <<store, people, window, issued, dead, mix, muddled, answers>>

\* save(update_fields=...) of the row read; a row that is gone is an error.
Activate(w) ==
  /\ At(w, "activate")
  /\ user' = IF user[P(w)].pk = req[w].n THEN [user EXCEPT ![P(w)].verified = TRUE] ELSE user
  /\ EndOvertaking(w, {v \in On(P(w)) : At(v, "delete")})
  /\ UNCHANGED <<store, pending, rows, window, issued, dead, mix, muddled, answers>>

ChooseId(w) ==
  /\ At(w, "id")
  /\ req' = [req EXCEPT ![w].pc = "insert", ![w].n = NextId, ![w].overtaken = FALSE]
  /\ UNCHANGED <<store, people, window, issued, dead, mix, muddled, answers>>

\* Both matri_id and mobile are unique: the insert of a duplicate raises IntegrityError.
Clashes(w) == req[w].n \in Ids \/ user[P(w)] # NoUser

InsertUser(w) ==
  /\ At(w, "insert")
  /\ IF Clashes(w)
     THEN Done(w) /\ UNCHANGED <<user, rows, muddled>>
     ELSE /\ rows' = [rows EXCEPT ![P(w)] = @ + 1]
          /\ user' = [user EXCEPT ![P(w)] =
               [pk |-> rows[P(w)] + 1, id |-> req[w].n, verified |-> TRUE]]
          /\ EndOvertaking(w, {v \in Workers : At(v, "insert")})
          /\ muddled' = IF P(w) \in pending /\ (req[w].kind = "desk" \/ I(w)[2] = "mobile")
                        THEN muddled \cup Both(P(w)) ELSE muddled
  /\ UNCHANGED <<store, pending, window, issued, dead, mix, answers>>

----------------------------------------------------------------------------
(* Time, the cache, and requests that break off.                             *)

\* Redis may drop a key, or be restarted without one.
EvictCode(i) ==
  /\ "evict" \in mix.kinds /\ i[1] \in mix.phones /\ cache[i] # NoCode
  /\ cache' = [cache EXCEPT ![i] = NoCode]
  /\ UNCHANGED <<record, used, people, window, issued, dead, mix, req, muddled, answers>>

EvictPending(p) ==
  /\ "evict" \in mix.kinds /\ p \in pending
  /\ pending' = pending \ {p}
  /\ UNCHANGED <<store, user, rows, window, issued, dead, mix, req, muddled, answers>>

Expire(i) ==
  /\ "expire" \in mix.kinds /\ i[1] \in mix.phones /\ dead[i] < issued[i]
  /\ dead' = [dead EXCEPT ![i] = issued[i]]
  /\ UNCHANGED <<store, people, window, issued, mix, req, muddled, answers>>

NewWindow(b) ==
  /\ "window" \in mix.kinds /\ b[1] \in mix.phones /\ rate[b] > 0
  /\ rate' = [rate EXCEPT ![b] = 0] /\ sends' = [sends EXCEPT ![b] = 0] /\ raced' = raced \ {b}
  /\ req' = [w \in Workers |-> IF At(w, "rate") /\ req[w].bucket = b
                               THEN [req[w] EXCEPT !.n = Past] ELSE req[w]]
  /\ UNCHANGED <<store, people, issued, dead, mix, muddled, answers>>

\* The worker dies, or a query fails: what was written stays.
BreakOff(w) ==
  /\ "break" \in mix.kinds /\ Busy(w)
  /\ Done(w)
  /\ muddled' = muddled \cup Both(P(w))
  /\ UNCHANGED <<store, people, window, issued, dead, mix, answers>>

SendStep(w) ==
  CountRequest(w) \/ Collect(w) \/ DeleteCollected(w) \/ SetPending(w)
  \/ CacheCode(w) \/ WipeRecord(w) \/ InsertRecord(w)
VerifyStep(w) ==
  Reject(w) \/ WrongCode(w) \/ CacheMiss(w) \/ CountMiss(w)
  \/ RightCode(w) \/ TakeCode(w) \/ MarkUsed(w)
AccountStep(w) ==
  GetPending(w) \/ DropPending(w) \/ FindUser(w) \/ Activate(w) \/ ChooseId(w) \/ InsertUser(w)

Next ==
  \/ \E w \in Workers :
       \/ \E kind \in Kinds, p \in Phones, sent \in Channels, code \in Codes :
            Begin(w, kind, p, sent, code)
       \/ SendStep(w) \/ VerifyStep(w) \/ AccountStep(w) \/ BreakOff(w)
  \/ \E i \in Idents : EvictCode(i) \/ Expire(i)
  \/ \E p \in Phones : EvictPending(p)
  \/ \E b \in Buckets : NewWindow(b)

Spec == Init /\ [][Next]_vars

----------------------------------------------------------------------------
(* Properties.                                                               *)

\* AttemptLimit wrong answers use a code up, whether they were counted in the cache or,
\* when that had lost them, in the row, and a bucket lets RateLimit requests through in a
\* window; only requests that overlap or break off can win more (verify_otp,
\* check_otp_rate_limit).
LimitsHold ==
  /\ \A i \in Idents \ muddled : tries[i] <= AttemptLimit
  /\ \A b \in Buckets \ raced : sends[b] <= RateLimit

\* A lone signup that got its code right gets its account: neither the phone nor the
\* Matri ID chosen for it is taken when it is inserted (VerifyOTPSerializer.validate).
NewAccountFits ==
  \A w \in Workers :
    At(w, "insert") /\ ~req[w].overtaken /\ <<P(w), "phone">> \notin muddled => ~Clashes(w)

\* The code accepted is the newest one, not expired, and accepted once, however the
\* cache and the row took turns in holding it (generate_otp, verify_otp).
AcceptsNewestOnce ==
  [][\A i \in Idents \ muddled :
       accepted'[i] # accepted[i] =>
         accepted'[i] = [code |-> issued[i], times |-> 1] /\ issued[i] > dead[i]]_vars

\* A signup deletes the unverified row it found; a verified account goes only when it
\* was verified between the lookup and the delete (RegisterView).
VerifiedStays ==
  [][\A p \in Phones : user[p].verified =>
       user'[p].verified \/ \E w \in On(p) : At(w, "delete") /\ req[w].overtaken]_vars

\* "Generate next Matri ID in format AM100001, AM100002, ...": the id generated is one
\* nobody has.
NextIdIsNew == Ids # {} => NextId \notin Ids

=============================================================================
