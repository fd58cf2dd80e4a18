--------------------------- MODULE AccountsProofs ---------------------------
(***************************************************************************)
(* Proofs about one-time codes and accounts.                               *)
(*                                                                         *)
(* What each step does to the requests comes first, so that the proofs     *)
(* about it cite it by name. Then the invariants, each resting on those    *)
(* before it: the types, and that a code held was sent; the rate limit;    *)
(* that requests which met no other are alone; unverified rows; what the   *)
(* cache, the row and a request at its step hold of a code; what a request *)
(* knows of the account of its phone; and the Matri ID it has chosen.      *)
(***************************************************************************)
EXTENDS Accounts, FiniteSetTheorems, WellFoundedInduction, TLAPS

----------------------------------------------------------------------------
(* The invariant of the types.                                               *)

Sends == {"register", "resend", "register_mobile"}
Verifies == {"verify_otp", "login", "verify_mobile"}

\* What a request of a kind may be about to do, and whose code it may be about.
Stage(kind) ==
  CASE kind = "register" -> {"rate", "collect", "delete", "pend", "cache", "wipe", "record"}
    [] kind \in {"resend", "register_mobile"} -> {"rate", "cache", "wipe", "record"}
    [] kind = "verify_otp" -> {"compare", "miss", "count", "take", "mark", "pop", "unpend",
                               "user", "activate", "id", "insert"}
    [] kind = "login" -> {"compare", "miss", "count", "take", "mark", "user", "activate"}
    [] kind = "verify_mobile" -> {"compare", "miss", "count", "take", "mark",
                                  "user", "activate", "id", "insert"}
    [] kind = "desk" -> {"id", "insert"}

Lines(kind) ==
  CASE kind \in {"register", "verify_otp", "desk"} -> {"phone"}
    [] kind \in {"register_mobile", "login"} -> {"mobile"}
    [] OTHER -> {"phone", "mobile"}

\* The codes a request holds were sent to its identifier.
Formed(w) ==
  /\ req[w].pc \in Stage(req[w].kind) /\ I(w)[2] \in Lines(req[w].kind)
  /\ req[w].pc # "rate" => req[w].n # Past
  /\ req[w].pc \in {"wipe", "record"} => req[w].code # 0 /\ req[w].code <= issued[I(w)]
  /\ req[w].pc \in {"compare", "miss", "count"} => req[w].got.code <= issued[I(w)]
  /\ req[w].pc = "compare" /\ req[w].cached => req[w].got.code # 0
  /\ req[w].pc = "miss" => req[w].got.code # 0
  /\ req[w].pc = "activate" => req[w].n # 0

CodesSent ==
  \A i \in Idents :
    /\ cache[i].code <= issued[i] /\ record[i].code <= issued[i]
    /\ dead[i] <= issued[i] /\ accepted[i].code <= issued[i]
    /\ cache[i] = NoCode \/ cache[i].code # 0
    /\ record[i] = NoCode \/ record[i].code # 0

RowsCounted == \A p \in Phones : user[p].pk <= rows[p] /\ (user[p] = NoUser \/ user[p].pk # 0)

TypeInv ==
  /\ TypeOK /\ CodesSent /\ RowsCounted
  /\ \A w \in Workers : Busy(w) => Formed(w)

----------------------------------------------------------------------------
(* Requests.                                                                 *)

LEMMA StagesAre ==
  /\ Stage("register") = {"rate", "collect", "delete", "pend", "cache", "wipe", "record"}
  /\ \A kind \in {"resend", "register_mobile"} : Stage(kind) = {"rate", "cache", "wipe", "record"}
  /\ Stage("verify_otp") = {"compare", "miss", "count", "take", "mark", "pop", "unpend",
                            "user", "activate", "id", "insert"}
  /\ Stage("login") = {"compare", "miss", "count", "take", "mark", "user", "activate"}
  /\ Stage("verify_mobile") = {"compare", "miss", "count", "take", "mark",
                               "user", "activate", "id", "insert"}
  /\ Stage("desk") = {"id", "insert"}
<1>1. Stage("register") = {"rate", "collect", "delete", "pend", "cache", "wipe", "record"}
  BY DEF Stage
<1>2. \A kind \in {"resend", "register_mobile"} : Stage(kind) = {"rate", "cache", "wipe", "record"}
  BY DEF Stage
<1>3. Stage("verify_otp") = {"compare", "miss", "count", "take", "mark", "pop", "unpend",
                             "user", "activate", "id", "insert"}
  BY DEF Stage
<1>4. Stage("login") = {"compare", "miss", "count", "take", "mark", "user", "activate"}
  BY DEF Stage
<1>5. Stage("verify_mobile") = {"compare", "miss", "count", "take", "mark",
                                "user", "activate", "id", "insert"}
  BY DEF Stage
<1>6. Stage("desk") = {"id", "insert"}
  BY DEF Stage
<1> QED
  BY <1>1, <1>2, <1>3, <1>4, <1>5, <1>6

\* The kinds of a request, by the step it is at.
LEMMA KindAt ==
  ASSUME NEW kind \in Kinds, NEW pc \in Stage(kind)
  PROVE  /\ pc \in Pcs
         /\ pc \in {"rate", "cache", "wipe", "record"} <=> kind \in Sends /\ pc \notin {"collect", "delete", "pend"}
         /\ pc \in {"collect", "delete", "pend"} => kind = "register"
         /\ pc \in {"compare", "miss", "count", "take", "mark", "user", "activate"} => kind \in Verifies
         /\ pc \in {"pop", "unpend"} => kind = "verify_otp"
         /\ pc \in {"id", "insert"} => kind \in {"verify_otp", "verify_mobile", "desk"}
  BY StagesAre DEF Kinds, Pcs, Sends, Verifies

LEMMA Idles == "idle" \notin Pcs /\ \A r \in Request : r # Idle /\ r.pc \in Pcs
<1>1. "idle" \notin Pcs
  BY DEF Pcs
<1>2. \A r \in Request : r.pc \in Pcs
  BY DEF Request
<1> QED
  BY <1>1, <1>2 DEF Idle

LEMMA RequestIs ==
  ASSUME TypeInv, NEW w \in Workers, Busy(w)
  PROVE  /\ req[w] \in Request /\ req[w].pc \in Pcs /\ req[w].kind \in Kinds
         /\ I(w) \in Idents /\ P(w) \in Phones /\ I(w) = <<P(w), I(w)[2]>>
         /\ I(w)[2] \in {"phone", "mobile"} /\ req[w].bucket \in Buckets
         /\ req[w].code \in Codes /\ req[w].got \in Payload /\ req[w].cached \in BOOLEAN
         /\ req[w].n \in Nat \cup {Past} /\ req[w].solo \in BOOLEAN /\ req[w].overtaken \in BOOLEAN
         /\ I(w) \in Both(P(w)) /\ Formed(w)
<1>1. req[w] \in Request /\ Formed(w)
  BY DEF TypeInv, TypeOK, Busy
<1>2. I(w) \in Idents
  BY <1>1 DEF Request, I
<1>3. P(w) \in Phones /\ I(w) = <<P(w), I(w)[2]>> /\ I(w)[2] \in {"phone", "mobile"}
  BY <1>2 DEF Idents, I, P
<1> QED
  BY <1>1, <1>2, <1>3 DEF Request, Both

\* The request v stands where it stood, but for what others' steps note in it.
Still(v) ==
  /\ req[v] = Idle => req'[v] = Idle
  /\ req[v] # Idle =>
       /\ req'[v] # Idle /\ req'[v].pc = req[v].pc /\ req'[v].kind = req[v].kind
       /\ req'[v].ident = req[v].ident /\ req'[v].bucket = req[v].bucket
       /\ req'[v].code = req[v].code /\ req'[v].got = req[v].got /\ req'[v].cached = req[v].cached
       /\ req'[v].solo => req[v].solo
       /\ req'[v].n = req[v].n \/ req[v].pc = "rate"
       /\ req[v].overtaken => req'[v].overtaken

Others(w) == \A v \in Workers \ {w} : req'[v] = req[v]
OthersStill(w) == \A v \in Workers \ {w} : Still(v)

Typed == req' \in [Workers -> Request \cup {Idle}]

LEMMA Puts ==
  ASSUME TypeInv, NEW w \in Workers, NEW r \in Request \cup {Idle}, req' = [req EXCEPT ![w] = r]
  PROVE  Typed /\ Others(w) /\ OthersStill(w) /\ req'[w] = r
<1>1. Typed /\ Others(w) /\ req'[w] = r
  BY DEF TypeInv, TypeOK, Typed, Others
<1> QED
  BY <1>1 DEF Others, OthersStill, Still

LEMMA DoneIs ==
  ASSUME TypeInv, NEW w \in Workers, Done(w)
  PROVE  Typed /\ Others(w) /\ OthersStill(w) /\ req'[w] = Idle
BY Puts DEF Done

\* The same request, at another step.
Turns(w, pc) ==
  /\ req'[w] # Idle /\ req'[w].pc = pc /\ req'[w].kind = req[w].kind
  /\ req'[w].bucket = req[w].bucket /\ req'[w].solo = req[w].solo
  /\ Others(w) /\ OthersStill(w) /\ Typed

SameIdent(w) == req'[w].ident = req[w].ident
SameCode(w) == req'[w].code = req[w].code
SameGot(w) == req'[w].got = req[w].got /\ req'[w].cached = req[w].cached
SameNote(w) == req'[w].n = req[w].n /\ req'[w].overtaken = req[w].overtaken

LEMMA GoIs ==
  ASSUME TypeInv, NEW w \in Workers, Busy(w), NEW pc \in Pcs, Go(w, pc)
  PROVE  Turns(w, pc) /\ SameIdent(w) /\ SameCode(w) /\ SameGot(w) /\ SameNote(w)
<1> DEFINE r == [req[w] EXCEPT !.pc = pc]
<1>1. /\ r \in Request /\ r.pc = pc /\ r.kind = req[w].kind /\ r.ident = req[w].ident
      /\ r.bucket = req[w].bucket /\ r.code = req[w].code /\ r.got = req[w].got
      /\ r.cached = req[w].cached /\ r.solo = req[w].solo /\ r.n = req[w].n
      /\ r.overtaken = req[w].overtaken
  BY RequestIs DEF Request
<1>2. req' = [req EXCEPT ![w] = r]
  BY DEF Go
<1> HIDE DEF r
<1> QED
  BY <1>1, <1>2, Puts, Idles DEF Turns, SameIdent, SameCode, SameGot, SameNote

----------------------------------------------------------------------------
(* What each step does to the requests.                                      *)

Ends(w) == req'[w] = Idle /\ Others(w) /\ OthersStill(w) /\ Typed

LEMMA PastIs == Past \notin Nat /\ Past = -1 /\ 0 \in Nat
  BY DEF Past

LEMMA CountRequestIs ==
  ASSUME TypeInv, NEW w \in Workers, CountRequest(w)
  PROVE  /\ At(w, "rate") /\ Busy(w)
         /\ IF req[w].n >= RateLimit THEN Ends(w)
            ELSE /\ Turns(w, IF req[w].kind = "register" THEN "collect" ELSE "cache")
                 /\ SameIdent(w) /\ SameCode(w) /\ SameGot(w) /\ req'[w].n = 0
<1> DEFINE pc == IF req[w].kind = "register" THEN "collect" ELSE "cache"
           r == [req[w] EXCEPT !.n = 0, !.pc = pc]
<1>0. Busy(w) /\ At(w, "rate")
  BY DEF CountRequest, At
<1>1. CASE req[w].n >= RateLimit
  <2>1. Done(w)
    BY <1>1 DEF CountRequest
  <2> QED
    BY <1>0, <1>1, <2>1, DoneIs DEF Ends
<1>2. CASE ~(req[w].n >= RateLimit)
  <2>1. req' = [req EXCEPT ![w] = r]
    BY <1>2 DEF CountRequest
  <2>2. pc \in Pcs
    BY DEF Pcs
  <2> HIDE DEF pc
  <2>3. /\ r \in Request /\ r.pc = pc /\ r.kind = req[w].kind /\ r.ident = req[w].ident
        /\ r.bucket = req[w].bucket /\ r.code = req[w].code /\ r.got = req[w].got
        /\ r.cached = req[w].cached /\ r.solo = req[w].solo /\ r.n = 0
    BY <1>0, <2>2, RequestIs DEF Request
  <2> HIDE DEF r
  <2>4. Turns(w, pc) /\ SameIdent(w) /\ SameCode(w) /\ SameGot(w) /\ req'[w].n = 0
    BY <2>1, <2>3, Puts, Idles DEF Turns, SameIdent, SameCode, SameGot
  <2> QED
    BY <1>0, <1>2, <2>4 DEF pc
<1> QED
  BY <1>1, <1>2

LEMMA CollectIs ==
  ASSUME TypeInv, NEW w \in Workers, Collect(w)
  PROVE  /\ At(w, "collect") /\ Busy(w)
         /\ \/ Ends(w)
            \/ /\ Turns(w, "delete") /\ SameIdent(w) /\ SameCode(w) /\ SameGot(w)
               /\ ~user[P(w)].verified /\ req'[w].n = user[P(w)].pk /\ req'[w].n \in Nat
<1> DEFINE r == [req[w] EXCEPT !.pc = "delete", !.n = user[P(w)].pk, !.overtaken = FALSE]
<1>0. Busy(w) /\ At(w, "collect")
  BY DEF Collect, At
<1>1. CASE user[P(w)].verified
  <2>1. Done(w)
    BY <1>1 DEF Collect
  <2> QED
    BY <1>0, <2>1, DoneIs DEF Ends
<1>2. CASE ~user[P(w)].verified
  <2>1. req' = [req EXCEPT ![w] = r]
    BY <1>2 DEF Collect
  <2>2. "delete" \in Pcs /\ user[P(w)].pk \in Nat
    BY <1>0, RequestIs DEF Pcs, TypeInv, TypeOK, UserRow
  <2>3. /\ r \in Request /\ r.pc = "delete" /\ r.kind = req[w].kind /\ r.ident = req[w].ident
        /\ r.bucket = req[w].bucket /\ r.code = req[w].code /\ r.got = req[w].got
        /\ r.cached = req[w].cached /\ r.solo = req[w].solo /\ r.n = user[P(w)].pk
    BY <1>0, <2>2, RequestIs DEF Request
  <2> HIDE DEF r
  <2> QED
    BY <1>0, <1>2, <2>1, <2>2, <2>3, Puts, Idles DEF Turns, SameIdent, SameCode, SameGot
<1> QED
  BY <1>1, <1>2

LEMMA DeleteCollectedIs ==
  ASSUME TypeInv, NEW w \in Workers, DeleteCollected(w)
  PROVE  /\ At(w, "delete") /\ Busy(w)
         /\ Turns(w, "pend") /\ SameIdent(w) /\ SameCode(w) /\ SameGot(w) /\ req'[w].n = 0
<1> DEFINE r == [req[w] EXCEPT !.pc = "pend", !.n = 0, !.overtaken = FALSE]
<1>0. Busy(w) /\ At(w, "delete") /\ req' = [req EXCEPT ![w] = r]
  BY DEF DeleteCollected, At
<1>1. "pend" \in Pcs
  BY DEF Pcs
<1>2. /\ r \in Request /\ r.pc = "pend" /\ r.kind = req[w].kind /\ r.ident = req[w].ident
      /\ r.bucket = req[w].bucket /\ r.code = req[w].code /\ r.got = req[w].got
      /\ r.cached = req[w].cached /\ r.solo = req[w].solo /\ r.n = 0
  BY <1>0, <1>1, RequestIs DEF Request
<1> HIDE DEF r
<1> QED
  BY <1>0, <1>2, Puts, Idles DEF Turns, SameIdent, SameCode, SameGot

LEMMA CacheCodeIs ==
  ASSUME TypeInv, NEW w \in Workers, CacheCode(w)
  PROVE  /\ At(w, "cache") /\ Busy(w)
         /\ Turns(w, "wipe") /\ SameIdent(w) /\ SameGot(w) /\ SameNote(w)
         /\ req'[w].code = issued[I(w)] + 1 /\ issued[I(w)] + 1 \in Codes
<1> DEFINE c == issued[I(w)] + 1
           r == [req[w] EXCEPT !.pc = "wipe", !.code = c]
<1>0. Busy(w) /\ At(w, "cache") /\ req' = [req EXCEPT ![w] = r]
  BY DEF CacheCode, At
<1>1. "wipe" \in Pcs
  BY DEF Pcs
<1>2. issued[I(w)] \in 0..MaxCodes /\ issued[I(w)] < MaxCodes /\ MaxCodes \in Nat
  BY <1>0, RequestIs, AccountsAssumption DEF CacheCode, TypeInv, TypeOK, Codes
<1>3. c \in Codes
  BY <1>2 DEF Codes
<1>4. c = issued[I(w)] + 1
  OBVIOUS
<1> HIDE DEF c
<1>5. /\ r \in Request /\ r.pc = "wipe" /\ r.kind = req[w].kind /\ r.ident = req[w].ident
      /\ r.bucket = req[w].bucket /\ r.code = c /\ r.got = req[w].got
      /\ r.cached = req[w].cached /\ r.solo = req[w].solo /\ r.n = req[w].n
      /\ r.overtaken = req[w].overtaken
  BY <1>0, <1>1, <1>3, RequestIs DEF Request
<1> HIDE DEF r
<1> QED
  BY <1>0, <1>3, <1>4, <1>5, Puts, Idles DEF Turns, SameIdent, SameGot, SameNote

\* After a refusal: the end, or the other identifier of the phone with what is cached for it.
Retries(w) ==
  LET i == <<P(w), "mobile">>
  IN  /\ Turns(w, "compare") /\ req[w].kind = "verify_mobile" /\ I(w)[2] = "phone"
      /\ req'[w].ident = i /\ req'[w].got = cache[i] /\ req'[w].cached = (cache[i] # NoCode)
      /\ req'[w].n = req[w].n

LEMMA NextTryIs ==
  ASSUME TypeInv, NEW w \in Workers, Busy(w), NextTry(w)
  PROVE  Ends(w) \/ Retries(w)
<1> DEFINE i == <<P(w), "mobile">>
           r == [req[w] EXCEPT !.pc = "compare", !.ident = i, !.got = cache[i],
                               !.cached = cache[i] # NoCode]
<1>1. CASE req[w].kind = "verify_mobile" /\ I(w)[2] = "phone"
  <2>1. req' = [req EXCEPT ![w] = r]
    BY <1>1 DEF NextTry
  <2>2. i \in Idents /\ "compare" \in Pcs
    BY RequestIs DEF Idents, Pcs
  <2>3. cache[i] \in Payload
    BY <2>2 DEF TypeInv, TypeOK
  <2>4. (cache[i] # NoCode) \in BOOLEAN
    OBVIOUS
  <2>5. /\ r \in Request /\ r.pc = "compare" /\ r.kind = req[w].kind /\ r.ident = i
        /\ r.bucket = req[w].bucket /\ r.got = cache[i]
        /\ r.cached = (cache[i] # NoCode) /\ r.solo = req[w].solo /\ r.n = req[w].n
    BY <2>2, <2>3, <2>4, RequestIs DEF Request
  <2> HIDE DEF r
  <2>6. Turns(w, "compare") /\ req'[w].ident = i /\ req'[w].got = cache[i] /\ req'[w].n = req[w].n
    BY <2>1, <2>5, Puts, Idles DEF Turns
  <2>7. req'[w].cached = r.cached
    BY <2>1, <2>5, Puts
  <2> QED
    BY <1>1, <2>5, <2>6, <2>7 DEF Retries
<1>2. CASE ~(req[w].kind = "verify_mobile" /\ I(w)[2] = "phone")
  <2>1. Done(w)
    BY <1>2 DEF NextTry
  <2> QED
    BY <2>1, DoneIs DEF Ends
<1> QED
  BY <1>1, <1>2

LEMMA HeldIs ==
  ASSUME TypeInv, NEW w \in Workers, At(w, "compare")
  PROVE  /\ Held(w) \in Payload /\ Held(w).code \in Nat /\ Held(w).attempts \in Nat
         /\ Held(w).code <= issued[I(w)]
         /\ (req[w].cached => Held(w) = req[w].got /\ req[w].got.code # 0)
         /\ (~req[w].cached => Held(w) = record[I(w)])
<1>1. req[w].got \in Payload /\ record[I(w)] \in Payload /\ Formed(w) /\ I(w) \in Idents
  BY RequestIs DEF TypeInv, TypeOK, At
<1>2. req[w].got.code <= issued[I(w)] /\ record[I(w)].code <= issued[I(w)]
  BY <1>1 DEF Formed, At, TypeInv, CodesSent
<1> QED
  BY <1>1, <1>2 DEF Held, Payload, Codes, Formed, At

LEMMA WrongCodeIs ==
  ASSUME TypeInv, NEW w \in Workers, WrongCode(w)
  PROVE  /\ At(w, "compare") /\ Busy(w)
         /\ Turns(w, IF req[w].cached THEN "miss" ELSE "count") /\ SameIdent(w) /\ SameCode(w)
         /\ req'[w].got = Held(w) /\ SameNote(w)
<1> DEFINE pc == IF req[w].cached THEN "miss" ELSE "count"
           r == [req[w] EXCEPT !.pc = pc, !.got = Held(w)]
<1>0. Busy(w) /\ At(w, "compare") /\ req' = [req EXCEPT ![w] = r]
  BY DEF WrongCode, At
<1>1. pc \in Pcs
  BY DEF Pcs
<1>2. Held(w) \in Payload
  BY <1>0, HeldIs
<1> HIDE DEF pc
<1>3. /\ r \in Request /\ r.pc = pc /\ r.kind = req[w].kind /\ r.ident = req[w].ident
      /\ r.bucket = req[w].bucket /\ r.code = req[w].code /\ r.got = Held(w)
      /\ r.solo = req[w].solo /\ r.n = req[w].n /\ r.overtaken = req[w].overtaken
  BY <1>0, <1>1, <1>2, RequestIs DEF Request
<1> HIDE DEF r
<1>4. Turns(w, pc) /\ SameIdent(w) /\ SameCode(w) /\ req'[w].got = Held(w) /\ SameNote(w)
  BY <1>0, <1>3, Puts, Idles DEF Turns, SameIdent, SameCode, SameNote
<1> QED
  BY <1>0, <1>4 DEF pc

LEMMA RightCodeIs ==
  ASSUME TypeInv, NEW w \in Workers, RightCode(w)
  PROVE  /\ At(w, "compare") /\ Busy(w)
         /\ Turns(w, "take") /\ SameIdent(w) /\ SameNote(w)
<1> DEFINE r == [req[w] EXCEPT !.pc = "take", !.code = 0, !.got = NoCode, !.cached = FALSE]
<1>0. Busy(w) /\ At(w, "compare") /\ req' = [req EXCEPT ![w] = r]
  BY DEF RightCode, At
<1>1. "take" \in Pcs /\ 0 \in Codes /\ NoCode \in Payload
  BY AccountsAssumption DEF Pcs, Codes, NoCode, Payload
<1>3. /\ r \in Request /\ r.pc = "take" /\ r.kind = req[w].kind /\ r.ident = req[w].ident
      /\ r.bucket = req[w].bucket
      /\ r.solo = req[w].solo /\ r.n = req[w].n /\ r.overtaken = req[w].overtaken
  BY <1>0, <1>1, RequestIs DEF Request
<1> HIDE DEF r
<1> QED
  BY <1>0, <1>3, Puts, Idles DEF Turns, SameIdent, SameNote

\* What the request does about the account of the phone.
LEMMA FindUserIs ==
  ASSUME TypeInv, NEW w \in Workers, FindUser(w)
  PROVE  /\ At(w, "user") /\ Busy(w)
         /\ \/ Ends(w)
            \/ /\ Turns(w, "id") /\ SameIdent(w) /\ SameNote(w)
               /\ user[P(w)] = NoUser /\ req[w].kind = "verify_mobile"
            \/ /\ Turns(w, "activate") /\ SameIdent(w)
               /\ req'[w].n = user[P(w)].pk /\ req'[w].n \in Nat \ {0}
<1> DEFINE u == user[P(w)]
           r == [req[w] EXCEPT !.pc = "activate", !.n = u.pk]
<1>0. Busy(w) /\ At(w, "user")
  BY DEF FindUser, At
<1>1. CASE u = NoUser /\ req[w].kind = "verify_mobile"
  <2>1. Go(w, "id")
    BY <1>1 DEF FindUser
  <2>2. "id" \in Pcs
    BY DEF Pcs
  <2> QED
    BY <1>0, <1>1, <2>1, <2>2, GoIs
<1>2. CASE u # NoUser /\ ~u.verified
  <2>1. req' = [req EXCEPT ![w] = r]
    BY <1>2 DEF FindUser
  <2>2. "activate" \in Pcs /\ u.pk \in Nat /\ u.pk # 0
    BY <1>0, <1>2, RequestIs DEF Pcs, TypeInv, TypeOK, UserRow, RowsCounted
  <2>3. /\ r \in Request /\ r.pc = "activate" /\ r.kind = req[w].kind /\ r.ident = req[w].ident
        /\ r.bucket = req[w].bucket /\ r.solo = req[w].solo /\ r.n = u.pk
    BY <1>0, <2>2, RequestIs DEF Request
  <2> HIDE DEF r
  <2> QED
    BY <1>0, <1>2, <2>1, <2>2, <2>3, Puts, Idles DEF Turns, SameIdent
<1>3. CASE ~(u = NoUser /\ req[w].kind = "verify_mobile") /\ ~(u # NoUser /\ ~u.verified)
  <2>1. Done(w)
    BY <1>3 DEF FindUser
  <2> QED
    BY <1>0, <2>1, DoneIs DEF Ends
<1> QED
  BY <1>1, <1>2, <1>3

\* The request ends, and those in V are told.
Overtakes(w, V) ==
  /\ req'[w] = Idle /\ OthersStill(w) /\ Typed
  /\ \A v \in Workers \ {w} : Busy(v) =>
       /\ req'[v].n = req[v].n /\ req'[v].solo = req[v].solo
       /\ v \in V => req'[v].overtaken
       /\ v \notin V => req'[v] = req[v]

LEMMA EndOvertakingIs ==
  ASSUME TypeInv, NEW w \in Workers, Busy(w), NEW V \in SUBSET Workers,
         \A v \in V : Busy(v), EndOvertaking(w, V)
  PROVE  Overtakes(w, V)
<1>1. /\ req' = [v \in Workers |-> IF v = w THEN Idle
                                  ELSE IF v \in V THEN [req[v] EXCEPT !.overtaken = TRUE]
                                  ELSE req[v]]
  BY DEF EndOvertaking
<1>2. req'[w] = Idle
  BY <1>1
<1>3. ASSUME NEW v \in V, v # w
      PROVE  /\ req'[v] \in Request /\ Still(v) /\ req'[v].n = req[v].n
             /\ req'[v].solo = req[v].solo /\ req'[v].overtaken
  <2> DEFINE r == [req[v] EXCEPT !.overtaken = TRUE]
  <2>1. req'[v] = r
    BY <1>1, <1>3
  <2>2. /\ r \in Request /\ r.pc = req[v].pc /\ r.kind = req[v].kind /\ r.ident = req[v].ident
        /\ r.bucket = req[v].bucket /\ r.code = req[v].code /\ r.got = req[v].got
        /\ r.cached = req[v].cached /\ r.solo = req[v].solo /\ r.n = req[v].n
        /\ r.overtaken = TRUE
    BY RequestIs DEF Request
  <2> HIDE DEF r
  <2> QED
    BY <2>1, <2>2, Idles DEF Still, Busy
<1>4. ASSUME NEW v \in Workers \ V, v # w
      PROVE  req'[v] = req[v] /\ Still(v)
  BY <1>1, <1>4 DEF Still
<1>5. Typed
  <2>1. \A v \in Workers : req'[v] \in Request \cup {Idle}
    BY <1>2, <1>3, <1>4 DEF TypeInv, TypeOK
  <2> QED
    BY <1>1, <2>1 DEF Typed
<1>6. OthersStill(w)
  BY <1>3, <1>4 DEF OthersStill
<1>7. ASSUME NEW v \in Workers \ {w}, Busy(v)
      PROVE  /\ req'[v].n = req[v].n /\ req'[v].solo = req[v].solo
             /\ v \in V => req'[v].overtaken
             /\ v \notin V => req'[v] = req[v]
  BY <1>3, <1>4, <1>7
<1> QED
  BY <1>2, <1>5, <1>6, <1>7 DEF Overtakes

LEMMA ActivateIs ==
  ASSUME TypeInv, NEW w \in Workers, Activate(w)
  PROVE  At(w, "activate") /\ Busy(w) /\ Overtakes(w, {v \in On(P(w)) : At(v, "delete")})
<1> DEFINE V == {v \in On(P(w)) : At(v, "delete")}
<1>1. Busy(w) /\ At(w, "activate") /\ EndOvertaking(w, V)
  BY DEF Activate, At
<1>2. V \subseteq Workers /\ \A v \in V : Busy(v)
  BY DEF On
<1> HIDE DEF V
<1>3. Overtakes(w, V)
  BY <1>1, <1>2, EndOvertakingIs
<1> QED
  BY <1>1, <1>3 DEF V

LEMMA InsertUserIs ==
  ASSUME TypeInv, NEW w \in Workers, InsertUser(w)
  PROVE  /\ At(w, "insert") /\ Busy(w)
         /\ Clashes(w) => Ends(w)
         /\ ~Clashes(w) => Overtakes(w, {v \in Workers : At(v, "insert")})
<1> DEFINE V == {v \in Workers : At(v, "insert")}
<1>0. Busy(w) /\ At(w, "insert")
  BY DEF InsertUser, At
<1>1. Clashes(w) => Done(w)
  BY DEF InsertUser
<1>2. ~Clashes(w) => EndOvertaking(w, V)
  BY DEF InsertUser
<1>3. V \subseteq Workers /\ \A v \in V : Busy(v)
  BY DEF At
<1> HIDE DEF V
<1>4. ~Clashes(w) => Overtakes(w, V)
  BY <1>0, <1>2, <1>3, EndOvertakingIs
<1>5. Clashes(w) => Ends(w)
  BY <1>1, DoneIs DEF Ends
<1> QED
  BY <1>0, <1>4, <1>5 DEF V

----------------------------------------------------------------------------
(* The steps that only turn a request, and those that end one.               *)

LEMMA TurnsAre ==
  ASSUME TypeInv, NEW w \in Workers
  PROVE  /\ SetPending(w) => At(w, "pend") /\ Go(w, "cache")
         /\ WipeRecord(w) => At(w, "wipe") /\ Go(w, "record")
         /\ CacheMiss(w) => At(w, "miss") /\ Go(w, "count")
         /\ TakeCode(w) => At(w, "take") /\ Go(w, "mark")
         /\ MarkUsed(w) => At(w, "mark") /\ Go(w, IF req[w].kind = "verify_otp" THEN "pop" ELSE "user")
         /\ GetPending(w) => At(w, "pop") /\ Go(w, IF P(w) \in pending THEN "unpend" ELSE "user")
         /\ DropPending(w) => At(w, "unpend") /\ Go(w, "id")
         /\ InsertRecord(w) => At(w, "record") /\ Done(w)
         /\ BreakOff(w) => Busy(w) /\ Done(w)
         /\ Reject(w) => At(w, "compare") /\ NextTry(w)
         /\ CountMiss(w) => At(w, "count") /\ NextTry(w)
BY DEF SetPending, WipeRecord, CacheMiss, TakeCode, MarkUsed, GetPending, DropPending,
       InsertRecord, BreakOff, Reject, CountMiss

LEMMA GoTurns ==
  ASSUME TypeInv, NEW w \in Workers, NEW at, NEW pc \in Pcs, At(w, at), Go(w, pc)
  PROVE  Busy(w) /\ Turns(w, pc) /\ SameIdent(w) /\ SameCode(w) /\ SameGot(w) /\ SameNote(w)
BY GoIs DEF At

LEMMA ChooseIdIs ==
  ASSUME TypeInv, NEW w \in Workers, ChooseId(w), NextId \in Nat
  PROVE  /\ At(w, "id") /\ Busy(w) /\ Turns(w, "insert") /\ SameIdent(w) /\ req'[w].n = NextId
<1> DEFINE n == NextId
           r == [req[w] EXCEPT !.pc = "insert", !.n = n, !.overtaken = FALSE]
<1>0. Busy(w) /\ At(w, "id") /\ req' = [req EXCEPT ![w] = r]
  BY DEF ChooseId, At
<1>1. "insert" \in Pcs /\ n \in Nat /\ n = NextId
  BY DEF Pcs
<1> HIDE DEF n
<1>2. /\ r \in Request /\ r.pc = "insert" /\ r.kind = req[w].kind /\ r.ident = req[w].ident
      /\ r.bucket = req[w].bucket /\ r.solo = req[w].solo /\ r.n = n
  BY <1>0, <1>1, RequestIs DEF Request
<1> HIDE DEF r
<1> QED
  BY <1>0, <1>1, <1>2, Puts, Idles DEF Turns, SameIdent

----------------------------------------------------------------------------
(* The start of a request, and the end of a window.                          *)

LEMMA FirstStep ==
  ASSUME NEW kind \in Kinds, NEW p \in Phones
  PROVE  /\ FirstPc(kind) \in Stage(kind) /\ FirstPc(kind) \in {"rate", "id", "compare"}
         /\ Channel(kind, p) \in Lines(kind) /\ Channel(kind, p) \in {"phone", "mobile"}
         /\ FirstPc(kind) = "rate" => kind \in Sends
         /\ FirstPc(kind) = "id" => kind = "desk"
         /\ FirstPc(kind) = "compare" => kind \in Verifies
<1>1. FirstPc(kind) = IF kind \in Sends THEN "rate" ELSE IF kind = "desk" THEN "id" ELSE "compare"
  BY DEF FirstPc, Sends
<1>2. CASE kind = "register"
  BY <1>1, <1>2, StagesAre DEF Channel, Lines, Sends
<1>3. CASE kind = "resend"
  BY <1>1, <1>3, StagesAre DEF Channel, Lines, Sends
<1>4. CASE kind = "register_mobile"
  BY <1>1, <1>4, StagesAre DEF Channel, Lines, Sends
<1>5. CASE kind = "verify_otp"
  BY <1>1, <1>5, StagesAre DEF Channel, Lines, Sends, Verifies
<1>6. CASE kind = "login"
  BY <1>1, <1>6, StagesAre DEF Channel, Lines, Sends, Verifies
<1>7. CASE kind = "verify_mobile"
  BY <1>1, <1>7, StagesAre DEF Channel, Lines, Sends, Verifies
<1>8. CASE kind = "desk"
  BY <1>1, <1>8, StagesAre DEF Channel, Lines, Sends
<1> QED
  BY <1>2, <1>3, <1>4, <1>5, <1>6, <1>7, <1>8 DEF Kinds

\* The request w has begun; others for the phone p have been joined.
Begins(w, kind, p, code) ==
  LET i == <<p, Channel(kind, p)>>
      b == <<p, IF kind = "resend" THEN "resend" ELSE Channel(kind, p)>>
  IN  /\ ~Busy(w) /\ Typed /\ OthersStill(w)
      /\ req'[w] # Idle /\ req'[w].pc = FirstPc(kind) /\ req'[w].kind = kind
      /\ req'[w].ident = i /\ req'[w].bucket = b /\ req'[w].code = code
      /\ req'[w].got = IF FirstPc(kind) = "compare" THEN cache[i] ELSE NoCode
      /\ req'[w].cached => FirstPc(kind) = "compare" /\ cache[i] # NoCode
      /\ FirstPc(kind) = "compare" /\ cache[i] # NoCode => req'[w].cached
      /\ req'[w].n = IF FirstPc(kind) = "rate" THEN rate[b] ELSE 0
      /\ req'[w].solo => On(p) = {}
      /\ On(p) = {} => req'[w].solo
      /\ \A v \in On(p) : ~req'[v].solo
      /\ \A v \in Workers \ {w} : Busy(v) => req'[v].n = req[v].n /\ req'[v].overtaken = req[v].overtaken
      /\ \A v \in Workers \ {w} : v \notin On(p) => req'[v] = req[v]

LEMMA BeginIs ==
  ASSUME TypeInv, NEW w \in Workers, NEW kind \in Kinds, NEW p \in Phones, NEW code \in Codes,
         NEW sent \in Channels, Begin(w, kind, p, sent, code)
  PROVE  Begins(w, kind, p, code)
<1> DEFINE chan == Channel(kind, p)
           i == <<p, chan>>
           b == <<p, IF kind = "resend" THEN "resend" ELSE chan>>
           first == FirstPc(kind)
           got == IF first = "compare" THEN cache[i] ELSE NoCode
           n == IF first = "rate" THEN rate[b] ELSE 0
           cached == first = "compare" /\ cache[i] # NoCode
           solo == On(p) = {}
           r == [pc |-> first, kind |-> kind, ident |-> i, bucket |-> b, code |-> code,
                 sent |-> sent, got |-> got, cached |-> cached, n |-> n, solo |-> solo, overtaken |-> FALSE]
<1>1. /\ ~Busy(w) /\ r = Open(kind, p, chan, sent, code)
      /\ req' = [v \in Workers |-> CASE v = w -> r
                                    [] v \in On(p) -> [req[v] EXCEPT !.solo = FALSE]
                                    [] OTHER -> req[v]]
  BY DEF Begin, Open
<1>2. chan \in {"phone", "mobile"} /\ first \in Pcs
  BY FirstStep, KindAt
<1>3. i \in Idents /\ b \in Buckets
  BY <1>2 DEF Idents, Buckets
<1>4. got \in Payload
  <2>1. NoCode \in Payload
    BY AccountsAssumption DEF NoCode, Payload, Codes
  <2> QED
    BY <1>3, <2>1 DEF TypeInv, TypeOK
<1>5. n \in Nat
  BY <1>3, AccountsAssumption DEF TypeInv, TypeOK
<1>6. cached \in BOOLEAN /\ solo \in BOOLEAN
  OBVIOUS
<1>7. w \notin On(p)
  BY <1>1 DEF On
<1> DEFINE q(v) == [req[v] EXCEPT !.solo = FALSE]
<1>8. /\ req'[w] = r
      /\ \A v \in On(p) : req'[v] = q(v)
      /\ \A v \in Workers \ {w} : v \notin On(p) => req'[v] = req[v]
  BY <1>1, <1>7 DEF On
<1>s. solo <=> On(p) = {}
  OBVIOUS
<1>c. cached <=> first = "compare" /\ cache[i] # NoCode
  OBVIOUS
<1>g. got = (IF first = "compare" THEN cache[i] ELSE NoCode) /\ n = IF first = "rate" THEN rate[b] ELSE 0
  OBVIOUS
<1> HIDE DEF cached, solo, got, n
<1>9. /\ r \in Request /\ r.pc = first /\ r.kind = kind /\ r.ident = i /\ r.bucket = b
      /\ r.code = code /\ r.got = got /\ r.n = n
  BY <1>2, <1>3, <1>4, <1>5, <1>6, PastIs DEF Request
<1>10. (r.cached <=> cached) /\ (r.solo <=> solo)
  OBVIOUS
<1> HIDE DEF r
<1>11. ASSUME NEW v \in On(p)
       PROVE  /\ q(v) \in Request /\ q(v).pc = req[v].pc /\ q(v).kind = req[v].kind
              /\ q(v).ident = req[v].ident /\ q(v).bucket = req[v].bucket /\ q(v).code = req[v].code
              /\ q(v).got = req[v].got /\ q(v).cached = req[v].cached /\ q(v).solo = FALSE
              /\ q(v).n = req[v].n /\ q(v).overtaken = req[v].overtaken
  BY RequestIs DEF Request, On
<1> HIDE DEF q
<1>12. Typed
  <2>1. \A v \in Workers : req'[v] \in Request \cup {Idle}
    BY <1>8, <1>9, <1>11 DEF TypeInv, TypeOK
  <2> QED
    BY <1>1, <2>1 DEF Typed
<1>13. OthersStill(w)
  <2>1. ASSUME NEW v \in On(p) PROVE Still(v)
    BY <1>8, <1>11, Idles DEF Still, On, Busy
  <2>2. ASSUME NEW v \in Workers \ {w}, v \notin On(p) PROVE Still(v)
    BY <1>8, <2>2 DEF Still
  <2> QED
    BY <2>1, <2>2 DEF OthersStill
<1>14. \A v \in On(p) : ~req'[v].solo
  BY <1>8, <1>11
<1>15. \A v \in Workers \ {w} : Busy(v) => req'[v].n = req[v].n /\ req'[v].overtaken = req[v].overtaken
  BY <1>8, <1>11 DEF On
<1>16. /\ req'[w] # Idle /\ req'[w].pc = first /\ req'[w].kind = kind
       /\ req'[w].ident = i /\ req'[w].bucket = b /\ req'[w].code = code
       /\ req'[w].got = got /\ req'[w].n = n
  BY <1>8, <1>9, Idles
<1>17. (req'[w].cached <=> cached) /\ (req'[w].solo <=> solo)
  BY <1>8, <1>10
<1>18. /\ req'[w].cached => first = "compare" /\ cache[i] # NoCode
       /\ first = "compare" /\ cache[i] # NoCode => req'[w].cached
  BY <1>17, <1>c
<1>19. (req'[w].solo => On(p) = {}) /\ (On(p) = {} => req'[w].solo)
  BY <1>17, <1>s
<1>20. /\ req'[w].got = IF first = "compare" THEN cache[i] ELSE NoCode
       /\ req'[w].n = IF first = "rate" THEN rate[b] ELSE 0
  BY <1>16, <1>g
<1> QED
  BY <1>1, <1>8, <1>12, <1>13, <1>14, <1>15, <1>16, <1>18, <1>19, <1>20 DEF Begins

\* A window ends: who has read its count has read one of the past.
LEMMA NewWindowIs ==
  ASSUME TypeInv, NEW b \in Buckets, NewWindow(b)
  PROVE  /\ Typed
         /\ \A v \in Workers :
              /\ Still(v)
              /\ At(v, "rate") /\ req[v].bucket = b => req'[v].n = Past
              /\ ~(At(v, "rate") /\ req[v].bucket = b) => req'[v] = req[v]
              /\ Busy(v) => req'[v].solo = req[v].solo /\ req'[v].overtaken = req[v].overtaken
<1>1. /\ req' = [v \in Workers |-> IF At(v, "rate") /\ req[v].bucket = b
                                   THEN [req[v] EXCEPT !.n = Past] ELSE req[v]]
  BY DEF NewWindow
<1>2. ASSUME NEW v \in Workers, At(v, "rate"), req[v].bucket = b
      PROVE  /\ req'[v] \in Request /\ Still(v) /\ req'[v].n = Past
             /\ req'[v].solo = req[v].solo /\ req'[v].overtaken = req[v].overtaken
  <2> DEFINE r == [req[v] EXCEPT !.n = Past]
  <2>1. req'[v] = r /\ Busy(v)
    BY <1>1, <1>2 DEF At
  <2>2. /\ r \in Request /\ r.pc = req[v].pc /\ r.kind = req[v].kind /\ r.ident = req[v].ident
        /\ r.bucket = req[v].bucket /\ r.code = req[v].code /\ r.got = req[v].got
        /\ r.cached = req[v].cached /\ r.solo = req[v].solo /\ r.n = Past
        /\ r.overtaken = req[v].overtaken
    BY <2>1, RequestIs DEF Request
  <2> HIDE DEF r
  <2> QED
    BY <1>2, <2>1, <2>2, Idles DEF Still, Busy, At
<1>3. ASSUME NEW v \in Workers, ~(At(v, "rate") /\ req[v].bucket = b)
      PROVE  req'[v] = req[v] /\ Still(v)
  BY <1>1, <1>3 DEF Still
<1>4. Typed
  <2>1. \A v \in Workers : req'[v] \in Request \cup {Idle}
    BY <1>2, <1>3 DEF TypeInv, TypeOK
  <2> QED
    BY <1>1, <2>1 DEF Typed
<1> QED
  BY <1>2, <1>3, <1>4

----------------------------------------------------------------------------
(* The next Matri ID.                                                        *)

Below == {ss \in Nat \X Nat : ss[1] < ss[2]}

LEMMA Least ==
  ASSUME NEW S \in SUBSET Nat, S # {}
  PROVE  \E x \in S : \A y \in S : x <= y
<1>1. IsWellFoundedOn(Below, Nat)
  BY NatLessThanWellFounded DEF OpToRel, Below
<1>2. PICK x \in S : \A y \in S : ~(<<y, x>> \in Below)
  BY <1>1, WFMin
<1>3. \A y \in S : ~(y < x)
  BY <1>2 DEF Below
<1> QED
  BY <1>3

Topped(S) == \E x \in S : \A y \in S : x >= y

\* A smallest set without a largest number would have one without any of its members.
LEMMA Largest ==
  ASSUME NEW S \in SUBSET Nat, IsFiniteSet(S), S # {}
  PROVE  /\ Max(S) \in S /\ Max(S) \in Nat
         /\ \A y \in S : y <= Max(S)
<1> DEFINE Bad == {T \in SUBSET S : T # {} /\ ~Topped(T)}
           Sizes == {Cardinality(T) : T \in Bad}
<1>1. \A T \in SUBSET S : IsFiniteSet(T) /\ Cardinality(T) \in Nat
  BY FS_Subset, FS_CardinalityType
<1>2. ASSUME Bad # {} PROVE FALSE
  <2>1. Sizes \in SUBSET Nat /\ Sizes # {}
    BY <1>1, <1>2
  <2> HIDE DEF Sizes
  <2>2. PICK n \in Sizes : \A m \in Sizes : n <= m
    BY <2>1, Least
  <2> USE DEF Sizes
  <2>3. PICK T \in Bad : n = Cardinality(T)
    BY <2>2
  <2>4. PICK x \in T : TRUE
    BY <2>3
  <2>5. IsFiniteSet(T) /\ T \subseteq S /\ x \in Nat /\ ~Topped(T)
    BY <2>3, <2>4, <1>1
  <2>6. Cardinality(T \ {x}) = n - 1
    BY <2>3, <2>4, <2>5, FS_RemoveElement
  <2>7. T \ {x} \notin Bad
    <3> SUFFICES ASSUME T \ {x} \in Bad PROVE FALSE
      OBVIOUS
    <3>1. n - 1 \in Sizes
      BY <2>6
    <3> QED
      BY <3>1, <2>1, <2>2
  <2>8. T \ {x} = {} \/ Topped(T \ {x})
    BY <2>5, <2>7
  <2>9. CASE T \ {x} = {}
    <3>1. \A y \in T : y = x
      BY <2>9
    <3> QED
      BY <3>1, <2>4, <2>5 DEF Topped
  <2>10. CASE Topped(T \ {x})
    <3>1. PICK z \in T \ {x} : \A y \in T \ {x} : z >= y
      BY <2>10 DEF Topped
    <3>2. z \in Nat /\ \A y \in T : y \in Nat
      BY <2>5
    <3>3. CASE z >= x
      BY <3>1, <3>2, <3>3, <2>5 DEF Topped
    <3>4. CASE ~(z >= x)
      <4>1. \A y \in T : x >= y
        BY <3>1, <3>2, <3>4, <2>5
      <4> QED
        BY <4>1, <2>4, <2>5 DEF Topped
    <3> QED
      BY <3>3, <3>4
  <2> QED
    BY <2>8, <2>9, <2>10
<1>3. Topped(S)
  BY <1>2
<1>4. \E x \in S : \A y \in S : x >= y
  BY <1>3 DEF Topped
<1>5. Max(S) \in S /\ \A y \in S : Max(S) >= y
  BY <1>4 DEF Max
<1> QED
  BY <1>5

LEMMA IdsAre ==
  ASSUME TypeInv
  PROVE  Ids \subseteq Nat /\ IsFiniteSet(Ids)
<1> DEFINE Known == {q \in Phones : user[q] # NoUser}
           Given == {user[p].id : p \in Known}
<1>1. IsFiniteSet(Known)
  BY AccountsAssumption, FS_Subset
<1>2. \A p \in Known : user[p].id \in Nat
  BY DEF TypeInv, TypeOK, UserRow
<1> HIDE DEF Known
<1>3. IsFiniteSet(Given)
  <2> DEFINE f == [p \in Known |-> user[p].id]
  <2>1. f \in Surjection(Known, Given)
    BY DEF Surjection
  <2> QED
    BY <1>1, <2>1, FS_Surjection
<1>4. Given \subseteq Nat
  BY <1>2
<1>5. IsFiniteSet(OtherIds \cup Given) /\ OtherIds \cup Given \subseteq Nat
  BY <1>3, <1>4, AccountsAssumption, FS_Union
<1> QED
  BY <1>5 DEF Ids, Known

LEMMA NextIdIs ==
  ASSUME TypeInv
  PROVE  NextId \in Nat /\ (SixNines \notin Ids => NextId \notin Ids)
<1> DEFINE six == {n \in Ids : n <= SixNines}
<1>1. Ids \subseteq Nat /\ IsFiniteSet(Ids)
  BY IdsAre
<1>2. six \subseteq Nat /\ IsFiniteSet(six)
  BY <1>1, FS_Subset
<1>3. SixNines \in Nat
  BY AccountsAssumption
<1>d. NextId = IF Ids = {} THEN 1 ELSE IF six # {} THEN Max(six) + 1 ELSE Max(Ids) + 1
  BY DEF NextId
<1>s. \A n : n \in six <=> n \in Ids /\ n <= SixNines
  OBVIOUS
<1> HIDE DEF six
<1>4. CASE Ids = {}
  BY <1>4, <1>d
<1>5. CASE Ids # {} /\ six = {}
  <2>1. Max(Ids) \in Nat /\ \A y \in Ids : y <= Max(Ids)
    BY <1>1, <1>5, Largest
  <2>2. Max(Ids) + 1 \notin Ids
    BY <2>1
  <2> QED
    BY <1>5, <1>d, <2>1, <2>2
<1>6. CASE Ids # {} /\ six # {}
  <2>1. Max(six) \in six /\ Max(six) \in Nat /\ \A y \in six : y <= Max(six)
    BY <1>2, <1>6, Largest
  <2>2. ASSUME SixNines \notin Ids PROVE Max(six) + 1 \notin Ids
    <3>1. Max(six) <= SixNines /\ Max(six) # SixNines
      BY <2>1, <2>2, <1>s
    <3>2. Max(six) + 1 <= SixNines
      BY <3>1, <2>1, <1>3
    <3>3. Max(six) + 1 \notin six
      BY <2>1
    <3> QED
      BY <3>2, <3>3, <1>s
  <2> QED
    BY <1>6, <1>d, <2>1, <2>2
<1> QED
  BY <1>4, <1>5, <1>6

----------------------------------------------------------------------------
(* Types.                                                                    *)

LEMMA LesserIs ==
  ASSUME NEW a \in Nat, NEW b \in Nat
  PROVE  Min({a, b}) = IF a <= b THEN a ELSE b
<1> DEFINE S == {a, b}
<1>1. \E x \in S : \A y \in S : x <= y
  <2>1. CASE a <= b
    BY <2>1
  <2>2. CASE b <= a
    BY <2>2
  <2> QED
    BY <2>1, <2>2
<1> HIDE DEF S
<1>2. Min(S) \in S /\ \A y \in S : Min(S) <= y
  BY <1>1 DEF Min
<1> QED
  BY <1>2 DEF S

AllFormed == \A v \in Workers : Busy(v) => Formed(v)

LEMMA FormedNext ==
  ASSUME TypeInv, NEW w \in Workers, OthersStill(w), \A i \in Idents : issued[i] <= issued'[i],
         issued' \in [Idents -> Codes], Busy(w)' => Formed(w)'
  PROVE  AllFormed'
<1> SUFFICES ASSUME NEW v \in Workers, req'[v] # Idle, v # w PROVE Formed(v)'
  BY DEF AllFormed, Busy
<1>1. Still(v) /\ Busy(v)
  BY DEF OthersStill, Still, Busy
<1>2. Formed(v) /\ I(v) \in Idents /\ req[v].code \in Nat /\ req[v].got.code \in Nat
  BY <1>1, RequestIs DEF Payload, Codes
<1>3. issued[I(v)] <= issued'[I(v)] /\ issued[I(v)] \in Nat /\ issued'[I(v)] \in Nat
  BY <1>2 DEF TypeInv, TypeOK, Codes
<1> QED
  BY <1>1, <1>2, <1>3 DEF Still, Busy, Formed, I

\* Most steps are at none of the codes a request holds.
Codeless == {"collect", "delete", "pend", "cache", "take", "mark", "pop", "unpend",
             "user", "activate", "id", "insert"}

LEMMA FormedTurn ==
  ASSUME TypeInv, NEW w \in Workers, Busy(w), NEW pc \in Codeless, Turns(w, pc), SameIdent(w),
         pc \in Stage(req[w].kind), req'[w].n # Past, pc = "activate" => req'[w].n # 0
  PROVE  Formed(w)'
<1>1. Formed(w)
  BY RequestIs
<1> QED
  BY <1>1 DEF Formed, Turns, SameIdent, Codeless, I

LEMMA KindsOf ==
  ASSUME TypeInv, NEW w \in Workers, NEW pc, At(w, pc)
  PROVE  /\ Busy(w) /\ req[w].pc = pc /\ pc \in Stage(req[w].kind) /\ req[w].kind \in Kinds
         /\ pc # "rate" => req[w].n \in Nat
         /\ pc \in {"collect", "delete", "pend"} => req[w].kind = "register"
         /\ pc = "rate" => req[w].kind \in Sends
         /\ pc \in {"compare", "miss", "count", "take", "mark", "user", "activate"}
              => req[w].kind \in Verifies
         /\ pc \in {"pop", "unpend"} => req[w].kind = "verify_otp"
         /\ pc \in {"id", "insert"} => req[w].kind \in {"verify_otp", "verify_mobile", "desk"}
<1>1. Busy(w) /\ req[w].pc = pc
  BY DEF At
<1>2. req[w].kind \in Kinds /\ pc \in Stage(req[w].kind)
  BY <1>1, RequestIs DEF Formed
<1>3. pc # "rate" => req[w].n \in Nat
  BY <1>1, RequestIs DEF Formed
<1> QED
  BY <1>1, <1>2, <1>3, KindAt

LEMMA CodesKept ==
  ASSUME CodesSent, UNCHANGED <<cache, record, issued, dead, accepted>>
  PROVE  CodesSent'
BY DEF CodesSent

LEMMA RowsKept ==
  ASSUME RowsCounted, UNCHANGED <<user, rows>>
  PROVE  RowsCounted'
BY DEF RowsCounted

\* A step of w that changes nothing but requests and rates.
Quiet ==
  UNCHANGED <<cache, record, used, pending, user, rows, issued, dead, mix, tries, accepted>>

LEMMA QuietTyped ==
  ASSUME TypeInv, NEW w \in Workers, Typed, OthersStill(w), Busy(w)' => Formed(w)', Quiet,
         rate' \in [Buckets -> 0..RateLimit], sends' \in [Buckets -> Nat],
         raced' \subseteq Buckets, muddled' \subseteq Idents
  PROVE  TypeInv'
<1>1. TypeOK'
  BY DEF TypeInv, TypeOK, Quiet, Typed
<1>2. CodesSent' /\ RowsCounted'
  BY CodesKept, RowsKept DEF TypeInv, Quiet
<1>3. AllFormed'
  <2>1. \A i \in Idents : issued[i] <= issued'[i]
    BY DEF TypeInv, TypeOK, Codes, Quiet
  <2> QED
    BY <2>1, <1>1, FormedNext DEF TypeOK
<1> QED
  BY <1>1, <1>2, <1>3 DEF TypeInv, AllFormed

LEMMA BothAre == \A p \in Phones : Both(p) \subseteq Idents
BY DEF Both, Idents

LEMMA BeginTyped ==
  ASSUME TypeInv, NEW w \in Workers, NEW kind \in Kinds, NEW p \in Phones, NEW code \in Codes,
         NEW sent \in Channels, Begin(w, kind, p, sent, code)
  PROVE  TypeInv'
<1>1. Begins(w, kind, p, code)
  BY BeginIs
<1>2. Typed /\ OthersStill(w)
  BY <1>1 DEF Begins
<1>3. Quiet /\ UNCHANGED <<rate, sends>>
  BY DEF Begin, Quiet, store, people, answers
<1>4. muddled' \subseteq Idents
  BY BothAre DEF Begin, TypeInv, TypeOK
<1>5. raced' \subseteq Buckets
  <2>1. <<p, IF kind = "resend" THEN "resend" ELSE Channel(kind, p)>> \in Buckets
    BY FirstStep DEF Buckets
  <2>2. raced' \subseteq raced \cup {<<p, IF kind = "resend" THEN "resend" ELSE Channel(kind, p)>>}
    BY DEF Begin, Open
  <2> QED
    BY <2>1, <2>2 DEF TypeInv, TypeOK
<1>6. Formed(w)'
  <2> DEFINE i == <<p, Channel(kind, p)>>
  <2>1. i \in Idents /\ i[2] = Channel(kind, p)
    BY FirstStep DEF Idents
  <2>2. cache[i].code <= issued[i] /\ (cache[i] = NoCode \/ cache[i].code # 0)
    BY <2>1 DEF TypeInv, CodesSent
  <2>3. NoCode.code = 0 /\ issued[i] \in Nat
    BY <2>1 DEF NoCode, TypeInv, TypeOK, Codes
  <2>4. req'[w].n # Past \/ FirstPc(kind) = "rate"
    BY <1>1, PastIs DEF Begins
  <2>5. req'[w].pc \in Stage(kind) /\ req'[w].pc \in {"rate", "id", "compare"} /\ i[2] \in Lines(kind)
    BY <1>1, <2>1, FirstStep DEF Begins
  <2>6. req'[w].kind = kind /\ req'[w].ident = i /\ req'[w].pc = FirstPc(kind)
    BY <1>1 DEF Begins
  <2>7. req'[w].got = (IF FirstPc(kind) = "compare" THEN cache[i] ELSE NoCode)
        /\ (req'[w].cached => cache[i] # NoCode)
    BY <1>1 DEF Begins
  <2>8. issued' = issued
    BY <1>3 DEF Quiet
  <2> HIDE DEF i
  <2> QED
    BY <2>2, <2>3, <2>4, <2>5, <2>6, <2>7, <2>8 DEF Formed, I
<1>7. rate' \in [Buckets -> 0..RateLimit] /\ sends' \in [Buckets -> Nat]
  BY <1>3 DEF TypeInv, TypeOK
<1> QED
  BY <1>2, <1>3, <1>4, <1>5, <1>6, <1>7, QuietTyped

LEMMA CountRequestTyped ==
  ASSUME TypeInv, NEW w \in Workers, CountRequest(w)
  PROVE  TypeInv'
<1>1. /\ At(w, "rate") /\ Busy(w)
      /\ IF req[w].n >= RateLimit THEN Ends(w)
         ELSE /\ Turns(w, IF req[w].kind = "register" THEN "collect" ELSE "cache")
              /\ SameIdent(w) /\ SameCode(w) /\ SameGot(w) /\ req'[w].n = 0
  BY CountRequestIs
<1>2. Quiet /\ UNCHANGED <<raced, muddled>>
  BY DEF CountRequest, Quiet, store, people, answers
<1>3. req[w].bucket \in Buckets /\ req[w].n \in Nat \cup {Past} /\ RateLimit \in Nat \ {0}
  BY <1>1, RequestIs, AccountsAssumption
<1>4. rate' \in [Buckets -> 0..RateLimit] /\ sends' \in [Buckets -> Nat]
  <2> DEFINE b == req[w].bucket
             counts == req[w].n # Past
  <2>1. CASE req[w].n >= RateLimit
    BY <2>1 DEF CountRequest, TypeInv, TypeOK
  <2>2. CASE ~(req[w].n >= RateLimit)
    <3>1. /\ rate' = [rate EXCEPT ![b] = IF counts THEN req[w].n + 1 ELSE 0]
          /\ sends' = [sends EXCEPT ![b] = IF counts THEN Min({sends[b] + 1, RateLimit + 1}) ELSE sends[b]]
      BY <2>2 DEF CountRequest
    <3>2. (IF counts THEN req[w].n + 1 ELSE 0) \in 0..RateLimit
      BY <2>2, <1>3 DEF Past
    <3>3. sends[b] \in Nat
      BY <1>3 DEF TypeInv, TypeOK
    <3>4. Min({sends[b] + 1, RateLimit + 1}) \in Nat
      BY <3>3, <1>3, LesserIs
    <3>5. (IF counts THEN Min({sends[b] + 1, RateLimit + 1}) ELSE sends[b]) \in Nat
      BY <3>3, <3>4
    <3> HIDE DEF counts
    <3> QED
      BY <3>1, <3>2, <3>5, <1>3 DEF TypeInv, TypeOK
  <2> QED
    BY <2>1, <2>2
<1>5. Typed /\ OthersStill(w)
  BY <1>1 DEF Ends, Turns
<1>6. Busy(w)' => Formed(w)'
  <2>1. CASE Ends(w)
    BY <2>1 DEF Ends, Busy
  <2>2. CASE Turns(w, "collect") /\ SameIdent(w) /\ req'[w].n = 0 /\ req[w].kind = "register"
    BY <2>2, <1>1, FormedTurn, StagesAre, PastIs DEF Codeless
  <2>3. CASE Turns(w, "cache") /\ SameIdent(w) /\ req'[w].n = 0
    <3>1. "cache" \in Stage(req[w].kind)
      BY <1>1, KindsOf, StagesAre DEF Sends
    <3> QED
      BY <2>3, <3>1, <1>1, FormedTurn, PastIs DEF Codeless
  <2> QED
    BY <1>1, <2>1, <2>2, <2>3
<1>7. raced' \subseteq Buckets /\ muddled' \subseteq Idents
  BY <1>2 DEF TypeInv, TypeOK
<1> QED
  BY <1>2, <1>4, <1>5, <1>6, <1>7, QuietTyped

LEMMA NextTryFormed ==
  ASSUME TypeInv, NEW w \in Workers, Busy(w), NextTry(w), UNCHANGED issued
  PROVE  Typed /\ OthersStill(w) /\ (Busy(w)' => Formed(w)')
<1>1. CASE Ends(w)
  BY <1>1 DEF Ends, Busy
<1>2. CASE Retries(w)
  <2> DEFINE i == <<P(w), "mobile">>
  <2>1. i \in Idents /\ i[2] = "mobile" /\ Formed(w)
    BY RequestIs DEF Idents
  <2>2. cache[i].code <= issued[i] /\ (cache[i] = NoCode \/ cache[i].code # 0)
    BY <2>1 DEF TypeInv, CodesSent
  <2>3. /\ req'[w].pc = "compare" /\ req'[w].kind = "verify_mobile" /\ req'[w].ident = i
        /\ req'[w].got = cache[i] /\ req'[w].n = req[w].n
        /\ req[w].kind = "verify_mobile"
    BY <1>2 DEF Retries, Turns
  <2>c. req'[w].cached = (cache[i] # NoCode)
    BY <1>2 DEF Retries
  <2>4. "compare" \in Stage("verify_mobile") /\ "rate" \notin Stage("verify_mobile")
    BY StagesAre
  <2>5. req[w].n # Past
    BY <2>1, <2>3, <2>4 DEF Formed
  <2>6. "mobile" \in Lines("verify_mobile")
    BY DEF Lines
  <2>7. Typed /\ OthersStill(w)
    BY <1>2 DEF Retries, Turns
  <2> HIDE DEF i
  <2>8. Formed(w)'
    BY <2>1, <2>2, <2>3, <2>c, <2>4, <2>5, <2>6 DEF Formed, I
  <2> QED
    BY <2>7, <2>8
<1> QED
  BY <1>1, <1>2, NextTryIs

\* The tables: everything but the requests.
TablesOK ==
  /\ cache \in [Idents -> Payload] /\ record \in [Idents -> Payload] /\ used \subseteq Idents
  /\ rate \in [Buckets -> 0..RateLimit] /\ sends \in [Buckets -> Nat] /\ raced \subseteq Buckets
  /\ pending \subseteq Phones
  /\ user \in [Phones -> UserRow] /\ rows \in [Phones -> Nat]
  /\ issued \in [Idents -> Codes] /\ dead \in [Idents -> Codes]
  /\ mix \in Mixes
  /\ tries \in [Idents -> Nat] /\ accepted \in [Idents -> [code : Codes, times : 0..2]]
  /\ muddled \subseteq Idents

LEMMA StepTyped ==
  ASSUME TypeInv, NEW w \in Workers, Typed, OthersStill(w), Busy(w)' => Formed(w)',
         TablesOK', CodesSent', RowsCounted', \A i \in Idents : issued[i] <= issued'[i]
  PROVE  TypeInv'
<1>1. TypeOK'
  BY DEF TypeOK, TablesOK, Typed
<1>2. AllFormed'
  BY FormedNext DEF TablesOK
<1> QED
  BY <1>1, <1>2 DEF TypeInv, AllFormed

LEMMA IssuedStays == TypeInv /\ UNCHANGED issued => \A i \in Idents : issued[i] <= issued'[i]
BY DEF TypeInv, TypeOK, Codes

LEMMA TablesAre == TypeInv => TablesOK /\ CodesSent /\ RowsCounted
BY DEF TypeInv, TypeOK, TablesOK

LEMMA QuietTurn ==
  ASSUME TypeInv, NEW w \in Workers, Busy(w), NEW pc \in Codeless, Turns(w, pc), SameIdent(w),
         pc \in Stage(req[w].kind), req'[w].n # Past, pc = "activate" => req'[w].n # 0,
         Quiet, UNCHANGED <<window, muddled>>
  PROVE  TypeInv'
<1>1. Formed(w)'
  BY FormedTurn
<1>2. Typed /\ OthersStill(w)
  BY DEF Turns
<1>3. /\ rate' \in [Buckets -> 0..RateLimit] /\ sends' \in [Buckets -> Nat]
      /\ raced' \subseteq Buckets /\ muddled' \subseteq Idents
  BY DEF window, TypeInv, TypeOK
<1> QED
  BY <1>1, <1>2, <1>3, QuietTyped

LEMMA QuietEnd ==
  ASSUME TypeInv, NEW w \in Workers, Ends(w), Quiet, UNCHANGED window, muddled' \subseteq Idents
  PROVE  TypeInv'
<1>1. Typed /\ OthersStill(w) /\ ~Busy(w)'
  BY DEF Ends, Busy
<1>2. rate' \in [Buckets -> 0..RateLimit] /\ sends' \in [Buckets -> Nat] /\ raced' \subseteq Buckets
  BY DEF window, TypeInv, TypeOK
<1> QED
  BY <1>1, <1>2, QuietTyped

LEMMA CollectTyped ==
  ASSUME TypeInv, NEW w \in Workers, Collect(w)
  PROVE  TypeInv'
<1>1. Quiet /\ UNCHANGED <<window, muddled>>
  BY DEF Collect, Quiet, store, people, answers
<1>2. CASE Ends(w)
  BY <1>1, <1>2, QuietEnd DEF TypeInv, TypeOK
<1>3. CASE Turns(w, "delete") /\ SameIdent(w) /\ req'[w].n \in Nat
  <2>1. "delete" \in Stage(req[w].kind) /\ Busy(w)
    BY CollectIs, KindsOf, StagesAre
  <2> QED
    BY <1>1, <1>3, <2>1, QuietTurn, PastIs DEF Codeless
<1> QED
  BY <1>2, <1>3, CollectIs

LEMMA GetPendingTyped ==
  ASSUME TypeInv, NEW w \in Workers, GetPending(w)
  PROVE  TypeInv'
<1> DEFINE pc == IF P(w) \in pending THEN "unpend" ELSE "user"
<1>1. Quiet /\ UNCHANGED <<window, muddled>>
  BY DEF GetPending, Quiet, store, people, answers
<1>2. At(w, "pop") /\ Go(w, pc)
  BY TurnsAre
<1>3. /\ pc \in Codeless /\ pc \in Pcs /\ pc \in Stage(req[w].kind) /\ pc # "activate"
      /\ req[w].n \in Nat
  BY <1>2, KindsOf, StagesAre DEF Codeless, Pcs
<1> HIDE DEF pc
<1>4. Busy(w) /\ Turns(w, pc) /\ SameIdent(w) /\ req'[w].n # Past
  BY <1>2, <1>3, GoTurns, PastIs DEF SameNote
<1> QED
  BY <1>1, <1>3, <1>4, QuietTurn

LEMMA FindUserTyped ==
  ASSUME TypeInv, NEW w \in Workers, FindUser(w)
  PROVE  TypeInv'
<1>1. Quiet /\ UNCHANGED <<window, muddled>>
  BY DEF FindUser, Quiet, store, people, answers
<1>0. At(w, "user") /\ Busy(w) /\ req[w].n \in Nat /\ "activate" \in Stage(req[w].kind)
      /\ (req[w].kind = "verify_mobile" => "id" \in Stage(req[w].kind))
  <2>1. At(w, "user") /\ Busy(w)
    BY FindUserIs
  <2> QED
    BY <2>1, KindsOf, StagesAre DEF Verifies
<1>2. CASE Ends(w)
  BY <1>1, <1>2, QuietEnd DEF TypeInv, TypeOK
<1>3. CASE Turns(w, "id") /\ SameIdent(w) /\ SameNote(w) /\ req[w].kind = "verify_mobile"
  BY <1>0, <1>1, <1>3, QuietTurn, PastIs DEF Codeless, SameNote
<1>4. CASE Turns(w, "activate") /\ SameIdent(w) /\ req'[w].n \in Nat \ {0}
  BY <1>0, <1>1, <1>4, QuietTurn, PastIs DEF Codeless
<1> QED
  BY <1>2, <1>3, <1>4, FindUserIs

LEMMA ChooseIdTyped ==
  ASSUME TypeInv, NEW w \in Workers, ChooseId(w)
  PROVE  TypeInv'
<1>1. Quiet /\ UNCHANGED <<window, muddled>>
  BY DEF ChooseId, Quiet, store, people, answers
<1>2. NextId \in Nat
  BY NextIdIs
<1>3. At(w, "id") /\ Busy(w) /\ Turns(w, "insert") /\ SameIdent(w) /\ req'[w].n = NextId
  BY <1>2, ChooseIdIs
<1>4. "insert" \in Stage(req[w].kind)
  BY <1>3, KindsOf, StagesAre
<1> QED
  BY <1>1, <1>2, <1>3, <1>4, QuietTurn, PastIs DEF Codeless

LEMMA BreakOffTyped ==
  ASSUME TypeInv, NEW w \in Workers, BreakOff(w)
  PROVE  TypeInv'
<1>1. Quiet /\ UNCHANGED window /\ Busy(w)
  BY DEF BreakOff, Quiet, store, people, answers
<1>2. Ends(w)
  BY TurnsAre, DoneIs DEF Ends
<1>3. muddled' \subseteq Idents
  BY <1>1, RequestIs, BothAre DEF BreakOff, TypeInv, TypeOK
<1> QED
  BY <1>1, <1>2, <1>3, QuietEnd

LEMMA DeleteCollectedTyped ==
  ASSUME TypeInv, NEW w \in Workers, DeleteCollected(w)
  PROVE  TypeInv'
<1>1. At(w, "delete") /\ Busy(w) /\ Turns(w, "pend") /\ SameIdent(w) /\ req'[w].n = 0
  BY DeleteCollectedIs
<1>2. Formed(w)'
  BY <1>1, KindsOf, StagesAre, FormedTurn, PastIs DEF Codeless
<1>u. NoUser \in UserRow /\ NoUser.pk = 0
  BY DEF NoUser, UserRow
<1>3. TablesOK'
  BY <1>u, TablesAre DEF DeleteCollected, TablesOK, store, window, answers
<1>4. CodesSent'
  BY CodesKept DEF DeleteCollected, TypeInv, store, answers
<1>5. RowsCounted'
  <2>1. user \in [Phones -> UserRow] /\ rows \in [Phones -> Nat] /\ rows' = rows
    BY DEF TypeInv, TypeOK, DeleteCollected
  <2>2. \A p \in Phones : user'[p] = user[p] \/ user'[p] = NoUser
    BY <2>1 DEF DeleteCollected
  <2>3. \A p \in Phones : 0 <= rows[p]
    BY <2>1
  <2> QED
    BY <1>u, <2>1, <2>2, <2>3 DEF RowsCounted, TypeInv
<1>6. Typed /\ OthersStill(w)
  BY <1>1 DEF Turns
<1>7. issued' = issued
  BY DEF DeleteCollected
<1> QED
  BY <1>2, <1>3, <1>4, <1>5, <1>6, <1>7, IssuedStays, StepTyped

LEMMA SetPendingTyped ==
  ASSUME TypeInv, NEW w \in Workers, SetPending(w)
  PROVE  TypeInv'
<1>1. At(w, "pend") /\ Go(w, "cache")
  BY TurnsAre
<1>2. "cache" \in Pcs /\ "cache" \in Stage(req[w].kind) /\ Busy(w) /\ req[w].n # Past /\ P(w) \in Phones
  BY <1>1, KindsOf, StagesAre, PastIs, RequestIs DEF Pcs
<1>3. Turns(w, "cache") /\ SameIdent(w) /\ SameNote(w)
  BY <1>1, <1>2, GoTurns
<1>4. Formed(w)'
  BY <1>2, <1>3, FormedTurn DEF Codeless, SameNote
<1>5. TablesOK'
  BY <1>2, TablesAre DEF SetPending, TablesOK, store, window, answers
<1>6. CodesSent' /\ RowsCounted' /\ issued' = issued
  BY CodesKept, RowsKept DEF SetPending, TypeInv, store, answers
<1> QED
  BY <1>3, <1>4, <1>5, <1>6, IssuedStays, StepTyped DEF Turns

LEMMA CacheCodeTyped ==
  ASSUME TypeInv, NEW w \in Workers, CacheCode(w)
  PROVE  TypeInv'
<1> DEFINE i == I(w)
           c == issued[i] + 1
<1>1. /\ At(w, "cache") /\ Busy(w) /\ Turns(w, "wipe") /\ SameIdent(w) /\ SameGot(w) /\ SameNote(w)
      /\ req'[w].code = c /\ c \in Codes
  BY CacheCodeIs
<1>2. i \in Idents /\ issued[i] \in Nat /\ c # 0
  BY <1>1, RequestIs DEF TypeInv, TypeOK, Codes
<1>3. /\ issued' = [issued EXCEPT ![i] = c] /\ cache' = [cache EXCEPT ![i] = [code |-> c, attempts |-> 0]]
      /\ tries' = [tries EXCEPT ![i] = 0]
      /\ UNCHANGED <<record, used, people, window, dead, mix, muddled, accepted>>
  BY DEF CacheCode
<1>c. c = issued[i] + 1
  OBVIOUS
<1> HIDE DEF c, i
<1>4. issued \in [Idents -> Codes] /\ issued' \in [Idents -> Codes] /\ issued'[i] = c
  BY <1>1, <1>2, <1>3 DEF TypeInv, TypeOK
<1>5. \A j \in Idents : issued[j] <= issued'[j]
  BY <1>c, <1>2, <1>3, <1>4 DEF Codes
<1>6. Formed(w)'
  <2>0. "cache" \in Stage(req[w].kind) /\ req[w].kind \in Kinds /\ req[w].n \in Nat /\ Formed(w)
    BY <1>1, KindsOf, RequestIs
  <2>1. "wipe" \in Stage(req[w].kind) /\ req[w].n # Past
    BY <2>0, StagesAre, PastIs DEF Kinds
  <2>2. c <= issued'[i]
    BY <1>1, <1>4 DEF Codes
  <2> QED
    BY <1>1, <1>2, <2>0, <2>1, <2>2 DEF Formed, Turns, SameIdent, SameNote, I, i
<1>7. TablesOK'
  <2>1. [code |-> c, attempts |-> 0] \in Payload
    BY <1>1 DEF Payload
  <2> QED
    BY <1>2, <1>3, <1>4, <2>1, TablesAre DEF TablesOK, people, window
<1>8. CodesSent'
  <2>1. ASSUME NEW j \in Idents
        PROVE  /\ cache'[j].code <= issued'[j] /\ record'[j].code <= issued'[j]
               /\ dead'[j] <= issued'[j] /\ accepted'[j].code <= issued'[j]
               /\ cache'[j] = NoCode \/ cache'[j].code # 0
               /\ record'[j] = NoCode \/ record'[j].code # 0
    <3>1. /\ cache[j].code <= issued[j] /\ record[j].code <= issued[j]
          /\ dead[j] <= issued[j] /\ accepted[j].code <= issued[j]
          /\ cache[j] = NoCode \/ cache[j].code # 0
          /\ record[j] = NoCode \/ record[j].code # 0
      BY DEF TypeInv, CodesSent
    <3>2. /\ cache[j].code \in Nat /\ record[j].code \in Nat /\ dead[j] \in Nat
          /\ accepted[j].code \in Nat /\ issued[j] \in Nat /\ issued'[j] \in Nat
      BY <1>4 DEF TypeInv, TypeOK, Codes, Payload
    <3>3. cache \in [Idents -> Payload]
      BY DEF TypeInv, TypeOK
    <3>4. CASE j = i
      <4>1. cache'[j] = [code |-> c, attempts |-> 0]
        BY <1>3, <3>3, <3>4
      <4>2. cache'[j].code = c /\ c \in Nat
        BY <4>1, <1>4, <1>1 DEF Codes
      <4> QED
        BY <1>2, <1>3, <1>4, <1>5, <3>1, <3>2, <3>4, <4>2
    <3>5. CASE j # i
      BY <1>3, <1>5, <3>1, <3>2, <3>3, <3>5
    <3> QED
      BY <3>4, <3>5
  <2> QED
    BY <2>1 DEF CodesSent
<1>9. RowsCounted'
  BY <1>3, RowsKept DEF people, TypeInv
<1> QED
  BY <1>1, <1>5, <1>6, <1>7, <1>8, <1>9, StepTyped DEF Turns

LEMMA WipeRecordTyped ==
  ASSUME TypeInv, NEW w \in Workers, WipeRecord(w)
  PROVE  TypeInv'
<1>1. At(w, "wipe") /\ Go(w, "record")
  BY TurnsAre
<1>2. /\ "record" \in Pcs /\ "record" \in Stage(req[w].kind) /\ Busy(w) /\ req[w].n # Past
      /\ I(w) \in Idents /\ Formed(w) /\ req[w].pc = "wipe"
  <2>1. Busy(w) /\ "wipe" \in Stage(req[w].kind) /\ req[w].pc = "wipe" /\ req[w].n \in Nat
        /\ req[w].kind \in Kinds
    BY <1>1, KindsOf
  <2> QED
    BY <2>1, StagesAre, PastIs, RequestIs DEF Pcs, Kinds
<1>3. Turns(w, "record") /\ SameIdent(w) /\ SameCode(w) /\ SameNote(w)
  BY <1>1, <1>2, GoTurns
<1>4. /\ record' = [record EXCEPT ![I(w)] = NoCode] /\ used' = used \ {I(w)}
      /\ UNCHANGED <<cache, people, window, issued, dead, mix, muddled, answers>>
  BY DEF WipeRecord
<1>5. Formed(w)'
  BY <1>2, <1>3, <1>4 DEF Formed, Turns, SameIdent, SameCode, SameNote, I
<1>n. NoCode \in Payload /\ NoCode.code = 0
  BY AccountsAssumption DEF NoCode, Payload, Codes
<1>6. TablesOK'
  BY <1>n, <1>2, <1>4, TablesAre DEF TablesOK, people, window, answers
<1>7. CodesSent'
  <2>1. record \in [Idents -> Payload] /\ \A j \in Idents : issued[j] \in Nat
    BY DEF TypeInv, TypeOK, Codes
  <2>2. \A j \in Idents : record'[j] = record[j] \/ record'[j] = NoCode
    BY <1>4, <2>1
  <2>3. cache' = cache /\ issued' = issued /\ dead' = dead /\ accepted' = accepted
    BY <1>4 DEF answers
  <2>4. \A j \in Idents : 0 <= issued[j]
    BY <2>1
  <2> QED
    BY <1>n, <2>1, <2>2, <2>3, <2>4 DEF CodesSent, TypeInv
<1>8. RowsCounted'
  BY <1>4, RowsKept DEF people, TypeInv
<1> QED
  BY <1>3, <1>4, <1>5, <1>6, <1>7, <1>8, IssuedStays, StepTyped DEF Turns

LEMMA InsertRecordTyped ==
  ASSUME TypeInv, NEW w \in Workers, InsertRecord(w)
  PROVE  TypeInv'
<1> DEFINE q == [code |-> req[w].code, attempts |-> 0]
<1>1. At(w, "record") /\ Done(w) /\ Busy(w) /\ req[w].pc = "record"
  BY TurnsAre DEF At
<1>2. I(w) \in Idents /\ Formed(w) /\ req[w].code \in Codes
  BY <1>1, RequestIs
<1>3. Typed /\ OthersStill(w) /\ ~Busy(w)'
  BY <1>1, DoneIs DEF Busy
<1>4. /\ record' = [record EXCEPT ![I(w)] = q] /\ used' = used \ {I(w)}
      /\ UNCHANGED <<cache, people, window, issued, dead, mix, answers>>
      /\ muddled' \subseteq muddled
  BY DEF InsertRecord
<1>5. q \in Payload /\ q.code = req[w].code /\ q.code # 0 /\ q.code <= issued[I(w)]
  BY <1>1, <1>2 DEF Payload, Formed
<1> HIDE DEF q
<1>6. TablesOK'
  BY <1>2, <1>4, <1>5, TablesAre DEF TablesOK, people, window, answers
<1>7. CodesSent'
  <2>1. record \in [Idents -> Payload]
    BY DEF TypeInv, TypeOK
  <2>2. \A j \in Idents : record'[j] = record[j] \/ (j = I(w) /\ record'[j] = q)
    BY <1>4, <2>1
  <2>3. cache' = cache /\ issued' = issued /\ dead' = dead /\ accepted' = accepted
    BY <1>4 DEF answers
  <2> QED
    BY <1>5, <2>1, <2>2, <2>3 DEF CodesSent, TypeInv
<1>8. RowsCounted'
  BY <1>4, RowsKept DEF people, TypeInv
<1> QED
  BY <1>3, <1>4, <1>6, <1>7, <1>8, IssuedStays, StepTyped

LEMMA CodesStep ==
  ASSUME TypeInv, UNCHANGED <<issued, dead>>,
         \A j \in Idents : cache'[j] \in {cache[j], NoCode}
                             \/ (cache'[j].code <= issued[j] /\ cache'[j].code # 0),
         \A j \in Idents : record'[j] \in {record[j], NoCode}
                             \/ (record'[j].code <= issued[j] /\ record'[j].code # 0),
         \A j \in Idents : accepted'[j].code <= issued[j]
  PROVE  CodesSent'
<1>1. NoCode.code = 0 /\ \A j \in Idents : 0 <= issued[j]
  BY DEF NoCode, TypeInv, TypeOK, Codes
<1> QED
  BY <1>1 DEF CodesSent, TypeInv

LEMMA NoCodeIs == NoCode \in Payload /\ NoCode.code = 0 /\ NoCode.attempts = 0
BY AccountsAssumption DEF NoCode, Payload, Codes

LEMMA RejectTyped ==
  ASSUME TypeInv, NEW w \in Workers, Reject(w)
  PROVE  TypeInv'
<1>1. At(w, "compare") /\ Busy(w) /\ NextTry(w)
  BY TurnsAre DEF At
<1>2. /\ cache' \in {cache, [cache EXCEPT ![I(w)] = NoCode]}
      /\ UNCHANGED <<record, used, people, window, issued, dead, mix, muddled, answers>>
  BY DEF Reject
<1>3. Typed /\ OthersStill(w) /\ (Busy(w)' => Formed(w)')
  BY <1>1, <1>2, NextTryFormed
<1>4. cache \in [Idents -> Payload] /\ \A j \in Idents : cache'[j] \in {cache[j], NoCode}
  BY <1>2 DEF TypeInv, TypeOK
<1>5. TablesOK'
  BY <1>2, NoCodeIs, TablesAre DEF TablesOK, people, window, answers
<1>6. CodesSent'
  BY <1>2, <1>4, CodesStep DEF answers, TypeInv, CodesSent
<1>7. RowsCounted'
  BY <1>2, RowsKept DEF people, TypeInv
<1> QED
  BY <1>2, <1>3, <1>5, <1>6, <1>7, IssuedStays, StepTyped

LEMMA CountMissTyped ==
  ASSUME TypeInv, NEW w \in Workers, CountMiss(w)
  PROVE  TypeInv'
<1> DEFINE q == [record[I(w)] EXCEPT !.attempts = req[w].got.attempts + 1]
<1>1. At(w, "count") /\ Busy(w) /\ NextTry(w)
  BY TurnsAre DEF At
<1>2. /\ record' = IF record[I(w)] = NoCode THEN record ELSE [record EXCEPT ![I(w)] = q]
      /\ UNCHANGED <<cache, used, people, window, issued, dead, mix, muddled, answers>>
  BY DEF CountMiss
<1>3. Typed /\ OthersStill(w) /\ (Busy(w)' => Formed(w)')
  BY <1>1, <1>2, NextTryFormed
<1>4. record \in [Idents -> Payload] /\ I(w) \in Idents /\ req[w].got \in Payload
  BY <1>1, RequestIs DEF TypeInv, TypeOK
<1>5. q \in Payload /\ q.code = record[I(w)].code
  BY <1>4 DEF Payload
<1> HIDE DEF q
<1>6. \A j \in Idents : record'[j] = record[j] \/ (j = I(w) /\ record[j] # NoCode /\ record'[j] = q)
  BY <1>2, <1>4
<1>7. TablesOK'
  BY <1>2, <1>4, <1>5, TablesAre DEF TablesOK, people, window, answers
<1>8. CodesSent'
  <2>1. \A j \in Idents : record'[j] \in {record[j], NoCode}
                            \/ (record'[j].code <= issued[j] /\ record'[j].code # 0)
    BY <1>5, <1>6 DEF TypeInv, CodesSent
  <2> QED
    BY <1>2, <2>1, CodesStep DEF answers, TypeInv, CodesSent
<1>9. RowsCounted'
  BY <1>2, RowsKept DEF people, TypeInv
<1> QED
  BY <1>2, <1>3, <1>7, <1>8, <1>9, IssuedStays, StepTyped

LEMMA WrongCodeTyped ==
  ASSUME TypeInv, NEW w \in Workers, WrongCode(w)
  PROVE  TypeInv'
<1> DEFINE pc == IF req[w].cached THEN "miss" ELSE "count"
<1>1. /\ At(w, "compare") /\ Busy(w) /\ Turns(w, pc) /\ SameIdent(w) /\ SameCode(w)
      /\ req'[w].got = Held(w) /\ SameNote(w)
  BY WrongCodeIs
<1>2. /\ tries' = [tries EXCEPT ![I(w)] = Min({tries[I(w)] + 1, AttemptLimit + 1})]
      /\ UNCHANGED <<store, people, window, issued, dead, mix, muddled, accepted>>
  BY DEF WrongCode
<1>3. I(w) \in Idents /\ tries[I(w)] \in Nat /\ AttemptLimit \in Nat
  BY <1>1, RequestIs, AccountsAssumption DEF TypeInv, TypeOK
<1>4. Min({tries[I(w)] + 1, AttemptLimit + 1}) \in Nat
  BY <1>3, LesserIs
<1>5. TablesOK'
  BY <1>2, <1>3, <1>4, TablesAre DEF TablesOK, store, people, window
<1>6. CodesSent' /\ RowsCounted'
  BY <1>2, CodesKept, RowsKept DEF store, people, TypeInv
<1>7. Formed(w)'
  <2>1. /\ req[w].kind \in Kinds /\ "compare" \in Stage(req[w].kind) /\ req[w].n \in Nat /\ Formed(w)
    BY <1>1, KindsOf, RequestIs
  <2>2. pc \in {"miss", "count"} /\ pc \in Stage(req[w].kind) /\ req[w].n # Past
    BY <2>1, StagesAre, PastIs DEF Kinds
  <2>3. Held(w).code <= issued[I(w)] /\ (req[w].cached => Held(w).code # 0)
    BY <1>1, HeldIs
  <2>4. pc = "miss" => Held(w).code # 0
    BY <2>3
  <2>5. issued' = issued
    BY <1>2
  <2> HIDE DEF pc
  <2> QED
    BY <1>1, <2>1, <2>2, <2>3, <2>4, <2>5 DEF Formed, Turns, SameIdent, SameNote, I
<1> QED
  BY <1>1, <1>2, <1>5, <1>6, <1>7, IssuedStays, StepTyped DEF Turns

LEMMA CacheMissTyped ==
  ASSUME TypeInv, NEW w \in Workers, CacheMiss(w)
  PROVE  TypeInv'
<1> DEFINE q == [req[w].got EXCEPT !.attempts = @ + 1]
<1>1. At(w, "miss") /\ Go(w, "count")
  BY TurnsAre
<1>2. /\ req[w].kind \in Kinds /\ "miss" \in Stage(req[w].kind) /\ req[w].n \in Nat /\ Formed(w)
      /\ Busy(w) /\ req[w].pc = "miss" /\ I(w) \in Idents /\ req[w].got \in Payload
  BY <1>1, KindsOf, RequestIs
<1>3. "count" \in Pcs /\ "count" \in Stage(req[w].kind) /\ req[w].n # Past
  BY <1>2, StagesAre, PastIs DEF Kinds, Pcs
<1>4. Turns(w, "count") /\ SameIdent(w) /\ SameGot(w) /\ SameNote(w)
  BY <1>1, <1>3, GoTurns
<1>5. /\ cache' = [cache EXCEPT ![I(w)] = q]
      /\ UNCHANGED <<record, used, people, window, issued, dead, mix, muddled, answers>>
  BY DEF CacheMiss
<1>6. q \in Payload /\ q.code = req[w].got.code /\ q.code # 0 /\ q.code <= issued[I(w)]
  BY <1>2 DEF Payload, Formed
<1> HIDE DEF q
<1>7. Formed(w)'
  BY <1>2, <1>3, <1>4, <1>5 DEF Formed, Turns, SameIdent, SameGot, SameNote, I
<1>8. TablesOK'
  BY <1>2, <1>5, <1>6, TablesAre DEF TablesOK, people, window, answers
<1>9. CodesSent'
  <2>1. cache \in [Idents -> Payload]
    BY DEF TypeInv, TypeOK
  <2>2. \A j \in Idents : cache'[j] \in {cache[j], NoCode}
                            \/ (cache'[j].code <= issued[j] /\ cache'[j].code # 0)
    BY <1>5, <1>6, <2>1
  <2> QED
    BY <1>5, <2>2, CodesStep DEF answers, TypeInv, CodesSent
<1>10. RowsCounted'
  BY <1>5, RowsKept DEF people, TypeInv
<1> QED
  BY <1>4, <1>5, <1>7, <1>8, <1>9, <1>10, IssuedStays, StepTyped DEF Turns

LEMMA RightCodeTyped ==
  ASSUME TypeInv, NEW w \in Workers, RightCode(w)
  PROVE  TypeInv'
<1>1. At(w, "compare") /\ Busy(w) /\ Turns(w, "take") /\ SameIdent(w) /\ SameNote(w)
  BY RightCodeIs
<1>2. /\ accepted' = [accepted EXCEPT ![I(w)] =
             [code |-> req[w].code, times |-> IF accepted[I(w)].code = req[w].code THEN 2 ELSE 1]]
      /\ Held(w).code = req[w].code
      /\ UNCHANGED <<store, people, window, issued, dead, mix, muddled, tries>>
  BY DEF RightCode, Matches
<1>3. I(w) \in Idents /\ req[w].code \in Codes /\ req[w].code <= issued[I(w)]
  BY <1>1, <1>2, RequestIs, HeldIs
<1>4. accepted \in [Idents -> [code : Codes, times : 0..2]]
  BY DEF TypeInv, TypeOK
<1>5. accepted' \in [Idents -> [code : Codes, times : 0..2]]
  <2>1. (IF accepted[I(w)].code = req[w].code THEN 2 ELSE 1) \in 0..2
    OBVIOUS
  <2> QED
    BY <1>2, <1>3, <1>4, <2>1
<1>6. TablesOK'
  BY <1>2, <1>5, TablesAre DEF TablesOK, store, people, window
<1>7. CodesSent'
  <2>1. \A j \in Idents : accepted'[j].code <= issued[j]
    BY <1>2, <1>3, <1>4 DEF TypeInv, CodesSent
  <2> QED
    BY <1>2, <2>1, CodesStep DEF store
<1>8. RowsCounted'
  BY <1>2, RowsKept DEF people, TypeInv
<1>9. Formed(w)'
  <2>1. req[w].kind \in Kinds /\ "compare" \in Stage(req[w].kind) /\ req[w].n \in Nat
    BY <1>1, KindsOf
  <2>2. "take" \in Stage(req[w].kind) /\ req[w].n # Past
    BY <2>1, StagesAre, PastIs DEF Kinds
  <2> QED
    BY <1>1, <2>2, FormedTurn DEF Codeless, SameNote
<1> QED
  BY <1>1, <1>2, <1>6, <1>7, <1>8, <1>9, IssuedStays, StepTyped DEF Turns

\* The steps that turn a request of a verified code.
LEMMA TakeTurns ==
  ASSUME TypeInv, NEW w \in Workers, NEW at \in {"take", "mark", "unpend"}, At(w, at),
         NEW pc, Go(w, pc),
         at = "take" => pc = "mark", at = "unpend" => pc = "id",
         at = "mark" => pc = IF req[w].kind = "verify_otp" THEN "pop" ELSE "user"
  PROVE  Typed /\ OthersStill(w) /\ Formed(w)' /\ I(w) \in Idents /\ P(w) \in Phones
         /\ Turns(w, pc) /\ SameIdent(w) /\ SameNote(w) /\ Busy(w) /\ pc \in Codeless
<1>1. req[w].kind \in Kinds /\ at \in Stage(req[w].kind) /\ req[w].n \in Nat /\ Busy(w)
  BY KindsOf
<1>2. pc \in Stage(req[w].kind) /\ pc \in Codeless /\ pc \in Pcs /\ req[w].n # Past
  BY <1>1, StagesAre, PastIs DEF Kinds, Codeless, Pcs
<1>3. Turns(w, pc) /\ SameIdent(w) /\ SameNote(w)
  BY <1>2, GoTurns
<1> QED
  BY <1>1, <1>2, <1>3, FormedTurn, RequestIs DEF Turns, SameNote

LEMMA TakeCodeTyped ==
  ASSUME TypeInv, NEW w \in Workers, TakeCode(w)
  PROVE  TypeInv'
<1>1. At(w, "take") /\ Go(w, "mark")
  BY TurnsAre
<1>2. Typed /\ OthersStill(w) /\ Formed(w)' /\ I(w) \in Idents
  BY <1>1, TakeTurns
<1>3. /\ cache' = [cache EXCEPT ![I(w)] = NoCode]
      /\ UNCHANGED <<record, used, people, window, issued, dead, mix, muddled, answers>>
  BY DEF TakeCode
<1>4. cache \in [Idents -> Payload] /\ \A j \in Idents : cache'[j] \in {cache[j], NoCode}
  BY <1>3 DEF TypeInv, TypeOK
<1>5. TablesOK'
  BY <1>3, NoCodeIs, TablesAre DEF TablesOK, people, window, answers
<1>6. CodesSent'
  BY <1>3, <1>4, CodesStep DEF answers, TypeInv, CodesSent
<1>7. RowsCounted'
  BY <1>3, RowsKept DEF people, TypeInv
<1> QED
  BY <1>2, <1>3, <1>5, <1>6, <1>7, IssuedStays, StepTyped

LEMMA MarkUsedTyped ==
  ASSUME TypeInv, NEW w \in Workers, MarkUsed(w)
  PROVE  TypeInv'
<1>1. At(w, "mark") /\ Go(w, IF req[w].kind = "verify_otp" THEN "pop" ELSE "user")
  BY TurnsAre
<1>2. Typed /\ OthersStill(w) /\ Formed(w)' /\ I(w) \in Idents
  BY <1>1, TakeTurns
<1>3. /\ used' \subseteq used \cup {I(w)}
      /\ UNCHANGED <<cache, record, people, window, issued, dead, mix, muddled, answers>>
  BY DEF MarkUsed
<1>4. TablesOK'
  BY <1>2, <1>3, TablesAre DEF TablesOK, people, window, answers
<1>5. CodesSent' /\ RowsCounted'
  BY <1>3, CodesKept, RowsKept DEF answers, people, TypeInv
<1> QED
  BY <1>2, <1>3, <1>4, <1>5, IssuedStays, StepTyped

LEMMA DropPendingTyped ==
  ASSUME TypeInv, NEW w \in Workers, DropPending(w)
  PROVE  TypeInv'
<1>1. At(w, "unpend") /\ Go(w, "id")
  BY TurnsAre
<1>2. Typed /\ OthersStill(w) /\ Formed(w)'
  BY <1>1, TakeTurns
<1>3. TablesOK'
  BY TablesAre DEF DropPending, TablesOK, store, window, answers
<1>4. CodesSent' /\ RowsCounted' /\ issued' = issued
  BY CodesKept, RowsKept DEF DropPending, store, answers, TypeInv
<1> QED
  BY <1>2, <1>3, <1>4, IssuedStays, StepTyped

LEMMA ActivateTyped ==
  ASSUME TypeInv, NEW w \in Workers, Activate(w)
  PROVE  TypeInv'
<1>1. Busy(w) /\ Typed /\ OthersStill(w) /\ ~Busy(w)'
  BY ActivateIs DEF Overtakes, Busy
<1>2. P(w) \in Phones /\ user \in [Phones -> UserRow]
  BY <1>1, RequestIs DEF TypeInv, TypeOK
<1> DEFINE u == [user[P(w)] EXCEPT !.verified = TRUE]
<1>3. u \in UserRow /\ u.pk = user[P(w)].pk
  BY <1>2 DEF UserRow
<1>4. user' \in {user, [user EXCEPT ![P(w)] = u]}
  BY DEF Activate
<1>p. user[P(w)].pk = req[w].n \/ user' = user
  BY DEF Activate
<1>n. req[w].n # 0
  BY ActivateIs, RequestIs DEF At, Formed
<1> HIDE DEF u
<1>5. TablesOK'
  BY <1>2, <1>3, <1>4, TablesAre DEF Activate, TablesOK, store, window, answers
<1>6. CodesSent' /\ issued' = issued
  BY CodesKept DEF Activate, TypeInv, store, answers
<1>7. RowsCounted'
  <2>1. user' = user \/ (user[P(w)].pk # 0 /\ user' = [user EXCEPT ![P(w)] = u])
    BY <1>p, <1>4, <1>n
  <2>2. rows' = rows /\ RowsCounted
    BY DEF Activate, TypeInv
  <2>3. \A p \in Phones : user'[p] = user[p] \/ (p = P(w) /\ user'[p].pk = user[p].pk /\ user[p].pk # 0)
    BY <1>2, <1>3, <2>1
  <2> QED
    BY <2>2, <2>3 DEF RowsCounted
<1> QED
  BY <1>1, <1>5, <1>6, <1>7, IssuedStays, StepTyped

LEMMA InsertUserTyped ==
  ASSUME TypeInv, NEW w \in Workers, InsertUser(w)
  PROVE  TypeInv'
<1>1. At(w, "insert") /\ Busy(w) /\ Typed /\ OthersStill(w) /\ ~Busy(w)'
  BY InsertUserIs DEF Ends, Overtakes, Busy
<1>2. P(w) \in Phones /\ req[w].n \in Nat /\ Both(P(w)) \subseteq Idents
  BY <1>1, RequestIs, KindsOf, BothAre
<1>3. user \in [Phones -> UserRow] /\ rows \in [Phones -> Nat]
  BY DEF TypeInv, TypeOK
<1> DEFINE u == [pk |-> rows[P(w)] + 1, id |-> req[w].n, verified |-> TRUE]
<1>4. u \in UserRow /\ u.pk = rows[P(w)] + 1
  BY <1>2, <1>3 DEF UserRow
<1>5. \/ UNCHANGED <<user, rows>>
      \/ /\ rows' = [rows EXCEPT ![P(w)] = rows[P(w)] + 1]
         /\ user' = [user EXCEPT ![P(w)] = u]
  BY DEF InsertUser
<1>6. muddled' \subseteq muddled \cup Both(P(w))
  BY DEF InsertUser
<1> HIDE DEF u
<1>7. TablesOK'
  <2>1. UNCHANGED <<store, pending, window, issued, dead, mix, answers>>
    BY DEF InsertUser
  <2>3. muddled' \subseteq Idents
    BY <1>2, <1>6, TablesAre DEF TablesOK
  <2>2. user' \in [Phones -> UserRow] /\ rows' \in [Phones -> Nat]
    <3>1. CASE UNCHANGED <<user, rows>>
      BY <1>3, <3>1
    <3>2. CASE /\ rows' = [rows EXCEPT ![P(w)] = rows[P(w)] + 1]
               /\ user' = [user EXCEPT ![P(w)] = u]
      BY <1>2, <1>3, <1>4, <3>2
    <3> QED
      BY <1>5, <3>1, <3>2
  <2> QED
    BY <2>1, <2>2, <2>3, TablesAre DEF TablesOK, store, window, answers
<1>8. CodesSent' /\ issued' = issued
  BY CodesKept DEF InsertUser, TypeInv, store, answers
<1>9. RowsCounted'
  <2>1. CASE UNCHANGED <<user, rows>>
    BY <2>1, RowsKept DEF TypeInv
  <2>2. CASE /\ rows' = [rows EXCEPT ![P(w)] = rows[P(w)] + 1]
             /\ user' = [user EXCEPT ![P(w)] = u]
    <3>1. ASSUME NEW p \in Phones
          PROVE  user'[p].pk <= rows'[p] /\ (user'[p] = NoUser \/ user'[p].pk # 0)
      <4>1. CASE p = P(w)
        BY <1>2, <1>3, <1>4, <2>2, <4>1
      <4>2. CASE p # P(w)
        BY <1>3, <2>2, <4>2 DEF TypeInv, RowsCounted
      <4> QED
        BY <4>1, <4>2
    <3> QED
      BY <3>1 DEF RowsCounted
  <2> QED
    BY <1>5, <2>1, <2>2
<1> QED
  BY <1>1, <1>7, <1>8, <1>9, IssuedStays, StepTyped

\* What happens to nobody's request.
LEMMA EventTyped ==
  ASSUME TypeInv, UNCHANGED <<req, issued>>, TablesOK', CodesSent', RowsCounted'
  PROVE  TypeInv'
<1>1. TypeOK'
  BY DEF TypeInv, TypeOK, TablesOK
<1>2. AllFormed'
  BY DEF TypeInv, AllFormed, Formed, Busy, I
<1> QED
  BY <1>1, <1>2 DEF TypeInv, AllFormed

LEMMA EvictCodeTyped ==
  ASSUME TypeInv, NEW i \in Idents, EvictCode(i)
  PROVE  TypeInv'
<1>1. /\ cache' = [cache EXCEPT ![i] = NoCode]
      /\ UNCHANGED <<record, used, people, window, issued, dead, mix, req, muddled, answers>>
  BY DEF EvictCode
<1>2. cache \in [Idents -> Payload] /\ \A j \in Idents : cache'[j] \in {cache[j], NoCode}
  BY <1>1 DEF TypeInv, TypeOK
<1>3. TablesOK'
  BY <1>1, NoCodeIs, TablesAre DEF TablesOK, people, window, answers
<1>4. CodesSent'
  BY <1>1, <1>2, CodesStep DEF answers, TypeInv, CodesSent
<1>5. RowsCounted'
  BY <1>1, RowsKept DEF people, TypeInv
<1> QED
  BY <1>1, <1>3, <1>4, <1>5, EventTyped

LEMMA EvictPendingTyped ==
  ASSUME TypeInv, NEW p \in Phones, EvictPending(p)
  PROVE  TypeInv'
<1>1. TablesOK'
  BY TablesAre DEF EvictPending, TablesOK, store, window, answers
<1>2. CodesSent' /\ RowsCounted' /\ UNCHANGED <<req, issued>>
  BY CodesKept, RowsKept DEF EvictPending, TypeInv, store, answers
<1> QED
  BY <1>1, <1>2, EventTyped

LEMMA ExpireTyped ==
  ASSUME TypeInv, NEW i \in Idents, Expire(i)
  PROVE  TypeInv'
<1>1. /\ dead' = [dead EXCEPT ![i] = issued[i]]
      /\ UNCHANGED <<store, people, window, issued, mix, req, muddled, answers>>
  BY DEF Expire
<1>2. issued \in [Idents -> Codes] /\ dead \in [Idents -> Codes]
  BY DEF TypeInv, TypeOK
<1>3. TablesOK'
  BY <1>1, <1>2, TablesAre DEF TablesOK, store, people, window, answers
<1>4. CodesSent'
  <2>1. \A j \in Idents : dead'[j] = dead[j] \/ dead'[j] = issued[j]
    BY <1>1, <1>2
  <2>2. \A j \in Idents : issued[j] <= issued[j]
    BY <1>2 DEF Codes
  <2> QED
    BY <1>1, <2>1, <2>2 DEF CodesSent, TypeInv, store, answers
<1>5. RowsCounted'
  BY <1>1, RowsKept DEF people, TypeInv
<1> QED
  BY <1>1, <1>3, <1>4, <1>5, EventTyped

LEMMA NewWindowTyped ==
  ASSUME TypeInv, NEW b \in Buckets, NewWindow(b)
  PROVE  TypeInv'
<1>1. /\ rate' = [rate EXCEPT ![b] = 0] /\ sends' = [sends EXCEPT ![b] = 0] /\ raced' = raced \ {b}
      /\ UNCHANGED <<store, people, issued, dead, mix, muddled, answers>>
  BY DEF NewWindow
<1>2. Typed /\ \A v \in Workers : Still(v)
  BY NewWindowIs
<1>3. TablesOK'
  BY <1>1, AccountsAssumption, TablesAre DEF TablesOK, store, people, answers
<1>4. CodesSent' /\ RowsCounted'
  BY <1>1, CodesKept, RowsKept DEF TypeInv, store, people, answers
<1>5. AllFormed'
  <2> SUFFICES ASSUME NEW v \in Workers, req'[v] # Idle PROVE Formed(v)'
    BY DEF AllFormed, Busy
  <2>1. Still(v) /\ Busy(v)
    BY <1>2 DEF Still, Busy
  <2>2. Formed(v)
    BY <2>1 DEF TypeInv
  <2>3. req[v].pc # "rate" => req'[v].n = req[v].n
    BY <2>1 DEF Still, Busy
  <2> QED
    BY <1>1, <2>1, <2>2, <2>3 DEF Still, Busy, Formed, I
<1>6. TypeOK'
  BY <1>2, <1>3 DEF TypeOK, TablesOK, Typed
<1> QED
  BY <1>4, <1>5, <1>6 DEF TypeInv, AllFormed

LEMMA TypeInit == Init => TypeInv
<1> SUFFICES ASSUME Init PROVE TypeInv
  OBVIOUS
<1>n. NoUser \in UserRow /\ NoUser.pk = 0
  BY DEF NoUser, UserRow
<1>1. user \in [Phones -> UserRow] /\ \A p \in Phones : user[p] = NoUser \/ user[p].pk # 0
  <2>1. CASE user = [p \in Phones |-> NoUser]
    BY <1>n, <2>1
  <2>2. ASSUME NEW p \in mix.phones, NEW v \in BOOLEAN,
               user = [[q \in Phones |-> NoUser] EXCEPT ![p] = [pk |-> 1, id |-> FirstId, verified |-> v]]
        PROVE  user \in [Phones -> UserRow] /\ \A q \in Phones : user[q] = NoUser \/ user[q].pk # 0
    <3> DEFINE u == [pk |-> 1, id |-> FirstId, verified |-> v]
    <3>1. FirstId \in Nat
      <4>1. CASE OtherIds = {}
        BY <4>1 DEF FirstId
      <4>2. CASE OtherIds # {}
        BY <4>2, Largest, AccountsAssumption DEF FirstId
      <4> QED
        BY <4>1, <4>2
    <3>2. u \in UserRow /\ u.pk = 1
      BY <3>1 DEF UserRow
    <3>3. p \in Phones
      BY AccountsAssumption DEF Init
    <3>4. user = [[q \in Phones |-> NoUser] EXCEPT ![p] = u]
      BY <2>2
    <3> HIDE DEF u
    <3> QED
      BY <1>n, <3>2, <3>3, <3>4
  <2> QED
    BY <2>1, <2>2 DEF Init
<1>2. \A p \in Phones : user[p].pk \in Nat
  BY <1>1 DEF UserRow
<1>3. rows \in [Phones -> Nat] /\ RowsCounted
  <2>1. rows = [p \in Phones |-> user[p].pk]
    BY DEF Init
  <2>2. \A p \in Phones : user[p].pk <= rows[p]
    BY <1>2, <2>1
  <2> QED
    BY <1>1, <1>2, <2>1, <2>2 DEF RowsCounted
<1>4. 0 \in Codes /\ 0 \in 0..RateLimit /\ NoCode \in Payload /\ NoCode.code = 0
  BY NoCodeIs, AccountsAssumption DEF Codes
<1>5. [code |-> 0, times |-> 0] \in [code : Codes, times : 0..2]
  BY <1>4
<1>6. TypeOK
  BY <1>1, <1>3, <1>4, <1>5 DEF Init, TypeOK
<1>7. CodesSent
  <2>1. \A i \in Idents : /\ cache[i] = NoCode /\ record[i] = NoCode /\ issued[i] = 0 /\ dead[i] = 0
                          /\ accepted[i].code = 0
    BY DEF Init
  <2> QED
    BY <1>4, <2>1 DEF CodesSent
<1>8. \A w \in Workers : ~Busy(w)
  BY DEF Init, Busy
<1> QED
  BY <1>3, <1>6, <1>7, <1>8 DEF TypeInv

LEMMA TypeStep == TypeInv /\ [Next]_vars => TypeInv'
<1> SUFFICES ASSUME TypeInv, [Next]_vars PROVE TypeInv'
  OBVIOUS
<1>1. ASSUME NEW w \in Workers, NEW kind \in Kinds, NEW p \in Phones, NEW code \in Codes,
             NEW sent \in Channels, Begin(w, kind, p, sent, code)
      PROVE  TypeInv'
  BY <1>1, BeginTyped
<1>2. ASSUME NEW w \in Workers, SendStep(w) PROVE TypeInv'
  BY <1>2, CountRequestTyped, CollectTyped, DeleteCollectedTyped, SetPendingTyped, CacheCodeTyped,
     WipeRecordTyped, InsertRecordTyped DEF SendStep
<1>3. ASSUME NEW w \in Workers, VerifyStep(w) PROVE TypeInv'
  BY <1>3, RejectTyped, WrongCodeTyped, CacheMissTyped, CountMissTyped, RightCodeTyped,
     TakeCodeTyped, MarkUsedTyped DEF VerifyStep
<1>4. ASSUME NEW w \in Workers, AccountStep(w) PROVE TypeInv'
  BY <1>4, GetPendingTyped, DropPendingTyped, FindUserTyped, ActivateTyped, ChooseIdTyped,
     InsertUserTyped DEF AccountStep
<1>5. ASSUME NEW w \in Workers, BreakOff(w) PROVE TypeInv'
  BY <1>5, BreakOffTyped
<1>6. ASSUME NEW i \in Idents, EvictCode(i) \/ Expire(i) PROVE TypeInv'
  BY <1>6, EvictCodeTyped, ExpireTyped
<1>7. ASSUME NEW p \in Phones, EvictPending(p) PROVE TypeInv'
  BY <1>7, EvictPendingTyped
<1>8. ASSUME NEW b \in Buckets, NewWindow(b) PROVE TypeInv'
  BY <1>8, NewWindowTyped
<1>9. CASE UNCHANGED vars
  <2>1. UNCHANGED <<req, issued>> /\ TablesOK' /\ CodesSent' /\ RowsCounted'
    BY <1>9, TablesAre, CodesKept, RowsKept
       DEF vars, store, people, window, answers, TablesOK, TypeInv
  <2> QED
    BY <2>1, EventTyped
<1> QED
  BY <1>1, <1>2, <1>3, <1>4, <1>5, <1>6, <1>7, <1>8, <1>9 DEF Next

\* Every reachable state is well typed; a code in the cache, in a row, or in the hands of a
\* request that writes it, was sent to its identifier (the steps of accounts/).
THEOREM TypeCorrect == Spec => []TypeInv
<1> QED
  BY TypeInit, TypeStep, PTL DEF Spec

----------------------------------------------------------------------------
(* What every step of a request leaves of the others, and of itself.         *)

Moves(w) ==
  /\ Busy(w) /\ OthersStill(w)
  /\ \A v \in Workers \ {w} : Busy(v) => req'[v].n = req[v].n /\ req'[v].solo = req[v].solo
  /\ req'[w] # Idle =>
       /\ req'[w].kind = req[w].kind /\ req'[w].bucket = req[w].bucket /\ req'[w].pc # "rate"
       /\ req'[w].solo = req[w].solo /\ req'[w].ident[1] = P(w)

LEMMA MovesSo ==
  ASSUME TypeInv, NEW w \in Workers, Busy(w)
  PROVE  /\ Ends(w) => Moves(w)
         /\ \A V : Overtakes(w, V) => Moves(w)
         /\ \A pc \in Pcs : Turns(w, pc) /\ pc # "rate" /\ SameIdent(w) => Moves(w)
         /\ Retries(w) => Moves(w)
<1>1. ASSUME Ends(w) PROVE Moves(w)
  BY <1>1 DEF Ends, Moves, Others
<1>2. ASSUME NEW V, Overtakes(w, V) PROVE Moves(w)
  BY <1>2 DEF Overtakes, Moves
<1>3. ASSUME NEW pc \in Pcs, Turns(w, pc), pc # "rate", SameIdent(w) PROVE Moves(w)
  BY <1>3 DEF Turns, SameIdent, Moves, Others, P
<1>4. ASSUME Retries(w) PROVE Moves(w)
  BY <1>4 DEF Retries, Turns, Moves, Others, P
<1> QED
  BY <1>1, <1>2, <1>3, <1>4

\* The steps of a request that is being served.
Serves(w) == SendStep(w) \/ VerifyStep(w) \/ AccountStep(w) \/ BreakOff(w)

LEMMA SendMoves ==
  ASSUME TypeInv, NEW w \in Workers, SendStep(w)
  PROVE  Moves(w)
<1>p. {"collect", "delete", "pend", "cache", "wipe", "record"} \subseteq Pcs \ {"rate"}
  BY DEF Pcs
<1>1. ASSUME CountRequest(w) PROVE Moves(w)
  BY <1>p, <1>1, CountRequestIs, MovesSo
<1>2. ASSUME Collect(w) PROVE Moves(w)
  BY <1>p, <1>2, CollectIs, MovesSo
<1>3. ASSUME DeleteCollected(w) PROVE Moves(w)
  BY <1>p, <1>3, DeleteCollectedIs, MovesSo
<1>4. ASSUME SetPending(w) PROVE Moves(w)
  BY <1>p, <1>4, TurnsAre, GoTurns, MovesSo
<1>5. ASSUME CacheCode(w) PROVE Moves(w)
  BY <1>p, <1>5, CacheCodeIs, MovesSo
<1>6. ASSUME WipeRecord(w) PROVE Moves(w)
  BY <1>p, <1>6, TurnsAre, GoTurns, MovesSo
<1>7. ASSUME InsertRecord(w) PROVE Moves(w)
  <2>1. Busy(w) /\ Ends(w)
    BY <1>7, TurnsAre, DoneIs DEF Ends, At
  <2> QED
    BY <2>1, MovesSo
<1> QED
  BY <1>1, <1>2, <1>3, <1>4, <1>5, <1>6, <1>7 DEF SendStep

LEMMA VerifyMoves ==
  ASSUME TypeInv, NEW w \in Workers, VerifyStep(w)
  PROVE  Moves(w)
<1>p. {"miss", "count", "take", "mark", "pop", "user"} \subseteq Pcs \ {"rate"}
  BY DEF Pcs
<1>1. ASSUME Reject(w) \/ CountMiss(w) PROVE Moves(w)
  BY <1>1, TurnsAre, NextTryIs, MovesSo DEF At
<1>2. ASSUME WrongCode(w) PROVE Moves(w)
  BY <1>p, <1>2, WrongCodeIs, MovesSo
<1>3. ASSUME CacheMiss(w) PROVE Moves(w)
  BY <1>p, <1>3, TurnsAre, GoTurns, MovesSo
<1>4. ASSUME RightCode(w) PROVE Moves(w)
  BY <1>p, <1>4, RightCodeIs, MovesSo
<1>5. ASSUME TakeCode(w) PROVE Moves(w)
  BY <1>p, <1>5, TurnsAre, GoTurns, MovesSo
<1>6. ASSUME MarkUsed(w) PROVE Moves(w)
  <2>1. CASE req[w].kind = "verify_otp"
    BY <1>p, <1>6, <2>1, TurnsAre, GoTurns, MovesSo
  <2>2. CASE req[w].kind # "verify_otp"
    BY <1>p, <1>6, <2>2, TurnsAre, GoTurns, MovesSo
  <2> QED
    BY <2>1, <2>2
<1> QED
  BY <1>1, <1>2, <1>3, <1>4, <1>5, <1>6 DEF VerifyStep

LEMMA AccountMoves ==
  ASSUME TypeInv, NEW w \in Workers, AccountStep(w) \/ BreakOff(w)
  PROVE  Moves(w)
<1>p. {"unpend", "user", "id", "activate", "insert"} \subseteq Pcs \ {"rate"}
  BY DEF Pcs
<1>1. ASSUME GetPending(w) PROVE Moves(w)
  <2>1. CASE P(w) \in pending
    BY <1>p, <1>1, <2>1, TurnsAre, GoTurns, MovesSo
  <2>2. CASE P(w) \notin pending
    BY <1>p, <1>1, <2>2, TurnsAre, GoTurns, MovesSo
  <2> QED
    BY <2>1, <2>2
<1>2. ASSUME DropPending(w) PROVE Moves(w)
  BY <1>p, <1>2, TurnsAre, GoTurns, MovesSo
<1>3. ASSUME FindUser(w) PROVE Moves(w)
  BY <1>p, <1>3, FindUserIs, MovesSo
<1>4. ASSUME Activate(w) PROVE Moves(w)
  BY <1>4, ActivateIs, MovesSo
<1>5. ASSUME ChooseId(w) PROVE Moves(w)
  BY <1>p, <1>5, NextIdIs, ChooseIdIs, MovesSo
<1>6. ASSUME InsertUser(w) PROVE Moves(w)
  BY <1>6, InsertUserIs, MovesSo
<1>7. ASSUME BreakOff(w) PROVE Moves(w)
  <2>1. Busy(w) /\ Ends(w)
    BY <1>7, TurnsAre, DoneIs DEF Ends
  <2> QED
    BY <2>1, MovesSo
<1> QED
  BY <1>1, <1>2, <1>3, <1>4, <1>5, <1>6, <1>7 DEF AccountStep

LEMMA MovesAre ==
  ASSUME TypeInv, NEW w \in Workers, Serves(w)
  PROVE  Moves(w) /\ Busy(w) /\ P(w) \in Phones /\ UNCHANGED mix
<1>1. Moves(w)
  BY SendMoves, VerifyMoves, AccountMoves DEF Serves
<1>2. UNCHANGED mix
  BY DEF Serves, SendStep, VerifyStep, AccountStep, CountRequest, Collect, DeleteCollected,
     SetPending, CacheCode, WipeRecord, InsertRecord, Reject, WrongCode, CacheMiss, CountMiss,
     RightCode, TakeCode, MarkUsed, GetPending, DropPending, FindUser, Activate, ChooseId,
     InsertUser, BreakOff
<1> QED
  BY <1>1, <1>2, RequestIs DEF Moves

\* A step is the start of a request, a step of one, or an event.
Event ==
  \/ \E i \in Idents : EvictCode(i) \/ Expire(i)
  \/ \E p \in Phones : EvictPending(p)

LEMMA StepsAre ==
  ASSUME [Next]_vars
  PROVE  \/ \E w \in Workers, kind \in Kinds, p \in Phones, sent \in Channels, code \in Codes :
               Begin(w, kind, p, sent, code)
         \/ \E w \in Workers : Serves(w)
         \/ Event
         \/ \E b \in Buckets : NewWindow(b)
         \/ UNCHANGED vars
BY DEF Next, Serves, Event

----------------------------------------------------------------------------
(* The rate limit.                                                           *)

AtRate(w, b) == At(w, "rate") /\ req[w].bucket = b

\* A count read in this window is the bucket's count, and whoever read it is alone.
Counted(b) ==
  /\ sends[b] <= rate[b]
  /\ \A w \in Workers : AtRate(w, b) =>
       /\ req[w].n = Past => rate[b] = 0
       /\ req[w].n # Past => req[w].n = rate[b] /\ \A v \in Workers : AtRate(v, b) => v = w

RateInv ==
  /\ \A b \in Buckets \ raced : Counted(b)
  /\ \A w \in Workers : Busy(w) => req[w].bucket[1] = P(w)

\* Where nobody comes to be at the rate check and the bucket's counts stay, they stay right.
LEMMA CountedStays ==
  ASSUME NEW b \in Buckets, Counted(b), rate'[b] = rate[b], sends'[b] = sends[b],
         \A v \in Workers : AtRate(v, b)' => AtRate(v, b) /\ req'[v].n = req[v].n
  PROVE  Counted(b)'
BY DEF Counted

LEMMA MovesAtRate ==
  ASSUME TypeInv, NEW w \in Workers, Moves(w), NEW b
  PROVE  \A v \in Workers : AtRate(v, b)' => v # w /\ AtRate(v, b) /\ req'[v].n = req[v].n
<1> SUFFICES ASSUME NEW v \in Workers, req'[v] # Idle, req'[v].pc = "rate", req'[v].bucket = b
             PROVE  v # w /\ AtRate(v, b) /\ req'[v].n = req[v].n
  BY DEF AtRate, At, Busy
<1>1. v # w
  BY DEF Moves
<1> QED
  BY <1>1 DEF Moves, OthersStill, Still, AtRate, At, Busy

LEMMA BucketsStay ==
  ASSUME TypeInv, RateInv, NEW w \in Workers, Moves(w)
  PROVE  \A v \in Workers : Busy(v)' => req'[v].bucket[1] = P(v)'
<1> SUFFICES ASSUME NEW v \in Workers, req'[v] # Idle PROVE req'[v].bucket[1] = req'[v].ident[1]
  BY DEF Busy, P
<1>1. CASE v = w
  BY <1>1 DEF Moves, RateInv, Busy, P
<1>2. CASE v # w
  BY <1>2 DEF Moves, RateInv, OthersStill, Still, Busy, P
<1> QED
  BY <1>1, <1>2

LEMMA CountRequestCounted ==
  ASSUME TypeInv, RateInv, NEW w \in Workers, CountRequest(w)
  PROVE  RateInv'
<1>1. Moves(w) /\ Serves(w) /\ AtRate(w, req[w].bucket)
  BY SendMoves, CountRequestIs DEF Serves, SendStep, AtRate
<1>2. ASSUME NEW b \in Buckets \ raced PROVE Counted(b)'
  <2>1. Counted(b) /\ \A v \in Workers : AtRate(v, b)' => v # w /\ AtRate(v, b) /\ req'[v].n = req[v].n
    BY <1>1, MovesAtRate DEF RateInv
  <2>2. CASE rate'[b] = rate[b] /\ sends'[b] = sends[b]
    BY <2>1, <2>2, CountedStays
  <2>3. CASE ~(rate'[b] = rate[b] /\ sends'[b] = sends[b])
    <3> DEFINE counts == req[w].n # Past
    <3>1. rate \in [Buckets -> 0..RateLimit] /\ sends \in [Buckets -> Nat] /\ req[w].bucket \in Buckets
          /\ RateLimit \in Nat
      BY <1>1, RequestIs, AccountsAssumption DEF TypeInv, TypeOK, AtRate, At
    <3>2. ~(req[w].n >= RateLimit)
      BY <2>3 DEF CountRequest
    <3>3. /\ rate' = [rate EXCEPT ![req[w].bucket] = IF counts THEN req[w].n + 1 ELSE 0]
          /\ sends' = [sends EXCEPT ![req[w].bucket] =
               IF counts THEN Min({sends[req[w].bucket] + 1, RateLimit + 1}) ELSE sends[req[w].bucket]]
      BY <3>2 DEF CountRequest
    <3>4. req[w].bucket = b /\ AtRate(w, b)
      BY <1>1, <2>3, <3>1, <3>3
    <3>5. counts
      BY <2>1, <2>3, <3>1, <3>3, <3>4 DEF Counted
    <3>6. req[w].n = rate[b] /\ \A v \in Workers : ~AtRate(v, b)'
      BY <2>1, <3>4, <3>5 DEF Counted
    <3>7. sends[b] \in Nat /\ rate[b] \in Nat
      BY <3>1
    <3>8. sends'[b] = Min({sends[b] + 1, RateLimit + 1}) /\ rate'[b] = rate[b] + 1
      BY <3>1, <3>3, <3>4, <3>5, <3>6
    <3>9. sends'[b] <= sends[b] + 1
      BY <3>1, <3>7, <3>8, LesserIs
    <3>10. sends'[b] <= rate'[b]
      BY <2>1, <3>1, <3>7, <3>8, <3>9, LesserIs DEF Counted
    <3> QED
      BY <3>6, <3>10 DEF Counted
  <2> QED
    BY <2>2, <2>3
<1>3. raced' = raced
  BY DEF CountRequest
<1> QED
  BY <1>1, <1>2, <1>3, BucketsStay DEF RateInv

LEMMA ServesCounted ==
  ASSUME TypeInv, RateInv, NEW w \in Workers, Serves(w)
  PROVE  RateInv'
<1>1. CASE CountRequest(w)
  BY <1>1, CountRequestCounted
<1>2. CASE ~CountRequest(w)
  <2>1. Moves(w)
    BY MovesAre
  <2>2. UNCHANGED window
    BY <1>2 DEF Serves, SendStep, VerifyStep, AccountStep, Collect, DeleteCollected,
       SetPending, CacheCode, WipeRecord, InsertRecord, Reject, WrongCode, CacheMiss, CountMiss,
       RightCode, TakeCode, MarkUsed, GetPending, DropPending, FindUser, Activate, ChooseId,
       InsertUser, BreakOff
  <2>3. ASSUME NEW b \in Buckets \ raced PROVE Counted(b)'
    BY <2>1, <2>2, MovesAtRate, CountedStays DEF RateInv, window
  <2> QED
    BY <2>1, <2>2, <2>3, BucketsStay DEF RateInv, window
<1> QED
  BY <1>1, <1>2

LEMMA BeginCounted ==
  ASSUME TypeInv, RateInv, NEW w \in Workers, NEW kind \in Kinds, NEW p \in Phones, NEW code \in Codes,
         NEW sent \in Channels, Begin(w, kind, p, sent, code)
  PROVE  RateInv'
<1> DEFINE chan == Channel(kind, p)
           b == <<p, IF kind = "resend" THEN "resend" ELSE chan>>
<1>0. Begins(w, kind, p, code)
  BY BeginIs
<1>1. /\ ~Busy(w) /\ OthersStill(w) /\ req'[w].pc = FirstPc(kind) /\ req'[w].bucket = b
      /\ req'[w].ident = <<p, chan>>
      /\ req'[w].n = IF FirstPc(kind) = "rate" THEN rate[b] ELSE 0
      /\ \A v \in Workers \ {w} : Busy(v) => req'[v].n = req[v].n
  BY <1>0 DEF Begins
<1>2. /\ UNCHANGED <<rate, sends>>
      /\ raced' = IF \E v \in On(p) : At(v, "rate") /\ FirstPc(kind) = "rate" /\ req[v].bucket = b
                  THEN raced \cup {b} ELSE raced
  BY DEF Begin, Open
<1>3. chan \in {"phone", "mobile"}
  BY FirstStep
<1>b. b \in Buckets /\ b[1] = p
  BY <1>3 DEF Buckets
<1> HIDE DEF b, chan
<1>4. \A v \in Workers : Busy(v)' => req'[v].bucket[1] = P(v)'
  <2> SUFFICES ASSUME NEW v \in Workers, req'[v] # Idle PROVE req'[v].bucket[1] = req'[v].ident[1]
    BY DEF Busy, P
  <2>1. CASE v = w
    BY <1>1, <1>b, <2>1
  <2>2. CASE v # w
    BY <1>1, <2>2 DEF RateInv, OthersStill, Still, Busy, P
  <2> QED
    BY <2>1, <2>2
<1>5. ASSUME NEW c \in Buckets
      PROVE  \A v \in Workers \ {w} : AtRate(v, c)' => AtRate(v, c) /\ req'[v].n = req[v].n
  BY <1>1 DEF OthersStill, Still, AtRate, At, Busy
<1>6. ASSUME NEW c \in Buckets \ raced' PROVE Counted(c)'
  <2>0. Counted(c)
    BY <1>2 DEF RateInv
  <2>1. CASE ~(c = b /\ FirstPc(kind) = "rate")
    <3>1. ~AtRate(w, c)'
      BY <1>1, <2>1 DEF AtRate, At
    <3> QED
      BY <1>2, <1>5, <2>0, <3>1, CountedStays
  <2>2. CASE c = b /\ FirstPc(kind) = "rate"
    <3>1. ASSUME NEW v \in Workers \ {w}, AtRate(v, b) PROVE FALSE
      <4>1. v \in On(p)
        BY <1>b, <3>1 DEF RateInv, On, AtRate, At
      <4> QED
        BY <1>2, <2>2, <3>1, <4>1 DEF AtRate
    <3>2. \A v \in Workers : AtRate(v, c)' => v = w
      BY <1>5, <2>2, <3>1
    <3>3. req'[w].n = rate'[c] /\ rate[b] # Past
      BY <1>1, <1>2, <1>b, <2>2, PastIs DEF TypeInv, TypeOK
    <3> QED
      BY <1>2, <2>0, <2>2, <3>2, <3>3 DEF Counted
  <2> QED
    BY <2>1, <2>2
<1> QED
  BY <1>4, <1>6 DEF RateInv

LEMMA NewWindowCounted ==
  ASSUME TypeInv, RateInv, NEW b \in Buckets, NewWindow(b)
  PROVE  RateInv'
<1>1. /\ rate' = [rate EXCEPT ![b] = 0] /\ sends' = [sends EXCEPT ![b] = 0] /\ raced' = raced \ {b}
  BY DEF NewWindow
<1>2. rate \in [Buckets -> 0..RateLimit] /\ sends \in [Buckets -> Nat]
  BY DEF TypeInv, TypeOK
<1>3. ASSUME NEW v \in Workers, NEW c, AtRate(v, c)'
      PROVE  AtRate(v, c) /\ req'[v].n = IF c = b THEN Past ELSE req[v].n
  <2>1. Still(v) /\ (At(v, "rate") /\ req[v].bucket = b => req'[v].n = Past)
        /\ (~(At(v, "rate") /\ req[v].bucket = b) => req'[v] = req[v])
    BY NewWindowIs
  <2>2. AtRate(v, c)
    BY <1>3, <2>1 DEF Still, AtRate, At, Busy
  <2> QED
    BY <2>1, <2>2 DEF AtRate
<1>4. ASSUME NEW c \in Buckets \ raced' PROVE Counted(c)'
  <2>1. CASE c = b
    <3>1. rate'[c] = 0 /\ sends'[c] = 0
      BY <1>1, <1>2, <2>1
    <3>2. \A v \in Workers : AtRate(v, c)' => req'[v].n = Past
      BY <1>3, <2>1
    <3> QED
      BY <3>1, <3>2 DEF Counted
  <2>2. CASE c # b
    <3>1. rate'[c] = rate[c] /\ sends'[c] = sends[c] /\ Counted(c)
      BY <1>1, <1>2, <2>2 DEF RateInv
    <3> QED
      BY <1>3, <2>2, <3>1, CountedStays
  <2> QED
    BY <2>1, <2>2
<1>5. \A v \in Workers : Busy(v)' => req'[v].bucket[1] = P(v)'
  BY NewWindowIs DEF RateInv, Still, Busy, P
<1> QED
  BY <1>4, <1>5 DEF RateInv

LEMMA RateStep == TypeInv /\ RateInv /\ [Next]_vars => RateInv'
<1> SUFFICES ASSUME TypeInv, RateInv, [Next]_vars PROVE RateInv'
  OBVIOUS
<1>1. CASE Event \/ UNCHANGED vars
  <2>1. UNCHANGED <<window, req>>
    BY <1>1 DEF Event, EvictCode, EvictPending, Expire, vars
  <2>2. \A b \in Buckets \ raced : Counted(b)'
    BY <2>1, CountedStays DEF RateInv, window, AtRate, At, Busy
  <2> QED
    BY <2>1, <2>2 DEF RateInv, window, Busy, P
<1> QED
  BY <1>1, StepsAre, BeginCounted, ServesCounted, NewWindowCounted

LEMMA RateInit == Init => RateInv
<1> SUFFICES ASSUME Init PROVE RateInv
  OBVIOUS
<1>1. \A w \in Workers : ~Busy(w)
  BY DEF Init, Busy
<1> QED
  BY <1>1 DEF Init, RateInv, Counted, AtRate, At

----------------------------------------------------------------------------
(* Requests that are alone on their phone.                                   *)

Alone(w) == \A v \in Workers : Busy(v) /\ P(v) = P(w) => v = w

\* A request that has met no other is alone; one that has, has its phone's identifiers
\* muddled.
SoloInv ==
  \A w \in Workers : Busy(w) =>
    /\ req[w].solo => Alone(w)
    /\ Both(P(w)) \subseteq muddled \/ req[w].solo

LEMMA MovesPhones ==
  ASSUME NEW w \in Workers, Moves(w)
  PROVE  \A v \in Workers : req'[v] # Idle =>
           Busy(v) /\ req'[v].ident[1] = P(v) /\ req'[v].solo = req[v].solo
BY DEF Moves, OthersStill, Still, Busy, P

LEMMA MuddledIs ==
  ASSUME NEW w \in Workers, Serves(w)
  PROVE  \/ muddled \subseteq muddled'
         \/ At(w, "record") /\ Done(w) /\ req[w].solo /\ muddled' = muddled \ {I(w)}
<1>1. InsertRecord(w) \/ BreakOff(w) \/ InsertUser(w) \/ UNCHANGED muddled
  BY DEF Serves, SendStep, VerifyStep, AccountStep, CountRequest, Collect, DeleteCollected,
     SetPending, CacheCode, WipeRecord, Reject, WrongCode, CacheMiss, CountMiss,
     RightCode, TakeCode, MarkUsed, GetPending, DropPending, FindUser, Activate, ChooseId
<1> QED
  BY <1>1 DEF InsertRecord, BreakOff, InsertUser

LEMMA ServesSolo ==
  ASSUME TypeInv, SoloInv, NEW w \in Workers, Serves(w)
  PROVE  SoloInv'
<1>1. \A v \in Workers : req'[v] # Idle =>
        Busy(v) /\ req'[v].ident[1] = P(v) /\ req'[v].solo = req[v].solo
  BY MovesAre, MovesPhones
<1> SUFFICES ASSUME NEW v \in Workers, req'[v] # Idle
             PROVE  /\ req'[v].solo => Alone(v)'
                    /\ Both(P(v)) \subseteq muddled' \/ req'[v].solo
  BY <1>1 DEF SoloInv, Busy, P, Both
<1>2. req'[v].solo => Alone(v)'
  BY <1>1 DEF SoloInv, Alone, Busy, P
<1>3. CASE muddled \subseteq muddled'
  BY <1>1, <1>2, <1>3 DEF SoloInv
<1>4. CASE At(w, "record") /\ Done(w) /\ req[w].solo /\ muddled' = muddled \ {I(w)}
  <2>1. v # w /\ Busy(w) /\ I(w) = <<P(w), I(w)[2]>>
    BY <1>4, DoneIs, RequestIs DEF At
  <2>2. P(v) # P(w)
    BY <1>1, <1>4, <2>1 DEF SoloInv, Alone
  <2>3. I(w) \notin Both(P(v))
    BY <2>1, <2>2 DEF Both
  <2> QED
    BY <1>1, <1>2, <1>4, <2>3 DEF SoloInv
<1> QED
  BY <1>3, <1>4, MuddledIs

LEMMA BeginSolo ==
  ASSUME TypeInv, SoloInv, NEW w \in Workers, NEW kind \in Kinds, NEW p \in Phones, NEW code \in Codes,
         NEW sent \in Channels, Begin(w, kind, p, sent, code)
  PROVE  SoloInv'
<1>0. Begins(w, kind, p, code)
  BY BeginIs
<1>1. /\ ~Busy(w) /\ OthersStill(w) /\ req'[w].ident[1] = p /\ req'[w] # Idle
      /\ req'[w].solo => On(p) = {}
      /\ On(p) = {} => req'[w].solo
      /\ \A v \in On(p) : ~req'[v].solo
      /\ \A v \in Workers \ {w} : v \notin On(p) => req'[v] = req[v]
  BY <1>0 DEF Begins
<1>2. muddled' = IF On(p) # {} THEN muddled \cup Both(p) ELSE muddled
  BY DEF Begin
<1> SUFFICES ASSUME NEW v \in Workers, req'[v] # Idle
             PROVE  /\ req'[v].solo => Alone(v)'
                    /\ Both(req'[v].ident[1]) \subseteq muddled' \/ req'[v].solo
  BY DEF SoloInv, Busy, P, Both
<1>3. CASE v = w
  <2>1. On(p) = {} => \A u \in Workers \ {w} : req'[u] # Idle => req'[u].ident[1] # p
    BY <1>1 DEF OthersStill, Still, On, Busy, P
  <2> QED
    BY <1>1, <1>2, <1>3, <2>1 DEF Alone, Busy, P
<1>4. CASE v # w /\ v \in On(p)
  BY <1>1, <1>2, <1>4 DEF OthersStill, Still, On, Busy, P
<1>5. CASE v # w /\ v \notin On(p)
  <2>1. req'[v] = req[v] /\ Busy(v) /\ P(v) # p
    BY <1>1, <1>5 DEF On, Busy
  <2>2. \A u \in Workers \ {w} : req'[u] # Idle => Busy(u) /\ req'[u].ident[1] = P(u)
    BY <1>1 DEF OthersStill, Still, Busy, P
  <2>3. req[v].solo => Alone(v)'
    BY <1>1, <2>1, <2>2 DEF SoloInv, Alone, Busy, P
  <2> QED
    BY <1>2, <2>1, <2>3 DEF SoloInv, P
<1> QED
  BY <1>3, <1>4, <1>5

LEMMA SoloStep == TypeInv /\ SoloInv /\ [Next]_vars => SoloInv'
<1> SUFFICES ASSUME TypeInv, SoloInv, [Next]_vars PROVE SoloInv'
  OBVIOUS
<1>1. CASE Event \/ UNCHANGED vars
  <2>1. UNCHANGED <<muddled, req>>
    BY <1>1 DEF Event, EvictCode, EvictPending, Expire, vars
  <2> QED
    BY <2>1 DEF SoloInv, Alone, Busy, P, Both
<1>2. ASSUME NEW b \in Buckets, NewWindow(b) PROVE SoloInv'
  <2>1. muddled' = muddled
    BY <1>2 DEF NewWindow
  <2>2. \A v \in Workers : Still(v) /\ (Busy(v) => req'[v].solo = req[v].solo)
    BY <1>2, NewWindowIs
  <2> QED
    BY <2>1, <2>2 DEF SoloInv, Alone, Still, Busy, P, Both
<1> QED
  BY <1>1, <1>2, StepsAre, BeginSolo, ServesSolo

LEMMA SoloInit == Init => SoloInv
BY DEF Init, SoloInv, Busy

----------------------------------------------------------------------------
(* Rows of accounts.                                                         *)

LEMMA DeletesRow ==
  ASSUME TypeInv, NEW w \in Workers, DeleteCollected(w)
  PROVE  /\ rows' = rows /\ P(w) \in Phones
         /\ \A p \in Phones : user'[p] = IF p = P(w) /\ user[p].pk = req[w].n THEN NoUser ELSE user[p]
<1>1. P(w) \in Phones /\ user \in [Phones -> UserRow]
  BY DeleteCollectedIs, RequestIs DEF TypeInv, TypeOK
<1> QED
  BY <1>1 DEF DeleteCollected

LEMMA ActivatesRow ==
  ASSUME TypeInv, NEW w \in Workers, Activate(w)
  PROVE  /\ rows' = rows /\ P(w) \in Phones
         /\ \A p \in Phones : user'[p] = user[p]
              \/ (p = P(w) /\ user[p].pk = req[w].n /\ req[w].n # 0 /\ user'[p].verified
                  /\ user'[p].pk = user[p].pk /\ user'[p].id = user[p].id)
<1>1. P(w) \in Phones /\ user \in [Phones -> UserRow] /\ req[w].n # 0
  BY ActivateIs, RequestIs DEF TypeInv, TypeOK, At, Formed
<1>2. user[P(w)] \in UserRow
  BY <1>1
<1>3. \/ user' = user
      \/ user[P(w)].pk = req[w].n /\ user' = [user EXCEPT ![P(w)].verified = TRUE]
  BY DEF Activate
<1>4. rows' = rows
  BY DEF Activate
<1> QED
  BY <1>1, <1>2, <1>3, <1>4 DEF UserRow

LEMMA InsertsRow ==
  ASSUME TypeInv, NEW w \in Workers, InsertUser(w), ~Clashes(w)
  PROVE  /\ P(w) \in Phones /\ user[P(w)] = NoUser /\ req[w].n \notin Ids
         /\ user'[P(w)].pk = rows[P(w)] + 1 /\ user'[P(w)].id = req[w].n /\ user'[P(w)].verified
         /\ rows'[P(w)] = rows[P(w)] + 1 /\ rows[P(w)] \in Nat
         /\ \A p \in Phones : p # P(w) => user'[p] = user[p] /\ rows'[p] = rows[p]
<1> DEFINE u == [pk |-> rows[P(w)] + 1, id |-> req[w].n, verified |-> TRUE]
<1>1. P(w) \in Phones /\ user \in [Phones -> UserRow] /\ rows \in [Phones -> Nat]
  BY InsertUserIs, RequestIs DEF TypeInv, TypeOK
<1>2. user[P(w)] = NoUser /\ req[w].n \notin Ids
  BY DEF Clashes
<1>3. /\ rows' = [rows EXCEPT ![P(w)] = rows[P(w)] + 1]
      /\ user' = [user EXCEPT ![P(w)] = u]
  BY DEF InsertUser
<1>4. u.pk = rows[P(w)] + 1 /\ u.id = req[w].n /\ u.verified
  OBVIOUS
<1> HIDE DEF u
<1> QED
  BY <1>1, <1>2, <1>3, <1>4

LEMMA RowsAre ==
  ASSUME NEW w \in Workers, Serves(w)
  PROVE  \/ UNCHANGED <<user, rows>>
         \/ DeleteCollected(w) \/ Activate(w) \/ (InsertUser(w) /\ ~Clashes(w))
<1>1. \/ UNCHANGED <<user, rows>>
      \/ DeleteCollected(w) \/ Activate(w) \/ InsertUser(w)
  BY DEF Serves, SendStep, VerifyStep, AccountStep, CountRequest, Collect, people,
     SetPending, CacheCode, WipeRecord, InsertRecord, Reject, WrongCode, CacheMiss, CountMiss,
     RightCode, TakeCode, MarkUsed, GetPending, DropPending, FindUser, ChooseId, BreakOff
<1>2. InsertUser(w) /\ Clashes(w) => UNCHANGED <<user, rows>>
  BY DEF InsertUser
<1> QED
  BY <1>1, <1>2

----------------------------------------------------------------------------
(* Verified accounts stay.                                                   *)

Fresh(p) == user[p] # NoUser /\ ~user[p].verified

\* While a row is unverified, no signup of its phone has come past its delete.
EarlyOn(p) ==
  /\ p \notin pending
  /\ \A w \in Workers : Busy(w) /\ P(w) = p /\ req[w].kind = "register" =>
       req[w].pc \in {"rate", "collect"} \/ (req[w].pc = "delete" /\ req[w].n = user[p].pk)

\* A row that nothing has overtaken since it was looked up is still as it was.
DeletesRight(w) ==
  At(w, "delete") =>
    /\ req[w].n <= rows[P(w)]
    /\ ~req[w].overtaken /\ user[P(w)].pk = req[w].n => ~user[P(w)].verified

UnverifiedInv ==
  /\ \A p \in Phones : Fresh(p) => EarlyOn(p)
  /\ \A w \in Workers : DeletesRight(w)

\* Rows are inserted verified, so an unverified one has been there from the start.
LEMMA FreshBefore ==
  ASSUME TypeInv, NEW w \in Workers, Serves(w), NEW p \in Phones, Fresh(p)'
  PROVE  Fresh(p) /\ user'[p] = user[p]
<1>1. user'[p] # NoUser /\ ~user'[p].verified
  BY DEF Fresh
<1>2. CASE UNCHANGED user
  BY <1>1, <1>2 DEF Fresh
<1>3. CASE DeleteCollected(w)
  BY <1>1, <1>3, DeletesRow DEF Fresh
<1>4. CASE Activate(w)
  BY <1>1, <1>4, ActivatesRow DEF Fresh
<1>5. CASE InsertUser(w) /\ ~Clashes(w)
  <2>1. p # P(w)
    BY <1>1, <1>5, InsertsRow
  <2> QED
    BY <1>1, <1>5, <2>1, InsertsRow DEF Fresh
<1> QED
  BY <1>2, <1>3, <1>4, <1>5, RowsAre

LEMMA PendingIs ==
  ASSUME NEW w \in Workers, Serves(w)
  PROVE  \/ pending' = pending
         \/ SetPending(w) /\ pending' = pending \cup {P(w)}
         \/ DropPending(w) /\ pending' = pending \ {P(w)}
BY DEF Serves, SendStep, VerifyStep, AccountStep, CountRequest, Collect, people, DeleteCollected,
       SetPending, CacheCode, WipeRecord, InsertRecord, Reject, WrongCode, CacheMiss, CountMiss,
       RightCode, TakeCode, MarkUsed, GetPending, DropPending, FindUser, ChooseId, BreakOff,
       Activate, InsertUser

\* Where a signup is after its step.
LEMMA RegisterTurns ==
  ASSUME TypeInv, NEW w \in Workers, Serves(w), req'[w] # Idle, req[w].kind = "register"
  PROVE  \/ CountRequest(w) /\ req'[w].pc = "collect"
         \/ Collect(w) /\ req'[w].pc = "delete" /\ req'[w].n = user[P(w)].pk /\ ~user[P(w)].verified
         \/ DeleteCollected(w) /\ req'[w].pc = "pend"
         \/ ~CountRequest(w) /\ ~Collect(w) /\ ~DeleteCollected(w)
            /\ req[w].pc \notin {"rate", "collect", "delete"}
            /\ req'[w].pc \notin {"rate", "collect", "delete"}
<1>0. Busy(w) /\ req[w].pc \in Stage("register")
  BY MovesAre, RequestIs DEF Formed
<1>1. req[w].pc \in {"rate", "collect", "delete", "pend", "cache", "wipe", "record"}
  BY <1>0, StagesAre
<1>2. CASE CountRequest(w)
  BY <1>2, CountRequestIs DEF Ends, Turns
<1>3. CASE Collect(w)
  BY <1>3, CollectIs DEF Ends, Turns
<1>4. CASE DeleteCollected(w)
  BY <1>4, DeleteCollectedIs DEF Turns
<1>5. CASE SetPending(w)
  <2>1. req'[w].pc = "cache" /\ At(w, "pend")
    BY <1>5, TurnsAre, GoTurns DEF Turns, Pcs
  <2> QED
    BY <2>1 DEF At, CountRequest, Collect, DeleteCollected
<1>6. CASE CacheCode(w)
  BY <1>6, CacheCodeIs DEF Turns, At, CountRequest, Collect, DeleteCollected
<1>7. CASE WipeRecord(w)
  <2>1. req'[w].pc = "record" /\ At(w, "wipe")
    BY <1>7, TurnsAre, GoTurns DEF Turns, Pcs
  <2> QED
    BY <2>1 DEF At, CountRequest, Collect, DeleteCollected
<1>8. CASE InsertRecord(w) \/ BreakOff(w)
  BY <1>8, TurnsAre, DoneIs
<1>9. ~VerifyStep(w)
  BY <1>1 DEF VerifyStep, Reject, WrongCode, CacheMiss, CountMiss, RightCode, TakeCode, MarkUsed, At
<1>10. ~AccountStep(w)
  BY <1>1 DEF AccountStep, GetPending, DropPending, FindUser, Activate, ChooseId, InsertUser, At
<1> QED
  BY <1>2, <1>3, <1>4, <1>5, <1>6, <1>7, <1>8, <1>9, <1>10 DEF Serves, SendStep

LEMMA ServesEarly ==
  ASSUME TypeInv, UnverifiedInv, NEW w \in Workers, Serves(w), NEW p \in Phones, Fresh(p)'
  PROVE  EarlyOn(p)'
<1>1. Fresh(p) /\ user'[p] = user[p] /\ EarlyOn(p)
  BY FreshBefore DEF UnverifiedInv
<1>2. Moves(w) /\ Busy(w)
  BY MovesAre
<1>3. p \notin pending'
  <2>1. ASSUME SetPending(w), P(w) = p PROVE FALSE
    BY <1>1, <2>1, TurnsAre, KindsOf DEF EarlyOn
  <2> QED
    BY <1>1, <2>1, PendingIs DEF EarlyOn
<1>4. ASSUME NEW v \in Workers, req'[v] # Idle, req'[v].ident[1] = p, req'[v].kind = "register"
      PROVE  req'[v].pc \in {"rate", "collect"} \/ (req'[v].pc = "delete" /\ req'[v].n = user'[p].pk)
  <2>1. CASE v # w
    BY <1>1, <1>2, <1>4, <2>1 DEF Moves, OthersStill, Still, EarlyOn, Busy, P
  <2>2. CASE v = w
    <3>1. req[w].kind = "register" /\ P(w) = p
      BY <1>2, <1>4, <2>2 DEF Moves
    <3>2. req[w].pc \in {"rate", "collect"} \/ (req[w].pc = "delete" /\ req[w].n = user[p].pk)
      BY <1>1, <1>2, <3>1 DEF EarlyOn
    <3>3. CASE DeleteCollected(w)
      <4>1. user'[p] = NoUser
        BY <1>1, <3>1, <3>2, <3>3, DeletesRow, DeleteCollectedIs DEF At
      <4> QED
        BY <4>1 DEF Fresh
    <3> QED
      BY <1>1, <1>4, <2>2, <3>1, <3>2, <3>3, RegisterTurns
  <2> QED
    BY <2>1, <2>2
<1> QED
  BY <1>3, <1>4 DEF EarlyOn, Busy, P

LEMMA ServesDeletes ==
  ASSUME TypeInv, UnverifiedInv, NEW w \in Workers, Serves(w), NEW v \in Workers
  PROVE  DeletesRight(v)'
<1> SUFFICES ASSUME req'[v] # Idle, req'[v].pc = "delete"
             PROVE  /\ req'[v].n <= rows'[req'[v].ident[1]]
                    /\ ~req'[v].overtaken /\ user'[req'[v].ident[1]].pk = req'[v].n
                         => ~user'[req'[v].ident[1]].verified
  BY DEF DeletesRight, At, Busy, P
<1>1. Moves(w) /\ Busy(w)
  BY MovesAre
<1>2. CASE v = w
  <2>1. TypeInv'
    BY TypeStep DEF Serves, Next
  <2>2. req[w].kind = "register"
    <3>1. "delete" \in Stage(req'[w].kind) /\ req'[w].kind \in Kinds
      BY <1>2, <2>1 DEF TypeInv, TypeOK, Busy, Formed, Request
    <3> QED
      BY <1>1, <1>2, <3>1, KindAt DEF Moves
  <2>3. Collect(w) /\ req'[w].n = user[P(w)].pk /\ ~user[P(w)].verified
    BY <1>2, <2>2, RegisterTurns
  <2>4. UNCHANGED <<user, rows>> /\ req'[w].ident[1] = P(w) /\ P(w) \in Phones
    BY <1>1, <1>2, <2>3, RequestIs DEF Moves, Collect, people
  <2> QED
    BY <1>2, <2>3, <2>4 DEF TypeInv, RowsCounted
<1>3. CASE v # w
  <2> DEFINE p == P(v)
  <2>1. /\ At(v, "delete") /\ req'[v].n = req[v].n /\ req'[v].ident[1] = p
        /\ (req[v].overtaken => req'[v].overtaken)
    BY <1>1, <1>3 DEF Moves, OthersStill, Still, At, Busy, P
  <2>2. /\ req[v].n <= rows[p] /\ req[v].n \in Nat /\ p \in Phones
        /\ ~req[v].overtaken /\ user[p].pk = req[v].n => ~user[p].verified
    BY <2>1, KindsOf, RequestIs DEF UnverifiedInv, DeletesRight
  <2> HIDE DEF p
  <2>3. CASE user'[p] = user[p] /\ rows'[p] = rows[p]
    BY <2>1, <2>2, <2>3
  <2>4. CASE DeleteCollected(w)
    <3>1. NoUser.verified = FALSE
      BY DEF NoUser
    <3> QED
      BY <2>1, <2>2, <2>4, <3>1, DeletesRow
  <2>5. CASE Activate(w)
    <3>1. CASE p = P(w)
      <4>1. v \in {u \in On(P(w)) : At(u, "delete")}
        BY <2>1, <3>1 DEF On, At, p
      <4>2. req'[v].overtaken
        BY <1>3, <2>5, <4>1, ActivateIs DEF Overtakes, On
      <4> QED
        BY <2>1, <2>2, <2>5, <4>2, ActivatesRow
    <3>2. CASE p # P(w)
      BY <2>1, <2>2, <2>3, <2>5, <3>2, ActivatesRow
    <3> QED
      BY <3>1, <3>2
  <2>6. CASE InsertUser(w) /\ ~Clashes(w)
    <3>1. CASE p = P(w)
      <4>1. /\ user'[p].pk = rows[p] + 1 /\ rows'[p] = rows[p] + 1 /\ rows[p] \in Nat
        BY <2>6, <3>1, InsertsRow
      <4> QED
        BY <2>1, <2>2, <4>1
    <3>2. CASE p # P(w)
      BY <2>2, <2>3, <2>6, <3>2, InsertsRow
    <3> QED
      BY <3>1, <3>2
  <2> QED
    BY <2>2, <2>3, <2>4, <2>5, <2>6, RowsAre
<1> QED
  BY <1>2, <1>3

LEMMA BeginUnverified ==
  ASSUME TypeInv, UnverifiedInv, NEW w \in Workers, NEW kind \in Kinds, NEW p \in Phones,
         NEW code \in Codes, NEW sent \in Channels, Begin(w, kind, p, sent, code)
  PROVE  UnverifiedInv'
<1>0. Begins(w, kind, p, code)
  BY BeginIs
<1>1. /\ ~Busy(w) /\ OthersStill(w) /\ req'[w].pc = FirstPc(kind) /\ req'[w].kind = kind
      /\ \A v \in Workers \ {w} : Busy(v) => req'[v].n = req[v].n /\ req'[v].overtaken = req[v].overtaken
  BY <1>0 DEF Begins
<1>2. FirstPc(kind) # "delete" /\ (kind = "register" => FirstPc(kind) = "rate")
  BY FirstStep DEF FirstPc
<1>3. UNCHANGED people
  BY DEF Begin
<1>4. ASSUME NEW q \in Phones, Fresh(q)' PROVE EarlyOn(q)'
  <2>1. Fresh(q) /\ EarlyOn(q) /\ user'[q] = user[q]
    BY <1>3, <1>4 DEF UnverifiedInv, Fresh, people
  <2>2. ASSUME NEW v \in Workers, req'[v] # Idle, req'[v].ident[1] = q, req'[v].kind = "register"
        PROVE  req'[v].pc \in {"rate", "collect"} \/ (req'[v].pc = "delete" /\ req'[v].n = user'[q].pk)
    <3>1. CASE v = w
      BY <1>1, <1>2, <2>2, <3>1
    <3>2. CASE v # w
      BY <1>1, <2>1, <2>2, <3>2 DEF OthersStill, Still, EarlyOn, Busy, P
    <3> QED
      BY <3>1, <3>2
  <2> QED
    BY <1>3, <2>1, <2>2 DEF EarlyOn, Busy, P, people
<1>5. ASSUME NEW v \in Workers PROVE DeletesRight(v)'
  <2>1. CASE v = w
    BY <1>1, <1>2, <2>1 DEF DeletesRight, At
  <2>2. CASE v # w
    BY <1>1, <1>3, <2>2 DEF UnverifiedInv, DeletesRight, OthersStill, Still, At, Busy, P, people
  <2> QED
    BY <2>1, <2>2
<1> QED
  BY <1>4, <1>5 DEF UnverifiedInv

LEMMA UnverifiedStep == TypeInv /\ UnverifiedInv /\ [Next]_vars => UnverifiedInv'
<1> SUFFICES ASSUME TypeInv, UnverifiedInv, [Next]_vars PROVE UnverifiedInv'
  OBVIOUS
<1>1. ASSUME NEW w \in Workers, Serves(w) PROVE UnverifiedInv'
  BY <1>1, ServesEarly, ServesDeletes DEF UnverifiedInv
<1>2. CASE Event \/ UNCHANGED vars
  <2>1. UNCHANGED <<user, rows, req>> /\ pending' \subseteq pending
    BY <1>2 DEF Event, EvictCode, EvictPending, Expire, vars, people
  <2> QED
    BY <2>1 DEF UnverifiedInv, Fresh, EarlyOn, DeletesRight, At, Busy, P
<1>3. ASSUME NEW b \in Buckets, NewWindow(b) PROVE UnverifiedInv'
  <2>1. UNCHANGED people
    BY <1>3 DEF NewWindow
  <2>2. \A v \in Workers : /\ Still(v)
                           /\ Busy(v) => req'[v].overtaken = req[v].overtaken
                           /\ Busy(v) /\ req[v].pc # "rate" => req'[v].n = req[v].n
    BY <1>3, NewWindowIs DEF At
  <2>3. \A q \in Phones : Fresh(q)' => EarlyOn(q)'
    BY <2>1, <2>2 DEF UnverifiedInv, Fresh, EarlyOn, Still, Busy, P, people
  <2>4. \A v \in Workers : DeletesRight(v)'
    BY <2>1, <2>2 DEF UnverifiedInv, DeletesRight, Still, At, Busy, P, people
  <2> QED
    BY <2>3, <2>4 DEF UnverifiedInv
<1> QED
  BY <1>1, <1>2, <1>3, StepsAre, BeginUnverified

LEMMA UnverifiedInit == Init => UnverifiedInv
BY DEF Init, UnverifiedInv, EarlyOn, DeletesRight, At, Busy

LEMMA VerifiedStep ==
  ASSUME TypeInv, UnverifiedInv, [Next]_vars, NEW p \in Phones, user[p].verified
  PROVE  user'[p].verified \/ \E w \in On(p) : At(w, "delete") /\ req[w].overtaken
<1>1. ASSUME NEW w \in Workers, Serves(w)
      PROVE  user'[p].verified \/ \E v \in On(p) : At(v, "delete") /\ req[v].overtaken
  <2>1. CASE user'[p] = user[p]
    BY <2>1
  <2>2. CASE DeleteCollected(w)
    <3>1. At(w, "delete") /\ Busy(w)
      BY <2>2, DeleteCollectedIs
    <3>2. CASE p = P(w) /\ user[p].pk = req[w].n
      BY <3>1, <3>2 DEF UnverifiedInv, DeletesRight, On
    <3> QED
      BY <2>1, <2>2, <3>2, DeletesRow
  <2>3. CASE Activate(w)
    BY <2>1, <2>3, ActivatesRow
  <2>4. CASE InsertUser(w) /\ ~Clashes(w)
    <3>1. CASE p = P(w)
      BY <2>4, <3>1, InsertsRow
    <3>2. CASE p # P(w)
      BY <2>1, <2>4, <3>2, InsertsRow
    <3> QED
      BY <3>1, <3>2
  <2> QED
    BY <1>1, <2>1, <2>2, <2>3, <2>4, RowsAre
<1>2. CASE \A w \in Workers : ~Serves(w)
  <2>1. CASE \E w \in Workers, kind \in Kinds, q \in Phones, sent \in Channels, code \in Codes :
              Begin(w, kind, q, sent, code)
    BY <2>1 DEF Begin, people
  <2>2. CASE \E b \in Buckets : NewWindow(b)
    BY <2>2 DEF NewWindow, people
  <2>3. CASE Event \/ UNCHANGED vars
    BY <2>3 DEF Event, EvictCode, EvictPending, Expire, vars, people
  <2> QED
    BY <1>2, <2>1, <2>2, <2>3, StepsAre
<1> QED
  BY <1>1, <1>2

\* A verified account goes only when it was verified between the lookup of a signup and
\* its delete (RegisterView).
THEOREM VerifiedAccountsStay == Spec => VerifiedStays
<1>1. TypeInv /\ UnverifiedInv /\ [Next]_vars =>
        [\A p \in Phones : user[p].verified =>
           user'[p].verified \/ \E w \in On(p) : At(w, "delete") /\ req[w].overtaken]_vars
  BY VerifiedStep
<1> QED
  BY <1>1, TypeInit, TypeStep, UnverifiedInit, UnverifiedStep, PTL DEF Spec, VerifiedStays

----------------------------------------------------------------------------
(* Codes, where no requests have met.                                        *)

\* The row counts every wrong answer to the newest code, and the cache says the same.
Sound(i) ==
  /\ record[i].attempts = tries[i] /\ record[i].code = issued[i]
  /\ cache[i] \in {NoCode, record[i]} /\ tries[i] <= AttemptLimit

Newest(i) == accepted[i].code = issued[i] /\ issued[i] # 0

\* An identifier at rest: the newest code was not accepted yet, or is used up.
Peace(i) ==
  /\ Sound(i)
  /\ accepted[i].code < issued[i] \/ issued[i] = 0 \/ (i \in used /\ cache[i] = NoCode)

\* A code is on its way into the row.
Sending(i, code) ==
  /\ tries[i] = 0 /\ issued[i] = code /\ accepted[i].code < issued[i]
  /\ cache[i] \in {NoCode, [code |-> code, attempts |-> 0]}

\* A wrong answer was compared with payload got, and the row does not count it yet.
Missing(i, got) ==
  /\ record[i] = got /\ got.code = issued[i] /\ accepted[i].code < issued[i]
  /\ tries[i] = got.attempts + 1 /\ tries[i] <= AttemptLimit

Storing == {"wipe", "record"}
Calm == {"rate", "collect", "delete", "pend", "cache",
         "pop", "unpend", "user", "activate", "id", "insert"}

\* What request w, at its step, makes of identifier i.
Fits(w, i) ==
  /\ req[w].pc \in Storing => Sending(i, req[w].code)
  /\ req[w].pc = "compare" =>
       /\ Peace(i)
       /\ req[w].cached => req[w].got = record[i] /\ accepted[i].code < issued[i]
       /\ ~req[w].cached => cache[i] = NoCode
  /\ req[w].pc = "miss" => Missing(i, req[w].got) /\ cache[i] \in {NoCode, req[w].got}
  /\ req[w].pc = "count" =>
       Missing(i, req[w].got) /\ cache[i] \in {NoCode, [req[w].got EXCEPT !.attempts = @ + 1]}
  /\ req[w].pc = "take" => Sound(i) /\ Newest(i)
  /\ req[w].pc = "mark" => Sound(i) /\ Newest(i) /\ cache[i] = NoCode
  /\ req[w].pc \in Calm => Peace(i) /\ (req[w].kind \in Verifies => Newest(i))

OnIdent(w, i) == Busy(w) /\ I(w) = i
Trusted(w, i) == i \notin muddled \/ (req[w].solo /\ req[w].pc \in Storing)

CodeInv ==
  /\ \A w \in Workers, i \in Idents : OnIdent(w, i) /\ Trusted(w, i) => Fits(w, i)
  /\ \A i \in Idents \ muddled : (\A w \in Workers : ~OnIdent(w, i)) => Peace(i)

\* The codes of i are what they were, or the cache has lost one.
CodeSame(i) ==
  /\ cache'[i] \in {cache[i], NoCode} /\ record'[i] = record[i] /\ issued'[i] = issued[i]
  /\ tries'[i] = tries[i] /\ accepted'[i] = accepted[i] /\ (i \in used' <=> i \in used)

LEMMA StateKept ==
  ASSUME NEW i \in Idents, CodeSame(i)
  PROVE  /\ Sound(i) => Sound(i)'
         /\ Peace(i) => Peace(i)'
         /\ Newest(i) => Newest(i)'
         /\ \A c : Sending(i, c) => Sending(i, c)'
         /\ \A g : Missing(i, g) => Missing(i, g)'
<1>1. Sound(i) => Sound(i)'
  BY DEF CodeSame, Sound
<1>2. Peace(i) => Peace(i)'
  BY <1>1 DEF CodeSame, Peace
<1>3. Newest(i) => Newest(i)'
  BY DEF CodeSame, Newest
<1>4. ASSUME NEW c PROVE Sending(i, c) => Sending(i, c)'
  BY DEF CodeSame, Sending
<1>5. ASSUME NEW g PROVE Missing(i, g) => Missing(i, g)'
  BY DEF CodeSame, Missing
<1> QED
  BY <1>1, <1>2, <1>3, <1>4, <1>5

LEMMA FitsKept ==
  ASSUME NEW w \in Workers, NEW i \in Idents, CodeSame(i), Fits(w, i),
         req'[w].pc = req[w].pc, req'[w].kind = req[w].kind, req'[w].code = req[w].code,
         req'[w].got = req[w].got, req'[w].cached = req[w].cached
  PROVE  Fits(w, i)'
<1>1. CASE req[w].pc \in Storing
  <2>1. Sending(i, req[w].code)
    BY <1>1 DEF Fits
  <2>2. Sending(i, req[w].code)'
    BY <2>1, StateKept DEF Sending, CodeSame
  <2> QED
    BY <1>1, <2>2 DEF Fits, Storing, Calm
<1>2. CASE req[w].pc = "compare"
  <2>1. Peace(i)'
    BY <1>2, StateKept DEF Fits
  <2> QED
    BY <1>2, <2>1 DEF Fits, Storing, Calm, CodeSame
<1>3. CASE req[w].pc \in {"miss", "count"}
  <2>1. Missing(i, req[w].got)
    BY <1>3 DEF Fits
  <2>2. Missing(i, req[w].got)'
    BY <2>1 DEF Missing, CodeSame
  <2> QED
    BY <1>3, <2>2 DEF Fits, Storing, Calm, CodeSame
<1>4. CASE req[w].pc \in {"take", "mark"}
  BY <1>4, StateKept DEF Fits, Storing, Calm, CodeSame
<1>5. CASE req[w].pc \in Calm
  BY <1>5, StateKept DEF Fits, Storing, Calm
<1>6. CASE req[w].pc \notin Storing \cup {"compare", "miss", "count", "take", "mark"} \cup Calm
  BY <1>6 DEF Fits
<1> QED
  BY <1>1, <1>2, <1>3, <1>4, <1>5, <1>6

\* What a request does to the codes of its identifier is all it does to codes.
LEMMA CodeLocal ==
  ASSUME TypeInv, SoloInv, CodeInv, NEW w \in Workers, Moves(w), NEW i \in Idents, i = I(w),
         \A j \in Idents : j # i => CodeSame(j) /\ (j \in muddled => j \in muddled'),
         i \in muddled /\ i \notin muddled' => req[w].solo,
         \A j \in Idents : OnIdent(w, j)' /\ Trusted(w, j)' => Fits(w, j)',
         i \notin muddled' /\ ~OnIdent(w, i)' => Peace(i)'
  PROVE  CodeInv'
<1>1. Busy(w) /\ OnIdent(w, i) /\ I(w) \in Both(P(w))
  BY RequestIs DEF Moves, OnIdent
<1>2. ASSUME NEW v \in Workers, v # w, NEW j \in Idents, OnIdent(v, j)', Trusted(v, j)'
      PROVE  Fits(v, j)'
  <2>1. /\ Busy(v) /\ I(v) = j /\ req'[v].solo = req[v].solo /\ req'[v].pc = req[v].pc
        /\ req'[v].kind = req[v].kind /\ req'[v].code = req[v].code
        /\ req'[v].got = req[v].got /\ req'[v].cached = req[v].cached
    BY <1>2 DEF Moves, OthersStill, Still, OnIdent, Busy, I
  <2>2. j # i
    <3> SUFFICES ASSUME j = i PROVE FALSE
      OBVIOUS
    <3>1. P(v) = P(w)
      BY <2>1 DEF I, P
    <3>2. ~req[v].solo /\ ~req[w].solo
      BY <1>1, <1>2, <2>1, <3>1 DEF SoloInv, Alone
    <3>3. i \in muddled
      BY <1>1, <3>2 DEF SoloInv
    <3> QED
      BY <1>2, <2>1, <3>2, <3>3 DEF Trusted
  <2>3. Trusted(v, j) /\ OnIdent(v, j)
    BY <1>2, <2>1, <2>2 DEF Trusted, OnIdent
  <2> QED
    BY <2>1, <2>2, <2>3, FitsKept DEF CodeInv
<1>3. ASSUME NEW j \in Idents, j \notin muddled', \A v \in Workers : ~OnIdent(v, j)'
      PROVE  Peace(j)'
  <2>1. CASE j = i
    BY <1>3, <2>1
  <2>2. CASE j # i
    <3>1. \A v \in Workers : ~OnIdent(v, j)
      BY <1>3, <2>2 DEF Moves, OthersStill, Still, OnIdent, Busy, I
    <3> QED
      BY <1>3, <2>2, <3>1, StateKept DEF CodeInv
  <2> QED
    BY <2>1, <2>2
<1> QED
  BY <1>2, <1>3 DEF CodeInv

\* What the invariant says of the request whose step it is.
LEMMA FitsNow ==
  ASSUME TypeInv, CodeInv, NEW w \in Workers, NEW i \in Idents, i = I(w), Busy(w),
         i \notin muddled \/ (req[w].solo /\ req[w].pc \in Storing)
  PROVE  Fits(w, i)
BY DEF CodeInv, OnIdent, Trusted

CodesStill == \A j \in Idents : CodeSame(j)

LEMMA CodesStillIs ==
  UNCHANGED <<store, issued, answers>> => CodesStill
BY DEF store, answers, CodesStill, CodeSame

\* Steps before a code is sent, and after one is accepted.
LEMMA CalmStep ==
  ASSUME TypeInv, SoloInv, CodeInv, NEW w \in Workers, Moves(w), UNCHANGED <<store, issued, answers>>,
         muddled \subseteq muddled', req[w].pc \in Calm,
         req'[w] # Idle => req'[w].ident = I(w) /\ req'[w].pc \in Calm
  PROVE  CodeInv'
<1>1. CodesStill /\ Busy(w) /\ I(w) \in Idents
  BY CodesStillIs, RequestIs DEF Moves
<1>i. PICK i \in Idents : i = I(w)
  BY <1>1
<1>2. i \notin muddled => Peace(i) /\ (req[w].kind \in Verifies => Newest(i))
  BY <1>1, <1>i, FitsNow DEF Fits
<1>3. i \notin muddled => Peace(i)' /\ (req[w].kind \in Verifies => Newest(i)')
  BY <1>1, <1>2, <1>i, StateKept DEF CodesStill
<1>4. ASSUME NEW j \in Idents, OnIdent(w, j)', Trusted(w, j)' PROVE Fits(w, j)'
  <2>1. j = i /\ req'[w].pc \in Calm /\ req'[w].kind = req[w].kind
    BY <1>4, <1>i DEF Moves, OnIdent, Busy, I
  <2>2. j \notin muddled
    BY <1>4, <2>1 DEF Trusted, Storing, Calm
  <2> QED
    BY <1>3, <2>1, <2>2 DEF Fits, Storing, Calm
<1>5. i \notin muddled' /\ ~OnIdent(w, i)' => Peace(i)'
  BY <1>3
<1> QED
  BY <1>1, <1>i, <1>4, <1>5, CodeLocal DEF CodesStill

LEMMA FirstLook ==
  ASSUME TypeInv, NEW i \in Idents, Peace(i), cache[i] # NoCode
  PROVE  cache[i] = record[i] /\ accepted[i].code < issued[i]
<1>1. cache[i].code # 0
  BY DEF TypeInv, CodesSent
<1> QED
  BY <1>1 DEF Peace, Sound

LEMMA NextTryFits ==
  ASSUME TypeInv, SoloInv, CodeInv, NEW w \in Workers, Busy(w), NEW i \in Idents, i = I(w),
         NextTry(w), UNCHANGED muddled, \A j \in Idents : j # i => CodeSame(j)
  PROVE  \A j \in Idents : OnIdent(w, j)' /\ Trusted(w, j)' => Fits(w, j)'
<1>1. CASE Ends(w)
  BY <1>1 DEF Ends, OnIdent, Busy
<1>2. CASE Retries(w)
  <2> SUFFICES ASSUME NEW j \in Idents, OnIdent(w, j)', Trusted(w, j)' PROVE Fits(w, j)'
    OBVIOUS
  <2>1. /\ req'[w].pc = "compare" /\ I(w)[2] = "phone" /\ j = <<P(w), "mobile">>
        /\ req'[w].got = cache[j] /\ req'[w].cached = (cache[j] # NoCode)
    BY <1>2 DEF Retries, Turns, OnIdent, I
  <2>2. j \in Both(P(w)) /\ j # i
    BY <2>1 DEF Both
  <2>3. j \notin muddled
    BY <2>1 DEF Trusted, Storing
  <2>4. \A v \in Workers : ~OnIdent(v, j)
    <3>1. Alone(w)
      BY <2>2, <2>3 DEF SoloInv
    <3>2. \A v \in Workers : OnIdent(v, j) => P(v) = P(w)
      BY <2>1 DEF OnIdent, I, P
    <3> QED
      BY <2>2, <3>1, <3>2 DEF Alone, OnIdent
  <2>5. Peace(j) /\ CodeSame(j)
    BY <2>2, <2>3, <2>4 DEF CodeInv
  <2>6. Peace(j)'
    BY <2>5, StateKept
  <2>7. req'[w].cached => req'[w].got = record'[j] /\ accepted'[j].code < issued'[j]
    BY <2>1, <2>5, FirstLook DEF CodeSame
  <2>8. ~req'[w].cached => cache'[j] = NoCode
    BY <2>1, <2>5 DEF CodeSame
  <2> QED
    BY <2>1, <2>6, <2>7, <2>8 DEF Fits, Storing, Calm
<1> QED
  BY <1>1, <1>2, NextTryIs

\* What the comparison finds, where no requests have met.
LEMMA Comparing ==
  ASSUME TypeInv, CodeInv, NEW w \in Workers, NEW i \in Idents, i = I(w), i \notin muddled,
         At(w, "compare"), ~Spent(w)
  PROVE  /\ Peace(i) /\ Held(w) = record[i] /\ record[i].code = issued[i] /\ issued[i] # 0
         /\ accepted[i].code < issued[i] /\ issued[i] > dead[i]
         /\ tries[i] = Held(w).attempts /\ tries[i] < AttemptLimit
         /\ (~req[w].cached => cache[i] = NoCode)
<1>1. /\ Peace(i)
      /\ req[w].cached => req[w].got = record[i] /\ accepted[i].code < issued[i]
      /\ ~req[w].cached => cache[i] = NoCode
  BY FitsNow DEF Fits, At
<1>2. /\ ~RowBars(w) /\ ~(Held(w).attempts >= AttemptLimit) /\ ~(Held(w).code <= dead[i])
  BY DEF Spent
<1>3. Held(w) = record[i]
  BY <1>1, HeldIs
<1>4. /\ record[i].attempts = tries[i] /\ record[i].code = issued[i] /\ tries[i] \in Nat
      /\ issued[i] \in Nat /\ dead[i] \in Nat /\ AttemptLimit \in Nat
  BY <1>1, AccountsAssumption DEF Peace, Sound, TypeInv, TypeOK, Codes
<1>5. issued[i] # 0 /\ issued[i] > dead[i] /\ tries[i] < AttemptLimit
  BY <1>2, <1>3, <1>4
<1>6. accepted[i].code < issued[i]
  <2>1. CASE req[w].cached
    BY <1>1, <2>1
  <2>2. CASE ~req[w].cached
    BY <1>1, <1>2, <1>5, <2>2 DEF RowBars, Peace
  <2> QED
    BY <2>1, <2>2
<1> QED
  BY <1>1, <1>3, <1>4, <1>5, <1>6

\* A step of w at identifier i that goes on with it, or ends.
LEMMA CodeTurn ==
  ASSUME TypeInv, SoloInv, CodeInv, NEW w \in Workers, Serves(w), NEW i \in Idents, i = I(w),
         UNCHANGED muddled, \A j \in Idents : j # i => CodeSame(j),
         req'[w] # Idle, req'[w].ident = i, Trusted(w, i)' => Fits(w, i)'
  PROVE  CodeInv'
<1>1. Moves(w)
  BY MovesAre
<1>2. \A j \in Idents : OnIdent(w, j)' /\ Trusted(w, j)' => Fits(w, j)'
  BY DEF OnIdent, I
<1>3. OnIdent(w, i)'
  BY DEF OnIdent, I, Busy
<1> QED
  BY <1>1, <1>2, <1>3, CodeLocal

LEMMA CacheCodeCodes ==
  ASSUME TypeInv, SoloInv, CodeInv, NEW w \in Workers, CacheCode(w)
  PROVE  CodeInv'
<1>1. /\ Serves(w) /\ Turns(w, "wipe") /\ SameIdent(w) /\ I(w) \in Idents
      /\ req'[w].code = issued[I(w)] + 1
  BY CacheCodeIs, RequestIs DEF Serves, SendStep
<1>i. PICK i \in Idents : i = I(w)
  BY <1>1
<1> DEFINE c == issued[i] + 1
           q == [code |-> c, attempts |-> 0]
<1>2. /\ issued' = [issued EXCEPT ![i] = c] /\ cache' = [cache EXCEPT ![i] = q]
      /\ tries' = [tries EXCEPT ![i] = 0]
      /\ UNCHANGED <<record, used, people, window, dead, mix, muddled, accepted>>
  BY <1>i DEF CacheCode
<1>3. /\ issued \in [Idents -> Codes] /\ cache \in [Idents -> Payload] /\ tries \in [Idents -> Nat]
      /\ accepted[i].code <= issued[i] /\ accepted[i].code \in Nat /\ issued[i] \in Nat
  BY DEF TypeInv, TypeOK, CodesSent, Codes
<1>4. \A j \in Idents : j # i => CodeSame(j)
  BY <1>2, <1>3 DEF CodeSame
<1>5. issued'[i] = c /\ cache'[i] = q /\ tries'[i] = 0 /\ accepted'[i] = accepted[i]
      /\ accepted[i].code < c
  BY <1>2, <1>3
<1>6. req'[w].code = issued'[i] /\ cache'[i] = [code |-> issued'[i], attempts |-> 0]
  BY <1>1, <1>i, <1>5
<1> HIDE DEF c, q
<1>7. Sending(i, req[w].code)'
  BY <1>5, <1>6 DEF Sending
<1>8. Fits(w, i)'
  BY <1>1, <1>7 DEF Fits, Storing, Calm, Turns
<1> QED
  BY <1>1, <1>i, <1>2, <1>4, <1>8, CodeTurn DEF Turns, SameIdent, I

LEMMA WipeRecordCodes ==
  ASSUME TypeInv, SoloInv, CodeInv, NEW w \in Workers, WipeRecord(w)
  PROVE  CodeInv'
<1>1. /\ Serves(w) /\ Turns(w, "record") /\ SameIdent(w) /\ I(w) \in Idents /\ SameCode(w)
      /\ At(w, "wipe") /\ Busy(w)
  <2>1. "record" \in Pcs
    BY DEF Pcs
  <2> QED
    BY <2>1, TurnsAre, GoTurns, RequestIs DEF Serves, SendStep
<1>i. PICK i \in Idents : i = I(w)
  BY <1>1
<1>2. /\ record' = [record EXCEPT ![i] = NoCode] /\ used' = used \ {i}
      /\ UNCHANGED <<cache, people, window, issued, dead, mix, muddled, answers>>
  BY <1>i DEF WipeRecord
<1>3. \A j \in Idents : j # i => CodeSame(j)
  BY <1>2 DEF CodeSame, answers, TypeInv, TypeOK
<1>4. Trusted(w, i)' => Sending(i, req[w].code)
  <2>1. req[w].pc \in Storing
    BY <1>1 DEF At, Storing
  <2> QED
    BY <1>1, <1>2, <1>i, <2>1, FitsNow DEF Fits, Trusted, Turns
<1>5. Sending(i, req[w].code) => Sending(i, req[w].code)'
  BY <1>1, <1>2 DEF Sending, SameCode, answers
<1>6. Trusted(w, i)' => Fits(w, i)'
  BY <1>1, <1>4, <1>5 DEF Fits, Storing, Calm, Turns
<1> QED
  BY <1>1, <1>i, <1>2, <1>3, <1>6, CodeTurn DEF Turns, SameIdent, I

LEMMA InsertRecordCodes ==
  ASSUME TypeInv, SoloInv, CodeInv, NEW w \in Workers, InsertRecord(w)
  PROVE  CodeInv'
<1>1. Moves(w) /\ At(w, "record") /\ Busy(w) /\ I(w) \in Idents /\ req'[w] = Idle
  BY SendMoves, TurnsAre, DoneIs, RequestIs DEF SendStep, At
<1>i. PICK i \in Idents : i = I(w)
  BY <1>1
<1> DEFINE q == [code |-> req[w].code, attempts |-> 0]
<1>2. /\ record' = [record EXCEPT ![i] = q] /\ used' = used \ {i}
      /\ UNCHANGED <<cache, people, window, issued, dead, mix, answers>>
      /\ muddled' = IF req[w].solo THEN muddled \ {i} ELSE muddled
  BY <1>i DEF InsertRecord
<1>3. record \in [Idents -> Payload] /\ AttemptLimit \in Nat
  BY AccountsAssumption DEF TypeInv, TypeOK
<1>4. \A j \in Idents : j # i => CodeSame(j) /\ (j \in muddled => j \in muddled')
  BY <1>2, <1>3 DEF CodeSame, answers
<1>5. ASSUME i \notin muddled' PROVE Peace(i)'
  <2>1. Sending(i, req[w].code)
    <3>1. req[w].pc \in Storing
      BY <1>1 DEF At, Storing
    <3> QED
      BY <1>1, <1>2, <1>5, <1>i, <3>1, FitsNow DEF Fits
  <2>2. record'[i] = q /\ q.code = req[w].code /\ q.attempts = 0
    BY <1>2, <1>3
  <2>3. cache'[i] = NoCode \/ cache'[i] = q
    BY <1>2, <2>1 DEF Sending
  <2> HIDE DEF q
  <2>4. Sound(i)'
    BY <1>2, <1>3, <2>1, <2>2, <2>3 DEF Sending, Sound, answers
  <2> QED
    BY <1>2, <2>1, <2>4 DEF Sending, Peace, answers
<1>6. \A j \in Idents : ~OnIdent(w, j)'
  BY <1>1 DEF OnIdent, Busy
<1>7. i \in muddled /\ i \notin muddled' => req[w].solo
  BY <1>2
<1> HIDE DEF q
<1> QED
  BY <1>1, <1>i, <1>4, <1>5, <1>6, <1>7, CodeLocal

LEMMA RejectCodes ==
  ASSUME TypeInv, SoloInv, CodeInv, NEW w \in Workers, Reject(w)
  PROVE  CodeInv'
<1>1. Moves(w) /\ At(w, "compare") /\ NextTry(w) /\ Busy(w) /\ I(w) \in Idents
  BY VerifyMoves, TurnsAre, RequestIs DEF VerifyStep, At
<1>i. PICK i \in Idents : i = I(w)
  BY <1>1
<1>2. /\ cache' \in {cache, [cache EXCEPT ![i] = NoCode]}
      /\ UNCHANGED <<record, used, issued, muddled, answers>>
  BY <1>i DEF Reject
<1>3. \A j \in Idents : CodeSame(j)
  BY <1>2 DEF CodeSame, answers, TypeInv, TypeOK
<1>4. i \notin muddled => Peace(i)'
  BY <1>1, <1>i, <1>3, FitsNow, StateKept DEF Fits, At
<1>5. \A j \in Idents : OnIdent(w, j)' /\ Trusted(w, j)' => Fits(w, j)'
  BY <1>1, <1>2, <1>3, <1>i, NextTryFits
<1> QED
  BY <1>1, <1>i, <1>2, <1>3, <1>4, <1>5, CodeLocal

LEMMA CountMissCodes ==
  ASSUME TypeInv, SoloInv, CodeInv, NEW w \in Workers, CountMiss(w)
  PROVE  CodeInv'
<1>1. Moves(w) /\ At(w, "count") /\ NextTry(w) /\ Busy(w) /\ I(w) \in Idents /\ req[w].got \in Payload
  BY VerifyMoves, TurnsAre, RequestIs DEF VerifyStep, At
<1>i. PICK i \in Idents : i = I(w)
  BY <1>1
<1> DEFINE n == req[w].got.attempts + 1
<1>2. /\ record' = IF record[i] = NoCode THEN record ELSE [record EXCEPT ![i].attempts = n]
      /\ UNCHANGED <<cache, used, issued, muddled, answers>>
  BY <1>i DEF CountMiss
<1>3. record \in [Idents -> Payload]
  BY DEF TypeInv, TypeOK
<1>4. \A j \in Idents : j # i => CodeSame(j)
  BY <1>2, <1>3 DEF CodeSame, answers
<1>5. ASSUME i \notin muddled PROVE Peace(i)'
  <2>1. Missing(i, req[w].got) /\ cache[i] \in {NoCode, [req[w].got EXCEPT !.attempts = n]}
    BY <1>1, <1>5, <1>i, FitsNow DEF Fits, At
  <2>2. record[i] # NoCode /\ record[i] = req[w].got
    <3>1. accepted[i].code \in Nat /\ issued[i] \in Nat /\ accepted[i].code < issued[i]
      BY <2>1 DEF TypeInv, TypeOK, Codes, Missing
    <3> QED
      BY <2>1, <3>1, NoCodeIs DEF Missing
  <2> DEFINE q == [record[i] EXCEPT !.attempts = n]
  <2>3. record'[i] = q /\ (cache'[i] = NoCode \/ cache'[i] = q)
    BY <1>2, <1>3, <2>1, <2>2
  <2>4. q.code = req[w].got.code /\ q.attempts = req[w].got.attempts + 1
    BY <1>1, <2>2 DEF Payload
  <2> HIDE DEF q, n
  <2>5. Sound(i)'
    BY <1>2, <2>1, <2>3, <2>4 DEF Missing, Sound, answers
  <2> QED
    BY <1>2, <2>1, <2>5 DEF Missing, Peace, answers
<1>6. \A j \in Idents : OnIdent(w, j)' /\ Trusted(w, j)' => Fits(w, j)'
  BY <1>1, <1>2, <1>4, <1>i, NextTryFits
<1> HIDE DEF n
<1> QED
  BY <1>1, <1>i, <1>2, <1>4, <1>5, <1>6, CodeLocal

LEMMA WrongCodeCodes ==
  ASSUME TypeInv, SoloInv, CodeInv, NEW w \in Workers, WrongCode(w)
  PROVE  CodeInv'
<1>1. /\ Serves(w) /\ At(w, "compare") /\ Turns(w, IF req[w].cached THEN "miss" ELSE "count")
      /\ SameIdent(w) /\ req'[w].got = Held(w) /\ I(w) \in Idents /\ ~Spent(w)
  BY WrongCodeIs, RequestIs DEF Serves, VerifyStep, WrongCode
<1>i. PICK i \in Idents : i = I(w)
  BY <1>1
<1>2. /\ tries' = [tries EXCEPT ![i] = Min({tries[i] + 1, AttemptLimit + 1})]
      /\ UNCHANGED <<store, issued, muddled, accepted>>
  BY <1>i DEF WrongCode
<1>3. tries \in [Idents -> Nat] /\ tries[i] \in Nat /\ AttemptLimit \in Nat
  BY AccountsAssumption DEF TypeInv, TypeOK
<1>4. \A j \in Idents : j # i => CodeSame(j)
  BY <1>2, <1>3 DEF CodeSame, store
<1>5. ASSUME i \notin muddled PROVE Fits(w, i)'
  <2>1. /\ Peace(i) /\ Held(w) = record[i] /\ record[i].code = issued[i]
        /\ accepted[i].code < issued[i] /\ tries[i] = Held(w).attempts /\ tries[i] < AttemptLimit
        /\ (~req[w].cached => cache[i] = NoCode)
    BY <1>1, <1>5, <1>i, Comparing
  <2>2. tries'[i] = tries[i] + 1
    <3>1. tries[i] + 1 \in Nat /\ AttemptLimit + 1 \in Nat /\ tries[i] + 1 <= AttemptLimit + 1
      BY <1>3, <2>1
    <3>2. Min({tries[i] + 1, AttemptLimit + 1}) = tries[i] + 1
      BY <3>1, LesserIs
    <3> QED
      BY <1>2, <1>3, <3>2
  <2>3. Missing(i, req[w].got)'
    BY <1>1, <1>2, <1>3, <2>1, <2>2 DEF Missing, store
  <2>4. cache'[i] = NoCode \/ cache'[i] = req'[w].got
    BY <1>1, <1>2, <2>1 DEF Peace, Sound, store
  <2>5. CASE req[w].cached
    BY <1>1, <2>3, <2>4, <2>5 DEF Fits, Storing, Calm, Turns
  <2>6. CASE ~req[w].cached
    <3>1. cache'[i] = NoCode
      BY <1>2, <2>1, <2>6 DEF store
    <3> QED
      BY <1>1, <2>3, <2>6, <3>1 DEF Fits, Storing, Calm, Turns
  <2> QED
    BY <2>5, <2>6
<1>6. Trusted(w, i)' => i \notin muddled
  BY <1>1, <1>2 DEF Trusted, Turns, Storing
<1>7. req'[w] # Idle /\ req'[w].ident = i
  BY <1>1, <1>i DEF Turns, SameIdent, I
<1> QED
  BY <1>1, <1>i, <1>2, <1>4, <1>5, <1>6, <1>7, CodeTurn

LEMMA CacheMissCodes ==
  ASSUME TypeInv, SoloInv, CodeInv, NEW w \in Workers, CacheMiss(w)
  PROVE  CodeInv'
<1>1. /\ Serves(w) /\ At(w, "miss") /\ Busy(w) /\ Turns(w, "count") /\ SameIdent(w) /\ SameGot(w)
      /\ I(w) \in Idents
  <2>1. "count" \in Pcs
    BY DEF Pcs
  <2> QED
    BY <2>1, TurnsAre, GoTurns, RequestIs DEF Serves, VerifyStep
<1>i. PICK i \in Idents : i = I(w)
  BY <1>1
<1> DEFINE q == [req[w].got EXCEPT !.attempts = @ + 1]
<1>2. cache' = [cache EXCEPT ![i] = q] /\ UNCHANGED <<record, used, issued, muddled, answers>>
  BY <1>i DEF CacheMiss
<1>3. cache \in [Idents -> Payload]
  BY DEF TypeInv, TypeOK
<1>4. \A j \in Idents : j # i => CodeSame(j)
  BY <1>2, <1>3 DEF CodeSame, answers
<1>5. ASSUME i \notin muddled PROVE Fits(w, i)'
  <2>1. Missing(i, req[w].got)
    BY <1>1, <1>5, <1>i, FitsNow DEF Fits, At
  <2>2. Missing(i, req[w].got)'
    BY <1>1, <1>2, <2>1 DEF Missing, SameGot, answers
  <2>3. cache'[i] = [req'[w].got EXCEPT !.attempts = @ + 1]
    BY <1>1, <1>2, <1>3 DEF SameGot
  <2> QED
    BY <1>1, <2>2, <2>3 DEF Fits, Storing, Calm, Turns
<1>6. Trusted(w, i)' => i \notin muddled
  BY <1>1, <1>2 DEF Trusted, Turns, Storing
<1>7. req'[w] # Idle /\ req'[w].ident = i
  BY <1>1, <1>i DEF Turns, SameIdent, I
<1> HIDE DEF q
<1> QED
  BY <1>1, <1>i, <1>2, <1>4, <1>5, <1>6, <1>7, CodeTurn

LEMMA RightCodeCodes ==
  ASSUME TypeInv, SoloInv, CodeInv, NEW w \in Workers, RightCode(w)
  PROVE  CodeInv'
<1>1. /\ Serves(w) /\ At(w, "compare") /\ Busy(w) /\ Turns(w, "take") /\ SameIdent(w)
      /\ I(w) \in Idents /\ ~Spent(w) /\ Held(w).code = req[w].code
  BY RightCodeIs, RequestIs DEF Serves, VerifyStep, RightCode, Matches
<1>i. PICK i \in Idents : i = I(w)
  BY <1>1
<1> DEFINE a == [code |-> req[w].code, times |-> IF accepted[i].code = req[w].code THEN 2 ELSE 1]
<1>2. accepted' = [accepted EXCEPT ![i] = a] /\ UNCHANGED <<store, issued, muddled, tries>>
  BY <1>i DEF RightCode
<1>3. accepted \in [Idents -> [code : Codes, times : 0..2]]
  BY DEF TypeInv, TypeOK
<1>4. \A j \in Idents : j # i => CodeSame(j)
  BY <1>2, <1>3 DEF CodeSame, store
<1>5. ASSUME i \notin muddled PROVE Fits(w, i)'
  <2>1. Peace(i) /\ Held(w) = record[i] /\ record[i].code = issued[i] /\ issued[i] # 0
    BY <1>1, <1>5, <1>i, Comparing
  <2>2. accepted'[i].code = req[w].code
    BY <1>2, <1>3
  <2>3. Newest(i)'
    BY <1>1, <1>2, <2>1, <2>2 DEF Newest
  <2>4. Sound(i)'
    BY <1>2, <2>1 DEF Peace, Sound, store
  <2> QED
    BY <1>1, <2>3, <2>4 DEF Fits, Storing, Calm, Turns
<1>6. Trusted(w, i)' => i \notin muddled
  BY <1>1, <1>2 DEF Trusted, Turns, Storing
<1>7. req'[w] # Idle /\ req'[w].ident = i
  BY <1>1, <1>i DEF Turns, SameIdent, I
<1> HIDE DEF a
<1> QED
  BY <1>1, <1>i, <1>2, <1>4, <1>5, <1>6, <1>7, CodeTurn

LEMMA TakeCodeCodes ==
  ASSUME TypeInv, SoloInv, CodeInv, NEW w \in Workers, TakeCode(w)
  PROVE  CodeInv'
<1>1. /\ Serves(w) /\ At(w, "take") /\ Busy(w) /\ Turns(w, "mark") /\ SameIdent(w) /\ I(w) \in Idents
  BY TurnsAre, TakeTurns DEF Serves, VerifyStep
<1>i. PICK i \in Idents : i = I(w)
  BY <1>1
<1>2. cache' = [cache EXCEPT ![i] = NoCode] /\ UNCHANGED <<record, used, issued, muddled, answers>>
  BY <1>i DEF TakeCode
<1>3. (\A j \in Idents : CodeSame(j)) /\ cache'[i] = NoCode
  BY <1>2 DEF CodeSame, answers, TypeInv, TypeOK
<1>4. ASSUME i \notin muddled PROVE Fits(w, i)'
  <2>1. Sound(i)' /\ Newest(i)'
    BY <1>1, <1>3, <1>4, <1>i, FitsNow, StateKept DEF Fits, At
  <2> QED
    BY <1>1, <1>3, <2>1 DEF Fits, Storing, Calm, Turns
<1>5. Trusted(w, i)' => i \notin muddled
  BY <1>1, <1>2 DEF Trusted, Turns, Storing
<1>6. req'[w] # Idle /\ req'[w].ident = i
  BY <1>1, <1>i DEF Turns, SameIdent, I
<1> QED
  BY <1>1, <1>i, <1>2, <1>3, <1>4, <1>5, <1>6, CodeTurn

LEMMA MarkUsedCodes ==
  ASSUME TypeInv, SoloInv, CodeInv, NEW w \in Workers, MarkUsed(w)
  PROVE  CodeInv'
<1> DEFINE pc == IF req[w].kind = "verify_otp" THEN "pop" ELSE "user"
<1>1. /\ Serves(w) /\ At(w, "mark") /\ Busy(w) /\ Turns(w, pc) /\ SameIdent(w) /\ I(w) \in Idents
  BY TurnsAre, TakeTurns DEF Serves, VerifyStep
<1>c. pc \in {"pop", "user"}
  OBVIOUS
<1> HIDE DEF pc
<1>i. PICK i \in Idents : i = I(w)
  BY <1>1
<1>2. /\ used' = IF record[i] = NoCode THEN used ELSE used \cup {i}
      /\ UNCHANGED <<cache, record, issued, muddled, answers>>
  BY <1>i DEF MarkUsed
<1>3. \A j \in Idents : j # i => CodeSame(j)
  BY <1>2 DEF CodeSame, answers
<1>4. ASSUME i \notin muddled PROVE Fits(w, i)'
  <2>1. Sound(i) /\ Newest(i) /\ cache[i] = NoCode
    BY <1>1, <1>4, <1>i, FitsNow DEF Fits, At
  <2>2. i \in used'
    BY <1>2, <2>1, NoCodeIs DEF Sound, Newest
  <2>3. Sound(i)' /\ Newest(i)'
    BY <1>2, <2>1 DEF Sound, Newest, answers
  <2>4. Peace(i)'
    BY <1>2, <2>1, <2>2, <2>3 DEF Peace
  <2> QED
    BY <1>1, <1>c, <2>3, <2>4 DEF Fits, Storing, Calm, Turns
<1>5. Trusted(w, i)' => i \notin muddled
  BY <1>1, <1>c, <1>2 DEF Trusted, Turns, Storing
<1>6. req'[w] # Idle /\ req'[w].ident = i
  BY <1>1, <1>i DEF Turns, SameIdent, I
<1> QED
  BY <1>1, <1>i, <1>2, <1>3, <1>4, <1>5, <1>6, CodeTurn

\* The steps that leave codes alone.
LEMMA CalmCodes ==
  ASSUME TypeInv, SoloInv, CodeInv, NEW w \in Workers,
         CountRequest(w) \/ Collect(w) \/ DeleteCollected(w) \/ SetPending(w) \/ AccountStep(w)
  PROVE  CodeInv'
<1>1. Serves(w) /\ Moves(w) /\ Busy(w)
  BY MovesAre DEF Serves, SendStep
<1>2. UNCHANGED <<store, issued, answers>> /\ muddled \subseteq muddled'
  BY DEF CountRequest, Collect, DeleteCollected, SetPending, AccountStep, GetPending, DropPending,
     FindUser, Activate, ChooseId, InsertUser
<1> DEFINE Onward == req[w].pc \in Calm /\ (req'[w] # Idle => req'[w].ident = I(w) /\ req'[w].pc \in Calm)
<1>3. ASSUME CountRequest(w) PROVE Onward
  BY <1>3, CountRequestIs DEF Ends, Turns, SameIdent, I, At, Calm
<1>4. ASSUME Collect(w) PROVE Onward
  BY <1>4, CollectIs DEF Ends, Turns, SameIdent, I, At, Calm
<1>5. ASSUME DeleteCollected(w) PROVE Onward
  BY <1>5, DeleteCollectedIs DEF Turns, SameIdent, I, At, Calm
<1>p. {"cache", "unpend", "user", "id"} \subseteq Pcs
  BY DEF Pcs
<1>6. ASSUME SetPending(w) PROVE Onward
  BY <1>p, <1>6, TurnsAre, GoTurns DEF Turns, SameIdent, I, At, Calm
<1>7. ASSUME GetPending(w) PROVE Onward
  <2>1. (IF P(w) \in pending THEN "unpend" ELSE "user") \in Calm \cap Pcs
    BY <1>p DEF Calm
  <2> QED
    BY <1>7, <2>1, TurnsAre, GoTurns DEF Turns, SameIdent, I, At, Calm
<1>8. ASSUME DropPending(w) PROVE Onward
  BY <1>p, <1>8, TurnsAre, GoTurns DEF Turns, SameIdent, I, At, Calm
<1>9. ASSUME FindUser(w) PROVE Onward
  BY <1>9, FindUserIs DEF Ends, Turns, SameIdent, I, At, Calm
<1>10. ASSUME Activate(w) PROVE Onward
  BY <1>10, ActivateIs DEF Overtakes, At, Calm
<1>11. ASSUME ChooseId(w) PROVE Onward
  BY <1>11, NextIdIs, ChooseIdIs DEF Turns, SameIdent, I, At, Calm
<1>12. ASSUME InsertUser(w) PROVE Onward
  BY <1>12, InsertUserIs DEF Ends, Overtakes, At, Calm
<1>13. Onward
  BY <1>3, <1>4, <1>5, <1>6, <1>7, <1>8, <1>9, <1>10, <1>11, <1>12 DEF AccountStep
<1> QED
  BY <1>1, <1>2, <1>13, CalmStep

LEMMA BreakOffCodes ==
  ASSUME TypeInv, SoloInv, CodeInv, NEW w \in Workers, BreakOff(w)
  PROVE  CodeInv'
<1>1. Moves(w) /\ Busy(w) /\ I(w) \in Idents /\ I(w) \in Both(P(w)) /\ req'[w] = Idle
  BY AccountMoves, TurnsAre, DoneIs, RequestIs
<1>i. PICK i \in Idents : i = I(w)
  BY <1>1
<1>2. CodesStill
  BY CodesStillIs DEF BreakOff
<1>3. muddled \subseteq muddled' /\ i \in muddled'
  BY <1>1, <1>i DEF BreakOff
<1>4. \A j \in Idents : ~OnIdent(w, j)'
  BY <1>1 DEF OnIdent, Busy
<1> QED
  BY <1>1, <1>i, <1>2, <1>3, <1>4, CodeLocal DEF CodesStill

LEMMA ServesCodes ==
  ASSUME TypeInv, SoloInv, CodeInv, NEW w \in Workers, Serves(w)
  PROVE  CodeInv'
BY CacheCodeCodes, WipeRecordCodes, InsertRecordCodes, RejectCodes, WrongCodeCodes, CacheMissCodes,
   CountMissCodes, RightCodeCodes, TakeCodeCodes, MarkUsedCodes, CalmCodes, BreakOffCodes
   DEF Serves, SendStep, VerifyStep

LEMMA BeginCodes ==
  ASSUME TypeInv, SoloInv, CodeInv, NEW w \in Workers, NEW kind \in Kinds, NEW p \in Phones,
         NEW code \in Codes, NEW sent \in Channels, Begin(w, kind, p, sent, code)
  PROVE  CodeInv'
<1>0. Begins(w, kind, p, code)
  BY BeginIs
<1>c. Channel(kind, p) \in {"phone", "mobile"}
  BY FirstStep
<1>i. PICK i \in Idents : i = <<p, Channel(kind, p)>>
  BY <1>c DEF Idents
<1>1. /\ ~Busy(w) /\ OthersStill(w) /\ req'[w] # Idle /\ req'[w].ident = i
      /\ req'[w].pc = FirstPc(kind) /\ req'[w].kind = kind
      /\ req'[w].got = IF FirstPc(kind) = "compare" THEN cache[i] ELSE NoCode
      /\ req'[w].cached => cache[i] # NoCode
      /\ FirstPc(kind) = "compare" /\ cache[i] # NoCode => req'[w].cached
  BY <1>0, <1>i DEF Begins
<1>2. muddled' = IF On(p) # {} THEN muddled \cup Both(p) ELSE muddled
  BY DEF Begin
<1>3. \A j \in Idents : CodeSame(j)
  BY CodesStillIs DEF Begin, CodesStill
<1>4. ASSUME NEW v \in Workers, v # w, NEW j \in Idents, OnIdent(v, j)', Trusted(v, j)'
      PROVE  Fits(v, j)'
  <2>1. /\ Busy(v) /\ I(v) = j /\ (req'[v].solo => req[v].solo) /\ req'[v].pc = req[v].pc
        /\ req'[v].kind = req[v].kind /\ req'[v].code = req[v].code
        /\ req'[v].got = req[v].got /\ req'[v].cached = req[v].cached
    BY <1>1, <1>4 DEF OthersStill, Still, OnIdent, Busy, I
  <2>2. Trusted(v, j) /\ OnIdent(v, j)
    BY <1>2, <1>4, <2>1 DEF Trusted, OnIdent
  <2> QED
    BY <1>3, <2>1, <2>2, FitsKept DEF CodeInv
<1>5. ASSUME Trusted(w, i)' PROVE Fits(w, i)'
  <2>1. FirstPc(kind) \notin Storing
    BY FirstStep DEF Storing
  <2>2. i \notin muddled' /\ i \in Both(p)
    BY <1>1, <1>5, <1>c, <1>i, <2>1 DEF Trusted, Both
  <2>3. On(p) = {} /\ i \notin muddled
    BY <1>2, <2>2
  <2>4. \A v \in Workers : ~OnIdent(v, i)
    BY <1>i, <2>3 DEF On, OnIdent, I, P
  <2>5. Peace(i) /\ Peace(i)'
    BY <1>3, <2>3, <2>4, StateKept DEF CodeInv
  <2>6. cache[i] # NoCode => cache[i] = record'[i] /\ accepted'[i].code < issued'[i]
    BY <1>3, <2>5, FirstLook DEF CodeSame
  <2>7. cache[i] = NoCode => cache'[i] = NoCode
    BY <1>3 DEF CodeSame
  <2>8. CASE FirstPc(kind) = "compare"
    BY <1>1, <2>5, <2>6, <2>7, <2>8 DEF Fits, Storing, Calm
  <2>9. CASE FirstPc(kind) # "compare"
    <3>1. FirstPc(kind) \in Calm /\ kind \notin Verifies
      BY <2>9, FirstStep DEF Calm, Sends, Verifies
    <3> QED
      BY <1>1, <2>5, <3>1 DEF Fits, Storing, Calm
  <2> QED
    BY <2>8, <2>9
<1>6. ASSUME NEW j \in Idents, j \notin muddled', \A v \in Workers : ~OnIdent(v, j)'
      PROVE  Peace(j)'
  <2>1. j \notin muddled
    BY <1>2, <1>6
  <2>2. \A v \in Workers : ~OnIdent(v, j)
    BY <1>1, <1>6 DEF OthersStill, Still, OnIdent, Busy, I
  <2> QED
    BY <1>3, <2>1, <2>2, StateKept DEF CodeInv
<1>7. ASSUME NEW j \in Idents, OnIdent(w, j)', Trusted(w, j)' PROVE Fits(w, j)'
  BY <1>1, <1>5, <1>7 DEF OnIdent, I
<1> QED
  BY <1>4, <1>6, <1>7 DEF CodeInv

\* Events leave the requests where they are, and at most lose a code from the cache.
LEMMA EventCodes ==
  ASSUME TypeInv, CodeInv, CodesStill, UNCHANGED muddled,
         \A v \in Workers : Still(v) /\ (Busy(v) => req'[v].solo = req[v].solo)
  PROVE  CodeInv'
<1>1. ASSUME NEW v \in Workers, NEW j \in Idents, OnIdent(v, j)', Trusted(v, j)'
      PROVE  Fits(v, j)'
  <2>1. /\ Busy(v) /\ I(v) = j /\ req'[v].solo = req[v].solo /\ req'[v].pc = req[v].pc
        /\ req'[v].kind = req[v].kind /\ req'[v].code = req[v].code
        /\ req'[v].got = req[v].got /\ req'[v].cached = req[v].cached
    BY <1>1 DEF Still, OnIdent, Busy, I
  <2>2. Trusted(v, j) /\ OnIdent(v, j)
    BY <1>1, <2>1 DEF Trusted, OnIdent
  <2> QED
    BY <2>1, <2>2, FitsKept DEF CodeInv, CodesStill
<1>2. ASSUME NEW j \in Idents, j \notin muddled, \A v \in Workers : ~OnIdent(v, j)'
      PROVE  Peace(j)'
  <2>1. \A v \in Workers : ~OnIdent(v, j)
    BY <1>2 DEF Still, OnIdent, Busy, I
  <2> QED
    BY <1>2, <2>1, StateKept DEF CodeInv, CodesStill
<1> QED
  BY <1>1, <1>2 DEF CodeInv

LEMMA CodeStep == TypeInv /\ SoloInv /\ CodeInv /\ [Next]_vars => CodeInv'
<1> SUFFICES ASSUME TypeInv, SoloInv, CodeInv, [Next]_vars PROVE CodeInv'
  OBVIOUS
<1>1. CASE Event \/ UNCHANGED vars
  <2>1. UNCHANGED <<req, muddled, record, used, issued, answers>>
    BY <1>1 DEF Event, EvictCode, EvictPending, Expire, vars, store
  <2>2. \A j \in Idents : cache'[j] \in {cache[j], NoCode}
    BY <1>1 DEF Event, EvictCode, EvictPending, Expire, vars, store, TypeInv, TypeOK
  <2>3. CodesStill
    BY <2>1, <2>2 DEF CodesStill, CodeSame, answers
  <2>4. \A v \in Workers : Still(v) /\ (Busy(v) => req'[v].solo = req[v].solo)
    BY <2>1 DEF Still
  <2> QED
    BY <2>1, <2>3, <2>4, EventCodes
<1>2. ASSUME NEW b \in Buckets, NewWindow(b) PROVE CodeInv'
  <2>1. CodesStill /\ muddled' = muddled
    BY <1>2, CodesStillIs DEF NewWindow
  <2> QED
    BY <1>2, <2>1, NewWindowIs, EventCodes
<1> QED
  BY <1>1, <1>2, StepsAre, BeginCodes, ServesCodes

LEMMA CodeInit == Init => CodeInv
<1> SUFFICES ASSUME Init PROVE CodeInv
  OBVIOUS
<1>1. \A w \in Workers, i \in Idents : ~OnIdent(w, i)
  BY DEF Init, OnIdent, Busy
<1>2. ASSUME NEW i \in Idents PROVE Peace(i)
  BY NoCodeIs, AccountsAssumption DEF Init, Peace, Sound
<1> QED
  BY <1>1, <1>2 DEF CodeInv

----------------------------------------------------------------------------
(* What limits and single use rest on.                                       *)

LEMMA LimitsFollow == TypeInv /\ RateInv /\ SoloInv /\ CodeInv => LimitsHold
<1> SUFFICES ASSUME TypeInv, RateInv, SoloInv, CodeInv PROVE LimitsHold
  OBVIOUS
<1>l. AttemptLimit \in Nat /\ RateLimit \in Nat
  BY AccountsAssumption
<1>1. ASSUME NEW i \in Idents \ muddled PROVE tries[i] <= AttemptLimit
  <2>1. CASE \A w \in Workers : ~OnIdent(w, i)
    BY <2>1 DEF CodeInv, Peace, Sound
  <2>2. ASSUME NEW w \in Workers, OnIdent(w, i) PROVE tries[i] <= AttemptLimit
    <3>1. Fits(w, i) /\ req[w].pc \in Pcs
      BY <2>2, RequestIs DEF CodeInv, Trusted, OnIdent
    <3>2. CASE req[w].pc \in Storing
      BY <1>l, <3>1, <3>2 DEF Fits, Sending
    <3>3. CASE req[w].pc \in {"miss", "count"}
      BY <3>1, <3>3 DEF Fits, Missing
    <3>4. CASE req[w].pc \in {"compare", "take", "mark"} \cup Calm
      BY <3>1, <3>4 DEF Fits, Peace, Sound
    <3> QED
      BY <3>1, <3>2, <3>3, <3>4 DEF Pcs, Storing, Calm
  <2> QED
    BY <2>1, <2>2
<1>2. ASSUME NEW b \in Buckets \ raced PROVE sends[b] <= RateLimit
  <2>1. sends[b] <= rate[b] /\ rate[b] \in 0..RateLimit /\ sends[b] \in Nat
    BY DEF RateInv, Counted, TypeInv, TypeOK
  <2> QED
    BY <1>l, <2>1
<1> QED
  BY <1>1, <1>2 DEF LimitsHold

LEMMA AcceptedStep ==
  ASSUME TypeInv, CodeInv, [Next]_vars, NEW i \in Idents \ muddled, accepted'[i] # accepted[i]
  PROVE  accepted'[i] = [code |-> issued[i], times |-> 1] /\ issued[i] > dead[i]
<1>1. PICK w \in Workers : RightCode(w)
  <2>1. accepted' # accepted
    OBVIOUS
  <2>2. ASSUME NEW w \in Workers, Serves(w), ~RightCode(w) PROVE accepted' = accepted
    BY <2>2 DEF Serves, SendStep, VerifyStep, AccountStep, CountRequest, Collect, DeleteCollected,
       SetPending, CacheCode, WipeRecord, InsertRecord, Reject, WrongCode, CacheMiss, CountMiss,
       TakeCode, MarkUsed, GetPending, DropPending, FindUser, Activate, ChooseId,
       InsertUser, BreakOff, answers
  <2>3. ASSUME NEW w \in Workers, NEW kind \in Kinds, NEW p \in Phones, NEW code \in Codes,
               NEW sent \in Channels, Begin(w, kind, p, sent, code)
        PROVE  accepted' = accepted
    BY <2>3 DEF Begin, answers
  <2>4. ASSUME NEW b \in Buckets, NewWindow(b) PROVE accepted' = accepted
    BY <2>4 DEF NewWindow, answers
  <2>5. ASSUME Event \/ UNCHANGED vars PROVE accepted' = accepted
    BY <2>5 DEF Event, EvictCode, EvictPending, Expire, vars, answers
  <2> QED
    BY <2>1, <2>2, <2>3, <2>4, <2>5, StepsAre
<1>2. At(w, "compare") /\ ~Spent(w) /\ Held(w).code = req[w].code /\ I(w) \in Idents
  BY <1>1, RequestIs DEF RightCode, Matches, At
<1>3. accepted' = [accepted EXCEPT ![I(w)] =
                     [code |-> req[w].code, times |-> IF accepted[I(w)].code = req[w].code THEN 2 ELSE 1]]
  BY <1>1 DEF RightCode
<1>4. accepted \in [Idents -> [code : Codes, times : 0..2]]
  BY DEF TypeInv, TypeOK
<1>5. i = I(w)
  BY <1>2, <1>3, <1>4
<1>6. /\ Held(w) = record[i] /\ record[i].code = issued[i]
      /\ accepted[i].code < issued[i] /\ issued[i] > dead[i]
  BY <1>2, <1>5, Comparing
<1>7. accepted[i].code \in Nat /\ issued[i] \in Nat /\ accepted[i].code # issued[i]
  BY <1>6 DEF TypeInv, TypeOK, Codes
<1> QED
  BY <1>2, <1>3, <1>4, <1>5, <1>6, <1>7

\* AttemptLimit wrong answers use a code up, and a bucket lets RateLimit requests through in
\* a window, wherever no requests met or broke off (verify_otp, check_otp_rate_limit).
THEOREM LimitsAlwaysHold == Spec => []LimitsHold
<1>1. TypeInv /\ RateInv /\ SoloInv /\ CodeInv /\ [Next]_vars => (RateInv /\ SoloInv /\ CodeInv)'
  BY RateStep, SoloStep, CodeStep
<1>2. Init => RateInv /\ SoloInv /\ CodeInv
  BY RateInit, SoloInit, CodeInit
<1> QED
  BY <1>1, <1>2, TypeInit, TypeStep, LimitsFollow, PTL DEF Spec

\* The code accepted is the newest one, not expired, and accepted once (verify_otp).
THEOREM NewestAcceptedOnce == Spec => AcceptsNewestOnce
<1>1. TypeInv /\ SoloInv /\ CodeInv /\ [Next]_vars => (SoloInv /\ CodeInv)'
  BY SoloStep, CodeStep
<1>2. Init => SoloInv /\ CodeInv
  BY SoloInit, CodeInit
<1>3. TypeInv /\ CodeInv /\ [Next]_vars =>
        [\A i \in Idents \ muddled : accepted'[i] # accepted[i] =>
           accepted'[i] = [code |-> issued[i], times |-> 1] /\ issued[i] > dead[i]]_vars
  BY AcceptedStep
<1> QED
  BY <1>1, <1>2, <1>3, TypeInit, TypeStep, PTL DEF Spec, AcceptsNewestOnce

----------------------------------------------------------------------------
(* Pending registrations and the accounts they become.                       *)

Phone(p) == <<p, "phone">>

\* Details pending for a phone that has an account are those of a code used up.
PendPeace(p) ==
  Phone(p) \notin muddled /\ p \in pending /\ user[p] # NoUser =>
    accepted[Phone(p)].code = issued[Phone(p)]

\* What request w, at its step, knows of the account of its phone p.
PendFits(w, p) ==
  /\ req[w].solo =>
       /\ req[w].pc = "delete" => req[w].n = user[p].pk
       /\ req[w].kind = "register" /\ req[w].pc \in {"pend", "cache", "wipe", "record"} =>
            user[p] = NoUser
       /\ req[w].kind = "resend" /\ I(w) = Phone(p) => user[p] = NoUser \/ p \notin pending
       /\ req[w].kind \in {"desk", "verify_mobile"} /\ req[w].pc \in {"id", "insert"} =>
            user[p] = NoUser
  /\ Phone(p) \notin muddled /\ req[w].kind = "verify_otp" =>
       /\ req[w].pc \in {"take", "mark", "pop"} /\ p \in pending => user[p] = NoUser
       /\ req[w].pc \in {"unpend", "id", "insert"} => user[p] = NoUser
       /\ req[w].pc \in {"id", "insert"} => p \notin pending

OnPhone(w, p) == Busy(w) /\ P(w) = p

PendInv ==
  /\ \A p \in Phones : PendPeace(p)
  /\ \A w \in Workers, p \in Phones : OnPhone(w, p) => PendFits(w, p)

\* Of phone p, only its pending details may have gone and its row been activated.
PeopleSame(p) ==
  /\ user[p] = NoUser <=> user'[p] = NoUser
  /\ user'[p].pk = user[p].pk
  /\ p \in pending' => p \in pending
  /\ accepted'[Phone(p)] = accepted[Phone(p)] /\ issued'[Phone(p)] = issued[Phone(p)]
  /\ Phone(p) \in muddled => Phone(p) \in muddled'

LEMMA PeaceKept ==
  ASSUME NEW p \in Phones, PeopleSame(p), PendPeace(p)
  PROVE  PendPeace(p)'
BY DEF PeopleSame, PendPeace

LEMMA PendKept ==
  ASSUME NEW w \in Workers, NEW p \in Phones, PeopleSame(p), PendFits(w, p),
         req'[w].pc = req[w].pc, req'[w].kind = req[w].kind, req'[w].ident = req[w].ident,
         req'[w].solo => req[w].solo, req[w].pc = "delete" => req'[w].n = req[w].n
  PROVE  PendFits(w, p)'
<1>1. I(w)' = I(w)
  BY DEF I
<1>2. req[w].pc = "delete" => "delete" \notin {"pend", "cache", "wipe", "record", "id", "insert"}
  OBVIOUS
<1> QED
  BY <1>1, <1>2 DEF PeopleSame, PendFits

LEMMA PendLocal ==
  ASSUME TypeInv, SoloInv, PendInv, NEW w \in Workers, Moves(w), NEW p \in Phones, p = P(w),
         \A r \in Phones : r # p => PeopleSame(r),
         Phone(p) \in muddled /\ Phone(p) \notin muddled' => req[w].solo,
         req'[w] # Idle => PendFits(w, p)',
         PendPeace(p)'
  PROVE  PendInv'
<1>1. Busy(w)
  BY DEF Moves
<1>2. ASSUME NEW r \in Phones PROVE PendPeace(r)'
  BY PeaceKept DEF PendInv
<1>3. ASSUME NEW v \in Workers, NEW r \in Phones, OnPhone(v, r)' PROVE PendFits(v, r)'
  <2>1. CASE v = w
    BY <1>3, <2>1 DEF Moves, OnPhone, Busy, P
  <2>2. CASE v # w
    <3>1. /\ OnPhone(v, r) /\ req'[v].pc = req[v].pc /\ req'[v].kind = req[v].kind
          /\ req'[v].ident = req[v].ident /\ req'[v].solo = req[v].solo /\ req'[v].n = req[v].n
      BY <1>3, <2>2 DEF Moves, OthersStill, Still, OnPhone, Busy, P
    <3>2. CASE r # p
      BY <3>1, <3>2, PendKept DEF PendInv
    <3>3. CASE r = p
      <4>1. ~req[v].solo /\ ~req[w].solo
        BY <1>1, <2>2, <3>1, <3>3 DEF SoloInv, Alone, OnPhone
      <4>2. Both(p) \subseteq muddled /\ Phone(p) \in Both(p)
        BY <1>1, <4>1 DEF SoloInv, Both, Phone
      <4>3. Phone(p) \in muddled'
        BY <4>1, <4>2
      <4> QED
        BY <3>1, <3>3, <4>1, <4>3 DEF PendFits
    <3> QED
      BY <3>2, <3>3
  <2> QED
    BY <2>1, <2>2
<1> QED
  BY <1>2, <1>3 DEF PendInv

\* What a step does to codes accepted and sent, it does to those of its identifier.
LEMMA AnswersAre ==
  ASSUME TypeInv, NEW w \in Workers, Serves(w)
  PROVE  /\ \A i \in Idents : i # I(w) => accepted'[i] = accepted[i] /\ issued'[i] = issued[i]
         /\ accepted' = accepted \/ RightCode(w)
         /\ issued' = issued \/ CacheCode(w)
<1>1. accepted' = accepted \/ RightCode(w)
  BY DEF Serves, SendStep, VerifyStep, AccountStep, CountRequest, Collect, DeleteCollected,
     SetPending, CacheCode, WipeRecord, InsertRecord, Reject, WrongCode, CacheMiss, CountMiss,
     TakeCode, MarkUsed, GetPending, DropPending, FindUser, Activate, ChooseId,
     InsertUser, BreakOff, answers
<1>2. issued' = issued \/ CacheCode(w)
  BY DEF Serves, SendStep, VerifyStep, AccountStep, CountRequest, Collect, DeleteCollected,
     SetPending, WipeRecord, InsertRecord, Reject, WrongCode, CacheMiss, CountMiss,
     RightCode, TakeCode, MarkUsed, GetPending, DropPending, FindUser, Activate, ChooseId,
     InsertUser, BreakOff
<1>3. \A i \in Idents : i # I(w) => accepted'[i] = accepted[i]
  BY <1>1 DEF RightCode, TypeInv, TypeOK
<1>4. \A i \in Idents : i # I(w) => issued'[i] = issued[i]
  BY <1>2 DEF CacheCode, TypeInv, TypeOK
<1> QED
  BY <1>1, <1>2, <1>3, <1>4

\* Steps that leave a row as it is, but for its activation.
LEMMA RowStays ==
  ASSUME TypeInv, NEW w \in Workers, Serves(w), NEW p \in Phones,
         p # P(w) \/ ~(DeleteCollected(w) \/ InsertUser(w))
  PROVE  (user[p] = NoUser <=> user'[p] = NoUser) /\ user'[p].pk = user[p].pk
<1>1. CASE UNCHANGED user
  BY <1>1
<1>2. CASE DeleteCollected(w)
  BY <1>2, DeletesRow
<1>3. CASE Activate(w)
  <2>1. NoUser.pk = 0 /\ NoUser.verified = FALSE
    BY DEF NoUser
  <2>2. CASE user'[p] = user[p]
    BY <2>2
  <2>3. CASE user[p].pk = req[w].n /\ req[w].n # 0 /\ user'[p].verified /\ user'[p].pk = user[p].pk
    BY <2>1, <2>3
  <2> QED
    BY <1>3, <2>2, <2>3, ActivatesRow
<1>4. CASE InsertUser(w) /\ ~Clashes(w)
  BY <1>4, InsertsRow
<1> QED
  BY <1>1, <1>2, <1>3, <1>4, RowsAre

LEMMA ElsewhereSame ==
  ASSUME TypeInv, NEW w \in Workers, Serves(w), NEW p \in Phones, p # P(w)
  PROVE  PeopleSame(p)
<1>1. I(w) \in Idents /\ P(w) \in Phones /\ Phone(p) \in Idents /\ Phone(p) # I(w)
  BY MovesAre, RequestIs DEF Phone, Idents, I, P
<1>2. (user[p] = NoUser <=> user'[p] = NoUser) /\ user'[p].pk = user[p].pk
  BY RowStays
<1>3. p \in pending' => p \in pending
  BY PendingIs
<1>4. accepted'[Phone(p)] = accepted[Phone(p)] /\ issued'[Phone(p)] = issued[Phone(p)]
  BY <1>1, AnswersAre
<1>5. Phone(p) \in muddled => Phone(p) \in muddled'
  BY <1>1, MuddledIs
<1> QED
  BY <1>2, <1>3, <1>4, <1>5 DEF PeopleSame

LEMMA PendStepIs ==
  ASSUME TypeInv, SoloInv, PendInv, NEW w \in Workers, Serves(w), NEW p \in Phones, p = P(w),
         req'[w] # Idle => PendFits(w, p)', PendPeace(p)'
  PROVE  PendInv'
<1>1. Moves(w)
  BY MovesAre
<1>2. \A r \in Phones : r # p => PeopleSame(r)
  BY ElsewhereSame
<1>3. Phone(p) \in muddled /\ Phone(p) \notin muddled' => req[w].solo
  BY MuddledIs
<1> QED
  BY <1>1, <1>2, <1>3, PendLocal

\* Most steps leave the account and its details alone.
Aside(w) ==
  ~(DeleteCollected(w) \/ SetPending(w) \/ CacheCode(w) \/ InsertRecord(w) \/ RightCode(w)
    \/ InsertUser(w))

LEMMA AsideSame ==
  ASSUME TypeInv, NEW w \in Workers, Serves(w), Aside(w), NEW p \in Phones
  PROVE  PeopleSame(p)
<1>1. (user[p] = NoUser <=> user'[p] = NoUser) /\ user'[p].pk = user[p].pk
  BY RowStays DEF Aside
<1>2. p \in pending' => p \in pending
  BY PendingIs DEF Aside
<1>3. accepted' = accepted /\ issued' = issued
  BY AnswersAre DEF Aside
<1>4. muddled \subseteq muddled'
  BY DEF Aside, Serves, SendStep, VerifyStep, AccountStep, CountRequest, Collect,
     WipeRecord, Reject, WrongCode, CacheMiss, CountMiss, TakeCode, MarkUsed, GetPending,
     DropPending, FindUser, Activate, ChooseId, BreakOff
<1> QED
  BY <1>1, <1>2, <1>3, <1>4 DEF PeopleSame

LEMMA PendAside ==
  ASSUME TypeInv, SoloInv, PendInv, NEW w \in Workers, Serves(w), Aside(w), NEW p \in Phones, p = P(w),
         req'[w] # Idle => PendFits(w, p)'
  PROVE  PendInv'
BY AsideSame, PeaceKept, PendStepIs DEF PendInv

LEMMA ServesFits ==
  ASSUME TypeInv, PendInv, NEW w \in Workers, Serves(w)
  PROVE  Busy(w) /\ P(w) \in Phones /\ PendPeace(P(w)) /\ PendFits(w, P(w)) /\ I(w) \in Idents
         /\ req[w].kind \in Kinds /\ I(w) = <<P(w), I(w)[2]>> /\ I(w)[2] \in Lines(req[w].kind)
BY MovesAre, RequestIs DEF PendInv, OnPhone, Formed

\* A phone whose code is trusted has one request at most.
LEMMA TrustedSolo ==
  ASSUME TypeInv, SoloInv, NEW w \in Workers, Busy(w), Phone(P(w)) \notin muddled
  PROVE  req[w].solo
BY DEF SoloInv, Both, Phone

LEMMA SendPend ==
  ASSUME TypeInv, SoloInv, PendInv, NEW w \in Workers,
         CountRequest(w) \/ Collect(w) \/ WipeRecord(w)
  PROVE  PendInv'
<1>0. Serves(w) /\ Aside(w)
  BY DEF Serves, SendStep, Aside, CountRequest, Collect, WipeRecord, DeleteCollected, SetPending,
     CacheCode, InsertRecord, RightCode, InsertUser, At
<1>p. PICK p \in Phones : p = P(w)
  BY <1>0, ServesFits
<1>s. PeopleSame(p) /\ PendFits(w, p) /\ req[w].kind \in Kinds
  BY <1>0, <1>p, AsideSame, ServesFits
<1>1. ASSUME CountRequest(w), req'[w] # Idle PROVE PendFits(w, p)'
  <2>1. /\ At(w, "rate") /\ SameIdent(w) /\ req'[w].kind = req[w].kind /\ req'[w].solo = req[w].solo
        /\ req'[w].pc = IF req[w].kind = "register" THEN "collect" ELSE "cache"
    BY <1>1, CountRequestIs DEF Ends, Turns
  <2>2. req[w].kind \in Sends
    BY <2>1, KindsOf
  <2>3. I(w)' = I(w)
    BY <2>1 DEF SameIdent, I
  <2> QED
    BY <1>s, <2>1, <2>2, <2>3 DEF PendFits, PeopleSame, Sends
<1>2. ASSUME Collect(w), req'[w] # Idle PROVE PendFits(w, p)'
  <2>1. /\ At(w, "collect") /\ req'[w].kind = req[w].kind /\ req'[w].pc = "delete"
        /\ req'[w].n = user[P(w)].pk
    BY <1>2, CollectIs DEF Ends, Turns
  <2>2. req[w].kind = "register" /\ user' = user
    BY <1>2, <2>1, KindsOf DEF Collect, people
  <2> QED
    BY <1>p, <2>1, <2>2 DEF PendFits
<1>3. ASSUME WipeRecord(w) PROVE PendFits(w, p)'
  <2>0. "record" \in Pcs
    BY DEF Pcs
  <2>1. /\ At(w, "wipe") /\ SameIdent(w) /\ req'[w].kind = req[w].kind /\ req'[w].solo = req[w].solo
        /\ req'[w].pc = "record"
    BY <1>3, <2>0, TurnsAre, GoTurns DEF Turns
  <2>2. req[w].kind \in Sends
    <3>1. "wipe" \in Stage(req[w].kind)
      BY <2>1, KindsOf
    <3> QED
      BY <1>s, <3>1, StagesAre DEF Kinds, Sends
  <2>3. I(w)' = I(w)
    BY <2>1 DEF SameIdent, I
  <2> QED
    BY <1>s, <2>1, <2>2, <2>3 DEF PendFits, PeopleSame, Sends, At
<1> QED
  BY <1>0, <1>p, <1>1, <1>2, <1>3, PendAside

LEMMA MissPend ==
  ASSUME TypeInv, SoloInv, PendInv, NEW w \in Workers,
         Reject(w) \/ WrongCode(w) \/ CacheMiss(w) \/ CountMiss(w)
  PROVE  PendInv'
<1>0. Serves(w) /\ Aside(w)
  BY DEF Serves, VerifyStep, Aside, Reject, WrongCode, CacheMiss, CountMiss, DeleteCollected,
     SetPending, CacheCode, InsertRecord, RightCode, InsertUser, At, Matches
<1>p. PICK p \in Phones : p = P(w)
  BY <1>0, ServesFits
<1>1. req[w].kind \in Verifies
  BY KindsOf DEF Reject, WrongCode, CacheMiss, CountMiss
<1>2. ASSUME req'[w] # Idle
      PROVE  req'[w].kind = req[w].kind /\ req'[w].pc \in {"compare", "miss", "count"}
  <2>1. CASE Reject(w) \/ CountMiss(w)
    BY <1>2, <2>1, TurnsAre, NextTryIs DEF Ends, Retries, Turns, At
  <2>2. CASE WrongCode(w)
    BY <2>2, WrongCodeIs DEF Turns
  <2>3. CASE CacheMiss(w)
    <3>1. "count" \in Pcs
      BY DEF Pcs
    <3> QED
      BY <2>3, <3>1, TurnsAre, GoTurns DEF Turns
  <2> QED
    BY <2>1, <2>2, <2>3
<1>3. req'[w] # Idle => PendFits(w, p)'
  BY <1>1, <1>2 DEF PendFits, Verifies
<1> QED
  BY <1>0, <1>p, <1>3, PendAside

LEMMA BreakOffPend ==
  ASSUME TypeInv, SoloInv, PendInv, NEW w \in Workers, BreakOff(w)
  PROVE  PendInv'
<1>0. Serves(w) /\ req'[w] = Idle
  BY TurnsAre, DoneIs DEF Serves
<1>p. PICK p \in Phones : p = P(w)
  BY <1>0, ServesFits
<1>1. PeopleSame(p)
  BY DEF BreakOff, PeopleSame, people, answers
<1>2. PendPeace(p)'
  BY <1>1, PeaceKept DEF PendInv
<1> QED
  BY <1>0, <1>p, <1>2, PendStepIs

LEMMA OpenPend ==
  ASSUME TypeInv, SoloInv, PendInv, NEW w \in Workers,
         TakeCode(w) \/ MarkUsed(w) \/ GetPending(w) \/ DropPending(w) \/ FindUser(w)
           \/ Activate(w) \/ ChooseId(w)
  PROVE  PendInv'
<1>0. Serves(w) /\ Aside(w)
  BY DEF Serves, VerifyStep, AccountStep, Aside, TakeCode, MarkUsed, GetPending, DropPending,
     FindUser, Activate, ChooseId, DeleteCollected, SetPending, CacheCode, InsertRecord, RightCode,
     InsertUser, At
<1>p. PICK p \in Phones : p = P(w)
  BY <1>0, ServesFits
<1>s. PeopleSame(p) /\ PendFits(w, p) /\ Busy(w)
  BY <1>0, <1>p, AsideSame, ServesFits
<1>t. {"mark", "pop", "user", "unpend", "id"} \subseteq Pcs
  BY DEF Pcs
<1>1. ASSUME TakeCode(w) PROVE PendFits(w, p)'
  <2>1. /\ At(w, "take") /\ req'[w].kind = req[w].kind /\ req'[w].pc = "mark"
    BY <1>t, <1>1, TurnsAre, GoTurns DEF Turns
  <2>2. req[w].kind \in Verifies
    BY <2>1, KindsOf
  <2> QED
    BY <1>s, <2>1, <2>2 DEF PendFits, PeopleSame, At, Verifies
<1>2. ASSUME MarkUsed(w) PROVE PendFits(w, p)'
  <2> DEFINE pc == IF req[w].kind = "verify_otp" THEN "pop" ELSE "user"
  <2>0. pc \in Pcs
    BY <1>t
  <2>1. /\ At(w, "mark") /\ req'[w].kind = req[w].kind /\ req'[w].pc = pc
    BY <1>2, <2>0, TurnsAre, GoTurns DEF Turns
  <2>2. req[w].kind \in Verifies
    BY <2>1, KindsOf
  <2> QED
    BY <1>s, <2>1, <2>2 DEF PendFits, PeopleSame, At, Verifies
<1>3. ASSUME GetPending(w) PROVE PendFits(w, p)'
  <2> DEFINE pc == IF P(w) \in pending THEN "unpend" ELSE "user"
  <2>0. pc \in Pcs
    BY <1>t
  <2>1. /\ At(w, "pop") /\ req'[w].kind = req[w].kind /\ req'[w].pc = pc
    BY <1>3, <2>0, TurnsAre, GoTurns DEF Turns
  <2>2. req[w].kind = "verify_otp"
    BY <2>1, KindsOf
  <2> QED
    BY <1>p, <1>s, <2>1, <2>2 DEF PendFits, PeopleSame, At
<1>4. ASSUME DropPending(w) PROVE PendFits(w, p)'
  <2>1. /\ At(w, "unpend") /\ req'[w].kind = req[w].kind /\ req'[w].pc = "id"
    BY <1>t, <1>4, TurnsAre, GoTurns DEF Turns
  <2>2. req[w].kind = "verify_otp" /\ p \notin pending'
    BY <1>p, <1>4, <2>1, KindsOf DEF DropPending
  <2> QED
    BY <1>s, <2>1, <2>2 DEF PendFits, PeopleSame, At
<1>5. ASSUME FindUser(w), req'[w] # Idle PROVE PendFits(w, p)'
  <2>1. req[w].kind \in Verifies
    BY <1>5, FindUserIs, KindsOf
  <2>2. CASE Turns(w, "id") /\ user[P(w)] = NoUser /\ req[w].kind = "verify_mobile"
    BY <1>p, <1>s, <2>2 DEF PendFits, PeopleSame, Turns
  <2>3. CASE Turns(w, "activate")
    BY <2>1, <2>3 DEF PendFits, Turns, Verifies
  <2> QED
    BY <1>5, <2>2, <2>3, FindUserIs DEF Ends
<1>6. ASSUME Activate(w) PROVE req'[w] = Idle
  BY <1>6, ActivateIs DEF Overtakes
<1>7. ASSUME ChooseId(w) PROVE PendFits(w, p)'
  <2>1. /\ At(w, "id") /\ req'[w].kind = req[w].kind /\ req'[w].pc = "insert"
        /\ req'[w].solo = req[w].solo
    BY <1>7, NextIdIs, ChooseIdIs DEF Turns
  <2>2. req[w].kind \in {"verify_otp", "verify_mobile", "desk"}
    BY <2>1, KindsOf
  <2> QED
    BY <1>s, <2>1, <2>2 DEF PendFits, PeopleSame, At
<1>8. req'[w] # Idle => PendFits(w, p)'
  BY <1>1, <1>2, <1>3, <1>4, <1>5, <1>6, <1>7
<1> QED
  BY <1>0, <1>p, <1>8, PendAside

LEMMA DeletePend ==
  ASSUME TypeInv, SoloInv, PendInv, NEW w \in Workers, DeleteCollected(w)
  PROVE  PendInv'
<1>0. Serves(w) /\ At(w, "delete") /\ Busy(w)
  BY DeleteCollectedIs DEF Serves, SendStep
<1>p. PICK p \in Phones : p = P(w)
  BY <1>0, ServesFits
<1>1. /\ req'[w].kind = req[w].kind /\ req'[w].pc = "pend" /\ req'[w].solo = req[w].solo
      /\ req[w].kind = "register" /\ PendFits(w, p) /\ PendPeace(p)
  BY <1>0, <1>p, DeleteCollectedIs, KindsOf, ServesFits DEF Turns
<1>2. user'[p] = IF user[p].pk = req[w].n THEN NoUser ELSE user[p]
  BY <1>p, DeletesRow
<1>3. UNCHANGED <<pending, accepted, issued, muddled>>
  BY DEF DeleteCollected, answers
<1>4. PendFits(w, p)'
  BY <1>0, <1>1, <1>2 DEF PendFits, At
<1>5. PendPeace(p)'
  BY <1>1, <1>2, <1>3 DEF PendPeace
<1> QED
  BY <1>0, <1>p, <1>4, <1>5, PendStepIs

LEMMA SetPend ==
  ASSUME TypeInv, SoloInv, PendInv, NEW w \in Workers, SetPending(w)
  PROVE  PendInv'
<1>c. "cache" \in Pcs
  BY DEF Pcs
<1>0. Serves(w) /\ At(w, "pend") /\ Busy(w) /\ Turns(w, "cache")
  BY <1>c, TurnsAre, GoTurns DEF Serves, SendStep
<1>p. PICK p \in Phones : p = P(w)
  BY <1>0, ServesFits
<1>1. /\ req'[w].kind = req[w].kind /\ req'[w].pc = "cache" /\ req'[w].solo = req[w].solo
      /\ req[w].kind = "register" /\ PendFits(w, p) /\ PendPeace(p)
  BY <1>0, <1>p, KindsOf, ServesFits DEF Turns
<1>2. UNCHANGED <<user, accepted, issued, muddled>>
  BY DEF SetPending, answers
<1>3. req[w].solo => user[p] = NoUser
  BY <1>0, <1>1 DEF PendFits, At
<1>4. PendFits(w, p)'
  BY <1>1, <1>2, <1>3 DEF PendFits
<1>5. PendPeace(p)'
  BY <1>0, <1>p, <1>2, <1>3, TrustedSolo DEF PendPeace
<1> QED
  BY <1>0, <1>p, <1>4, <1>5, PendStepIs

\* A request that sends a code to the phone of an account finds no details pending.
LEMMA SendsInPeace ==
  ASSUME TypeInv, PendInv, NEW w \in Workers, Busy(w), req[w].pc \in {"cache", "record"},
         req[w].solo, I(w) = Phone(P(w))
  PROVE  user[P(w)] = NoUser \/ P(w) \notin pending
<1>1. PendFits(w, P(w)) /\ req[w].kind \in Kinds /\ I(w)[2] \in Lines(req[w].kind)
      /\ req[w].pc \in Stage(req[w].kind)
  BY RequestIs DEF PendInv, OnPhone, Formed
<1>2. I(w)[2] = "phone"
  BY DEF Phone
<1>3. req[w].kind \in {"register", "resend"}
  <2>1. req[w].kind \in Sends
    BY <1>1, StagesAre DEF Kinds, Sends
  <2>2. Lines("register_mobile") = {"mobile"}
    BY DEF Lines
  <2> QED
    BY <1>1, <1>2, <2>1, <2>2 DEF Sends
<1> QED
  BY <1>1, <1>3 DEF PendFits

LEMMA CachePend ==
  ASSUME TypeInv, SoloInv, PendInv, NEW w \in Workers, CacheCode(w)
  PROVE  PendInv'
<1>0. Serves(w) /\ At(w, "cache") /\ Busy(w) /\ Turns(w, "wipe") /\ SameIdent(w)
  BY CacheCodeIs DEF Serves, SendStep
<1>p. PICK p \in Phones : p = P(w)
  BY <1>0, ServesFits
<1>1. /\ req'[w].kind = req[w].kind /\ req'[w].pc = "wipe" /\ req'[w].solo = req[w].solo
      /\ PendFits(w, p) /\ PendPeace(p) /\ I(w)' = I(w) /\ req[w].kind \in Kinds
  BY <1>0, <1>p, ServesFits DEF Turns, SameIdent, I
<1>2. UNCHANGED <<user, pending, accepted, muddled>>
  BY DEF CacheCode, people
<1>3. req[w].kind \in Sends
  <2>1. "cache" \in Stage(req[w].kind)
    BY <1>0, KindsOf
  <2> QED
    BY <1>1, <2>1, StagesAre DEF Kinds, Sends
<1>4. PendFits(w, p)'
  BY <1>0, <1>1, <1>2, <1>3 DEF PendFits, At, Sends
<1>5. PendPeace(p)'
  <2>1. CASE I(w) = Phone(p)
    <3>1. Phone(p) \notin muddled => user[p] = NoUser \/ p \notin pending
      BY <1>0, <1>p, <2>1, TrustedSolo, SendsInPeace DEF At
    <3> QED
      BY <1>2, <3>1 DEF PendPeace
  <2>2. CASE I(w) # Phone(p)
    <3>1. issued'[Phone(p)] = issued[Phone(p)]
      BY <1>0, <2>2, AnswersAre DEF Phone, Idents
    <3> QED
      BY <1>1, <1>2, <3>1 DEF PendPeace
  <2> QED
    BY <2>1, <2>2
<1> QED
  BY <1>0, <1>p, <1>4, <1>5, PendStepIs

LEMMA RecordPend ==
  ASSUME TypeInv, SoloInv, PendInv, NEW w \in Workers, InsertRecord(w)
  PROVE  PendInv'
<1>0. Serves(w) /\ At(w, "record") /\ Busy(w) /\ req'[w] = Idle
  BY TurnsAre, DoneIs DEF Serves, SendStep, At
<1>p. PICK p \in Phones : p = P(w)
  BY <1>0, ServesFits
<1>1. PendPeace(p)
  BY <1>0, <1>p, ServesFits
<1>2. UNCHANGED <<user, pending, accepted, issued>>
  BY DEF InsertRecord, people, answers
<1>3. muddled' = IF req[w].solo THEN muddled \ {I(w)} ELSE muddled
  BY DEF InsertRecord
<1>4. PendPeace(p)'
  <2>1. CASE Phone(p) \in muddled /\ Phone(p) \notin muddled'
    <3>1. req[w].solo /\ I(w) = Phone(p)
      BY <1>3, <2>1
    <3>2. user[p] = NoUser \/ p \notin pending
      BY <1>0, <1>p, <3>1, SendsInPeace DEF At
    <3> QED
      BY <1>2, <3>2 DEF PendPeace
  <2>2. CASE ~(Phone(p) \in muddled /\ Phone(p) \notin muddled')
    BY <1>1, <1>2, <2>2 DEF PendPeace
  <2> QED
    BY <2>1, <2>2
<1> QED
  BY <1>0, <1>p, <1>4, PendStepIs

LEMMA RightPend ==
  ASSUME TypeInv, SoloInv, CodeInv, PendInv, NEW w \in Workers, RightCode(w)
  PROVE  PendInv'
<1>0. /\ Serves(w) /\ At(w, "compare") /\ Busy(w) /\ Turns(w, "take") /\ ~Spent(w)
      /\ Held(w).code = req[w].code
  BY RightCodeIs DEF Serves, VerifyStep, RightCode, Matches
<1>p. PICK p \in Phones : p = P(w)
  BY <1>0, ServesFits
<1>1. /\ req'[w].kind = req[w].kind /\ req'[w].pc = "take" /\ PendPeace(p)
      /\ req[w].kind \in Verifies /\ Phone(p) \in Idents
      /\ I(w) = <<p, I(w)[2]>> /\ I(w)[2] \in Lines(req[w].kind)
  BY <1>0, <1>p, KindsOf, ServesFits DEF Turns, Phone, Idents
<1>2. UNCHANGED <<user, pending, issued, muddled>>
  BY DEF RightCode, people
<1>3. ASSUME I(w) = Phone(p), Phone(p) \notin muddled
      PROVE  accepted[Phone(p)].code < issued[Phone(p)] /\ req[w].code = issued[Phone(p)]
  BY <1>0, <1>1, <1>3, Comparing
<1>4. PendFits(w, p)'
  <2>1. ASSUME req[w].kind = "verify_otp", Phone(p) \notin muddled, p \in pending
        PROVE  user[p] = NoUser
    <3>1. I(w) = Phone(p)
      BY <1>1, <2>1 DEF Lines, Phone
    <3>2. accepted[Phone(p)].code # issued[Phone(p)]
      BY <1>1, <1>3, <2>1, <3>1 DEF TypeInv, TypeOK, Codes
    <3> QED
      BY <1>1, <2>1, <3>2 DEF PendPeace
  <2> QED
    BY <1>1, <1>2, <2>1 DEF PendFits, Verifies
<1>5. PendPeace(p)'
  <2>1. CASE I(w) = Phone(p)
    <3>1. accepted'[Phone(p)].code = req[w].code
      BY <1>1, <2>1 DEF RightCode, TypeInv, TypeOK
    <3> QED
      BY <1>2, <1>3, <2>1, <3>1 DEF PendPeace
  <2>2. CASE I(w) # Phone(p)
    BY <1>0, <1>1, <1>2, <2>2, AnswersAre DEF PendPeace
  <2> QED
    BY <2>1, <2>2
<1> QED
  BY <1>0, <1>p, <1>4, <1>5, PendStepIs

LEMMA InsertPend ==
  ASSUME TypeInv, SoloInv, CodeInv, PendInv, NEW w \in Workers, InsertUser(w)
  PROVE  PendInv'
<1>0. Serves(w) /\ At(w, "insert") /\ Busy(w) /\ req'[w] = Idle
  BY InsertUserIs DEF Serves, AccountStep, Ends, Overtakes
<1>p. PICK p \in Phones : p = P(w)
  BY <1>0, ServesFits
<1>1. /\ PendPeace(p) /\ PendFits(w, p) /\ Phone(p) \in Idents /\ I(w) \in Idents
      /\ I(w) = <<p, I(w)[2]>> /\ I(w)[2] \in Lines(req[w].kind)
      /\ req[w].kind \in {"verify_otp", "verify_mobile", "desk"}
  BY <1>0, <1>p, KindsOf, ServesFits DEF Phone, Idents
<1>2. UNCHANGED <<pending, accepted, issued>> /\ muddled \subseteq muddled'
  BY DEF InsertUser, answers
<1>3. CASE Clashes(w)
  <2>1. user' = user
    BY <1>3 DEF InsertUser
  <2>2. PendPeace(p)'
    BY <1>1, <1>2, <2>1 DEF PendPeace
  <2> QED
    BY <1>0, <1>p, <2>2, PendStepIs
<1>4. CASE ~Clashes(w)
  <2>1. ASSUME Phone(p) \notin muddled', p \in pending
        PROVE  accepted[Phone(p)].code = issued[Phone(p)]
    <3>1. Phone(p) \notin muddled
      BY <1>2, <2>1
    <3>2. ~(req[w].kind = "desk" \/ I(w)[2] = "mobile")
      <4>1. muddled' = IF P(w) \in pending /\ (req[w].kind = "desk" \/ I(w)[2] = "mobile")
                       THEN muddled \cup Both(P(w)) ELSE muddled
        BY <1>4 DEF InsertUser
      <4>2. Phone(p) \in Both(p)
        BY DEF Phone, Both
      <4> QED
        BY <1>p, <2>1, <4>1, <4>2
    <3>3. req[w].kind # "verify_otp"
      BY <1>0, <1>1, <2>1, <3>1 DEF PendFits, At
    <3>4. req[w].kind = "verify_mobile" /\ I(w) = Phone(p)
      BY <1>1, <3>2, <3>3 DEF Phone, Lines
    <3>5. Fits(w, Phone(p))
      BY <1>0, <1>1, <3>1, <3>4, FitsNow
    <3> QED
      BY <1>0, <3>4, <3>5 DEF Fits, Calm, Verifies, Newest, At
  <2>2. PendPeace(p)'
    BY <1>2, <2>1 DEF PendPeace
  <2> QED
    BY <1>0, <1>p, <2>2, PendStepIs
<1> QED
  BY <1>3, <1>4

LEMMA ServesPend ==
  ASSUME TypeInv, SoloInv, CodeInv, PendInv, NEW w \in Workers, Serves(w)
  PROVE  PendInv'
BY SendPend, MissPend, OpenPend, BreakOffPend, DeletePend, SetPend, CachePend, RecordPend,
   RightPend, InsertPend DEF Serves, SendStep, VerifyStep, AccountStep

\* Where nothing happens to accounts, the requests still fit them.
LEMMA StillFits ==
  ASSUME TypeInv, PendInv, \A r \in Phones : PeopleSame(r), NEW v \in Workers, Still(v),
         NEW r \in Phones, Busy(v), OnPhone(v, r)'
  PROVE  PendFits(v, r)'
<1>1. /\ OnPhone(v, r) /\ req'[v].pc = req[v].pc /\ req'[v].kind = req[v].kind
      /\ req'[v].ident = req[v].ident /\ (req'[v].solo => req[v].solo)
      /\ req[v].pc = "delete" => req'[v].n = req[v].n
  BY DEF Still, OnPhone, Busy, P
<1> QED
  BY <1>1, PendKept DEF PendInv

LEMMA BeginPend ==
  ASSUME TypeInv, UnverifiedInv, PendInv, NEW w \in Workers, NEW kind \in Kinds, NEW p \in Phones,
         NEW code \in Codes, NEW sent \in Channels, Begin(w, kind, p, sent, code)
  PROVE  PendInv'
<1>0. Begins(w, kind, p, code)
  BY BeginIs
<1>1. /\ ~Busy(w) /\ OthersStill(w) /\ req'[w].ident = <<p, Channel(kind, p)>>
      /\ req'[w].pc = FirstPc(kind) /\ req'[w].kind = kind
  BY <1>0 DEF Begins
<1>2. ~Refused(kind, p) /\ UNCHANGED <<people, issued, answers>> /\ muddled \subseteq muddled'
  BY DEF Begin
<1>3. \A r \in Phones : PeopleSame(r)
  BY <1>2 DEF PeopleSame, people, answers
<1>4. ASSUME NEW r \in Phones PROVE PendPeace(r)'
  BY <1>3, PeaceKept DEF PendInv
<1>5. ASSUME NEW v \in Workers, v # w, NEW r \in Phones, OnPhone(v, r)' PROVE PendFits(v, r)'
  <2>1. Still(v) /\ Busy(v)
    BY <1>1, <1>5 DEF OthersStill, Still, OnPhone, Busy
  <2> QED
    BY <1>3, <1>5, <2>1, StillFits
<1>6. kind = "desk" => user[p] = NoUser
  BY <1>2 DEF Refused
<1>7. kind = "resend" /\ Channel(kind, p) = "phone" => user[p] = NoUser \/ p \notin pending
  <2>1. kind = "resend" /\ Channel(kind, p) = "phone" => ~user[p].verified
    BY DEF Channel
  <2> QED
    BY <2>1 DEF UnverifiedInv, Fresh, EarlyOn
<1>8. PendFits(w, p)'
  <2>1. user' = user /\ pending' = pending
    BY <1>2 DEF people
  <2>2. I(w)' = <<p, Channel(kind, p)>>
    BY <1>1 DEF I
  <2>3. I(w)' = Phone(p) => Channel(kind, p) = "phone"
    BY <2>2 DEF Phone
  <2>4. kind \in {"desk", "verify_mobile"} /\ FirstPc(kind) \in {"id", "insert"} => kind = "desk"
    BY FirstStep
  <2>5. FirstPc(kind) \in {"rate", "id", "compare"} /\ (kind = "verify_otp" => FirstPc(kind) = "compare")
    BY FirstStep DEF FirstPc
  <2> QED
    BY <1>1, <1>6, <1>7, <2>1, <2>3, <2>4, <2>5 DEF PendFits
<1>9. ASSUME NEW r \in Phones, OnPhone(w, r)' PROVE r = p
  BY <1>1, <1>9 DEF OnPhone, P
<1> QED
  BY <1>4, <1>5, <1>8, <1>9 DEF PendInv

LEMMA PendStep ==
  TypeInv /\ SoloInv /\ CodeInv /\ UnverifiedInv /\ PendInv /\ [Next]_vars => PendInv'
<1> SUFFICES ASSUME TypeInv, SoloInv, CodeInv, UnverifiedInv, PendInv, [Next]_vars PROVE PendInv'
  OBVIOUS
<1>1. ASSUME \A r \in Phones : PeopleSame(r), \A v \in Workers : Still(v) PROVE PendInv'
  <2>1. \A r \in Phones : PendPeace(r)'
    BY <1>1, PeaceKept DEF PendInv
  <2>2. ASSUME NEW v \in Workers, NEW r \in Phones, OnPhone(v, r)' PROVE PendFits(v, r)'
    <3>1. Busy(v)
      BY <1>1, <2>2 DEF Still, OnPhone, Busy
    <3> QED
      BY <1>1, <2>2, <3>1, StillFits
  <2> QED
    BY <2>1, <2>2 DEF PendInv
<1>2. CASE Event \/ UNCHANGED vars
  <2>1. UNCHANGED <<user, accepted, issued, muddled, req>> /\ pending' \subseteq pending
    BY <1>2 DEF Event, EvictCode, EvictPending, Expire, vars, people, answers
  <2>2. \A v \in Workers : Still(v)
    BY <2>1 DEF Still
  <2>3. \A r \in Phones : PeopleSame(r)
    BY <2>1 DEF PeopleSame
  <2> QED
    BY <1>1, <2>2, <2>3
<1>3. ASSUME NEW b \in Buckets, NewWindow(b) PROVE PendInv'
  <2>1. \A r \in Phones : PeopleSame(r)
    BY <1>3 DEF NewWindow, PeopleSame, people, answers
  <2> QED
    BY <1>1, <1>3, <2>1, NewWindowIs
<1> QED
  BY <1>2, <1>3, StepsAre, BeginPend, ServesPend

LEMMA PendInit == Init => PendInv
BY DEF Init, PendInv, PendPeace, OnPhone, Busy

----------------------------------------------------------------------------
(* A Matri ID chosen is free until another account is inserted.              *)

IdInv == \A w \in Workers : At(w, "insert") /\ ~req[w].overtaken => req[w].n \notin Ids

\* No step but an insert gives a phone an account, and an account keeps its id.
LEMMA IdsShrink ==
  ASSUME \A p \in Phones : user'[p] # NoUser => user[p] # NoUser /\ user'[p].id = user[p].id
  PROVE  Ids' \subseteq Ids
BY DEF Ids

\* Only ChooseId brings a request to its insert.
LEMMA ComesToInsert ==
  ASSUME TypeInv, NEW w \in Workers, Serves(w), ~ChooseId(w), req'[w] # Idle
  PROVE  req'[w].pc # "insert"
<1>p. {"cache", "record", "count", "mark", "pop", "user", "unpend", "id"} \subseteq Pcs
  BY DEF Pcs
<1>1. ASSUME SendStep(w) PROVE req'[w].pc # "insert"
  <2>1. CASE CountRequest(w)
    BY <2>1, CountRequestIs DEF Ends, Turns
  <2>2. CASE Collect(w)
    BY <2>2, CollectIs DEF Ends, Turns
  <2>3. CASE DeleteCollected(w)
    BY <2>3, DeleteCollectedIs DEF Turns
  <2>4. CASE SetPending(w) \/ WipeRecord(w)
    BY <1>p, <2>4, TurnsAre, GoTurns DEF Turns
  <2>5. CASE CacheCode(w)
    BY <2>5, CacheCodeIs DEF Turns
  <2>6. CASE InsertRecord(w)
    BY <2>6, TurnsAre, DoneIs
  <2> QED
    BY <1>1, <2>1, <2>2, <2>3, <2>4, <2>5, <2>6 DEF SendStep
<1>2. ASSUME VerifyStep(w) PROVE req'[w].pc # "insert"
  <2>1. CASE Reject(w) \/ CountMiss(w)
    BY <2>1, TurnsAre, NextTryIs DEF Ends, Retries, Turns, At
  <2>2. CASE WrongCode(w)
    BY <2>2, WrongCodeIs DEF Turns
  <2>3. CASE RightCode(w)
    BY <2>3, RightCodeIs DEF Turns
  <2>4. CASE CacheMiss(w) \/ TakeCode(w)
    BY <1>p, <2>4, TurnsAre, GoTurns DEF Turns
  <2>5. CASE MarkUsed(w)
    <3> DEFINE pc == IF req[w].kind = "verify_otp" THEN "pop" ELSE "user"
    <3>1. pc \in Pcs /\ pc # "insert"
      BY <1>p
    <3> QED
      BY <2>5, <3>1, TurnsAre, GoTurns DEF Turns
  <2> QED
    BY <1>2, <2>1, <2>2, <2>3, <2>4, <2>5 DEF VerifyStep
<1>3. ASSUME AccountStep(w) PROVE req'[w].pc # "insert"
  <2>1. CASE GetPending(w)
    <3> DEFINE pc == IF P(w) \in pending THEN "unpend" ELSE "user"
    <3>1. pc \in Pcs /\ pc # "insert"
      BY <1>p
    <3> QED
      BY <2>1, <3>1, TurnsAre, GoTurns DEF Turns
  <2>2. CASE DropPending(w)
    BY <1>p, <2>2, TurnsAre, GoTurns DEF Turns
  <2>3. CASE FindUser(w)
    BY <2>3, FindUserIs DEF Ends, Turns
  <2>4. CASE Activate(w)
    BY <2>4, ActivateIs DEF Overtakes
  <2>5. CASE InsertUser(w)
    BY <2>5, InsertUserIs DEF Ends, Overtakes
  <2> QED
    BY <1>3, <2>1, <2>2, <2>3, <2>4, <2>5 DEF AccountStep
<1>4. ASSUME BreakOff(w) PROVE FALSE
  BY <1>4, TurnsAre, DoneIs
<1> QED
  BY <1>1, <1>2, <1>3, <1>4 DEF Serves

LEMMA ServesIds ==
  ASSUME TypeInv, IdInv, SixNines \notin Ids, NEW w \in Workers, Serves(w)
  PROVE  IdInv'
<1> SUFFICES ASSUME NEW v \in Workers, req'[v] # Idle, req'[v].pc = "insert", ~req'[v].overtaken
             PROVE  req'[v].n \notin Ids'
  BY DEF IdInv, At, Busy
<1>m. Moves(w) /\ Busy(w)
  BY MovesAre
<1>o. v # w => At(v, "insert") /\ req'[v].n = req[v].n /\ ~req[v].overtaken /\ req[v].n \notin Ids
  BY <1>m DEF Moves, OthersStill, Still, At, Busy, IdInv
<1>1. CASE ChooseId(w)
  <2>1. user' = user
    BY <1>1 DEF ChooseId, people
  <2>2. Ids' = Ids
    BY <2>1 DEF Ids
  <2>3. v = w => req'[v].n \notin Ids
    BY <1>1, NextIdIs, ChooseIdIs
  <2> QED
    BY <1>o, <2>2, <2>3
<1>2. CASE ~ChooseId(w)
  <2>1. v # w
    BY <1>2, ComesToInsert
  <2>2. ~(InsertUser(w) /\ ~Clashes(w))
    BY <1>o, <1>m, <2>1, InsertUserIs DEF Overtakes, At
  <2>3. Ids' \subseteq Ids
    <3>1. CASE UNCHANGED user
      BY <3>1 DEF Ids
    <3>2. CASE DeleteCollected(w)
      BY <3>2, DeletesRow, IdsShrink
    <3>3. CASE Activate(w)
      <4>1. NoUser.pk = 0
        BY DEF NoUser
      <4> QED
        BY <3>3, <4>1, ActivatesRow, IdsShrink
    <3> QED
      BY <2>2, <3>1, <3>2, <3>3, RowsAre
  <2> QED
    BY <1>o, <2>1, <2>3
<1> QED
  BY <1>1, <1>2

LEMMA IdStep == TypeInv /\ IdInv /\ SixNines \notin Ids /\ [Next]_vars => IdInv'
<1> SUFFICES ASSUME TypeInv, IdInv, SixNines \notin Ids, [Next]_vars PROVE IdInv'
  OBVIOUS
<1>1. ASSUME user' = user,
             \A v \in Workers : At(v, "insert")' /\ ~req'[v].overtaken =>
               At(v, "insert") /\ ~req[v].overtaken /\ req'[v].n = req[v].n
      PROVE  IdInv'
  BY <1>1 DEF IdInv, Ids
<1>2. CASE Event \/ UNCHANGED vars
  <2>1. UNCHANGED <<user, req>>
    BY <1>2 DEF Event, EvictCode, EvictPending, Expire, vars, people
  <2> QED
    BY <1>1, <2>1 DEF At, Busy
<1>3. ASSUME NEW b \in Buckets, NewWindow(b) PROVE IdInv'
  <2>1. user' = user
    BY <1>3 DEF NewWindow, people
  <2>2. \A v \in Workers : /\ Still(v)
                           /\ Busy(v) => req'[v].overtaken = req[v].overtaken
                           /\ Busy(v) /\ req[v].pc # "rate" => req'[v].n = req[v].n
    BY <1>3, NewWindowIs DEF At
  <2> QED
    BY <1>1, <2>1, <2>2 DEF Still, At, Busy
<1>4. ASSUME NEW w \in Workers, NEW kind \in Kinds, NEW p \in Phones, NEW code \in Codes,
             NEW sent \in Channels, Begin(w, kind, p, sent, code)
      PROVE  IdInv'
  <2>1. user' = user
    BY <1>4 DEF Begin, people
  <2>2. /\ ~Busy(w) /\ OthersStill(w) /\ req'[w].pc = FirstPc(kind)
        /\ \A v \in Workers \ {w} : Busy(v) => req'[v].n = req[v].n /\ req'[v].overtaken = req[v].overtaken
    BY <1>4, BeginIs DEF Begins
  <2>3. FirstPc(kind) # "insert"
    BY FirstStep
  <2>4. ASSUME NEW v \in Workers, At(v, "insert")', ~req'[v].overtaken
        PROVE  At(v, "insert") /\ ~req[v].overtaken /\ req'[v].n = req[v].n
    <3>1. v # w
      BY <2>2, <2>3, <2>4 DEF At
    <3> QED
      BY <2>2, <2>4, <3>1 DEF OthersStill, Still, At, Busy
  <2> QED
    BY <1>1, <2>1, <2>4
<1> QED
  BY <1>2, <1>3, <1>4, StepsAre, ServesIds

LEMMA IdInit == Init => IdInv
BY DEF Init, IdInv, At, Busy

LEMMA FitsFollow == TypeInv /\ SoloInv /\ PendInv /\ IdInv => NewAccountFits
<1> SUFFICES ASSUME TypeInv, SoloInv, PendInv, IdInv, NEW w \in Workers, At(w, "insert"),
                    ~req[w].overtaken, Phone(P(w)) \notin muddled
             PROVE  ~Clashes(w)
  BY DEF NewAccountFits, Phone
<1>1. Busy(w) /\ req[w].kind \in {"verify_otp", "verify_mobile", "desk"} /\ P(w) \in Phones
  BY KindsOf, RequestIs
<1>2. req[w].solo /\ PendFits(w, P(w))
  BY <1>1, TrustedSolo DEF PendInv, OnPhone
<1>3. user[P(w)] = NoUser
  BY <1>1, <1>2 DEF PendFits, At
<1> QED
  BY <1>3 DEF Clashes, IdInv

\* Matri IDs have not come to the last one of six digits.
SixDigitsLeft == SixNines \notin Ids

\* While Matri IDs of six digits are left, a lone signup that got its code right gets its
\* account: neither its phone nor the id chosen for it is taken when it is inserted
\* (VerifyOTPSerializer.validate).
THEOREM NewAccountAlwaysFits == Spec /\ []SixDigitsLeft => []NewAccountFits
<1> DEFINE AccountInv == TypeInv /\ SoloInv /\ CodeInv /\ UnverifiedInv /\ PendInv /\ IdInv
<1>1. Init => AccountInv
  BY TypeInit, SoloInit, CodeInit, UnverifiedInit, PendInit, IdInit
<1>2. AccountInv /\ SixDigitsLeft /\ [Next]_vars => AccountInv'
  BY TypeStep, SoloStep, CodeStep, UnverifiedStep, PendStep, IdStep DEF SixDigitsLeft
<1>3. AccountInv => NewAccountFits
  BY FitsFollow
<1> QED
  BY <1>1, <1>2, <1>3, PTL DEF Spec

=============================================================================
