------------------------- MODULE ConnectionsProofs -------------------------
(***************************************************************************)
(* Proofs about Connections, for every number of members and of requests.  *)
(***************************************************************************)
EXTENDS Connections, TLAPS

\* What a request of a kind may be about to do.
KindsAt(pc) ==
  CASE pc = "block" -> Kinds \ {"cancel", "block"}
    [] pc = "plan" -> {"accept"}
    [] pc = "accepted" -> {"send", "start", "post", "read", "connect"}
    [] pc \in {"incoming", "reciprocate", "create", "resend"} -> {"send"}
    [] pc = "charge" -> {"send", "start"}
    [] pc = "save" -> Kinds \ {"send"}
    [] pc = "join" -> {"connect"}
    [] pc = "clear" -> {"block"}
    [] pc \in {"wish", "unwish"} -> {"toggle"}

\* A request is between two members, and at a query of its kind.
Formed(r) == r.kind \in KindsAt(r.pc) /\ r.me # r.peer

RequestsFormed ==
  /\ \A w \in Workers : req[w] # Idle => Formed(req[w])
  /\ \A s \in sockets : s.me # s.peer

TypeInv == TypeOK /\ RequestsFormed

----------------------------------------------------------------------------
(* Requests.                                                                 *)

LEMMA KindsKnown ==
  /\ KindsAt("block") = Kinds \ {"cancel", "block"} /\ KindsAt("plan") = {"accept"}
  /\ KindsAt("accepted") = {"send", "start", "post", "read", "connect"}
  /\ \A pc \in {"incoming", "reciprocate", "create", "resend"} : KindsAt(pc) = {"send"}
  /\ KindsAt("charge") = {"send", "start"} /\ KindsAt("save") = Kinds \ {"send"}
  /\ KindsAt("join") = {"connect"} /\ KindsAt("clear") = {"block"}
  /\ \A pc \in {"wish", "unwish"} : KindsAt(pc) = {"toggle"}
<1>1. /\ KindsAt("block") = Kinds \ {"cancel", "block"} /\ KindsAt("plan") = {"accept"}
      /\ KindsAt("accepted") = {"send", "start", "post", "read", "connect"}
  BY DEF KindsAt
<1>2. \A pc \in {"incoming", "reciprocate", "create", "resend"} : KindsAt(pc) = {"send"}
  BY DEF KindsAt
<1>3. /\ KindsAt("charge") = {"send", "start"} /\ KindsAt("save") = Kinds \ {"send"}
      /\ KindsAt("join") = {"connect"} /\ KindsAt("clear") = {"block"}
  BY DEF KindsAt
<1>4. \A pc \in {"wish", "unwish"} : KindsAt(pc) = {"toggle"}
  BY DEF KindsAt
<1> QED
  BY <1>1, <1>2, <1>3, <1>4

LEMMA RequestIs ==
  ASSUME TypeInv, NEW w \in Workers, req[w] # Idle
  PROVE  /\ req[w] \in Request /\ req[w].pc \in Pcs /\ req[w].kind \in Kinds
         /\ req[w].me \in Users /\ req[w].peer \in Users /\ req[w].me # req[w].peer
         /\ req[w].snap \in Snap /\ req[w].kind \in KindsAt(req[w].pc)
         /\ Out(w) \in Pairs /\ In(w) \in Pairs /\ Couple(w) \in Couples
<1>1. req[w] \in Request /\ Formed(req[w])
  BY DEF TypeInv, TypeOK, RequestsFormed
<1>2. /\ req[w].pc \in Pcs /\ req[w].kind \in Kinds /\ req[w].me \in Users /\ req[w].peer \in Users
      /\ req[w].snap \in Snap /\ req[w].me # req[w].peer /\ req[w].kind \in KindsAt(req[w].pc)
  BY <1>1 DEF Request, Formed
<1>3. Out(w) \in Pairs /\ In(w) \in Pairs
  BY <1>2 DEF Out, In, Pairs
<1>4. Couple(w) \in Couples
  <2>1. Couple(w) = {Out(w)[1], Out(w)[2]}
    BY DEF Couple, Out
  <2> QED
    BY <1>3, <2>1 DEF Couples
<1> QED
  BY <1>1, <1>2, <1>3, <1>4

\* A request is never at the pc of Idle.
LEMMA PcsBusy == "idle" \notin Pcs /\ \A r \in Request : r # Idle
<1>1. "idle" \notin Pcs
  BY DEF Pcs
<1> QED
  BY <1>1 DEF Request, Idle

\* The requests other than w's stand where they stood.
Alone(w) == \A v \in Workers \ {w} : req'[v] = req[v]

\* The request of w goes on with the query pc, for the same members.
Moved(w, pc) ==
  /\ Alone(w) /\ req'[w] # Idle /\ req'[w].pc = pc /\ req'[w].kind = req[w].kind
  /\ req'[w].me = req[w].me /\ req'[w].peer = req[w].peer

LEMMA GoMoves ==
  ASSUME TypeInv, NEW w \in Workers, req[w] # Idle, NEW pc \in Pcs, Go(w, pc)
  PROVE  /\ Moved(w, pc) /\ req' \in [Workers -> Request \cup {Idle}]
         /\ req'[w].snap = req[w].snap
<1> DEFINE r == [req[w] EXCEPT !.pc = pc]
<1>1. r \in Request /\ r.pc = pc /\ r.kind = req[w].kind /\ r.me = req[w].me /\ r.peer = req[w].peer
      /\ r.snap = req[w].snap
  BY RequestIs DEF Request
<1>2. req' = [req EXCEPT ![w] = r]
  BY DEF Go
<1>3. r # Idle
  BY <1>1, PcsBusy
<1> HIDE DEF r
<1> QED
  BY <1>1, <1>2, <1>3 DEF Moved, Alone, TypeInv, TypeOK

LEMMA DoneMoves ==
  ASSUME TypeInv, NEW w \in Workers, Done(w)
  PROVE  Alone(w) /\ req'[w] = Idle /\ req' \in [Workers -> Request \cup {Idle}]
  BY DEF Done, Alone, TypeInv, TypeOK

\* What follows the check of the block.
LEMMA AfterBlockIs ==
  /\ AfterBlock("accept") = "plan" /\ AfterBlock("toggle") = "wish"
  /\ \A kind \in {"reject", "say"} : AfterBlock(kind) = "save"
  /\ \A kind \in {"send", "start", "post", "read", "connect"} : AfterBlock(kind) = "accepted"
<1>1. AfterBlock("accept") = "plan" /\ AfterBlock("toggle") = "wish"
  BY DEF AfterBlock
<1>2. \A kind \in {"reject", "say"} : AfterBlock(kind) = "save"
  BY DEF AfterBlock
<1>3. \A kind \in {"send", "start", "post", "read", "connect"} : AfterBlock(kind) = "accepted"
  BY DEF AfterBlock
<1> QED
  BY <1>1, <1>2, <1>3

\* The queries in their order.
Follows(w, pc) ==
  LET at == req[w].pc
      kind == req[w].kind
  IN  \/ at = "block" /\ pc = AfterBlock(kind) /\ ~AreBlocked(Couple(w)) /\ UNCHANGED tables
      \/ at = "plan" /\ pc = "save"
      \/ at = "accepted" /\ kind = "send" /\ pc = "incoming"
      \/ at = "accepted" /\ kind # "send" /\ pc = "save" /\ Connected(Couple(w)) /\ UNCHANGED tables
      \/ at = "incoming" /\ pc = "reciprocate"
      \/ at = "incoming" /\ pc = "create" /\ interest[In(w)] # "pending" /\ UNCHANGED tables
      \/ at = "create" /\ pc \in {"charge", "resend"}
      \/ at = "resend" /\ pc = "charge"
      \/ at = "save" /\ kind = "start" /\ pc = "charge" /\ Couple(w) \notin conversations
      \/ at = "save" /\ kind = "connect" /\ pc = "join"
      \/ at = "save" /\ kind = "block" /\ pc = "clear"
      \/ at = "wish" /\ pc \in {"save", "unwish"}

Goes(w) == \E pc \in Pcs : Moved(w, pc) /\ Follows(w, pc)
Ends(w) == Alone(w) /\ req'[w] = Idle

LEMMA StepMoves ==
  ASSUME TypeInv, NEW w \in Workers, Step(w)
  PROVE  /\ req[w] # Idle /\ req[w].pc \in Pcs
         /\ req' \in [Workers -> Request \cup {Idle}]
         /\ Goes(w) \/ Ends(w)
<1>p. /\ {"block", "plan", "accepted", "incoming", "reciprocate", "create", "resend",
          "charge", "save", "join", "clear", "wish", "unwish"} \subseteq Pcs
  BY DEF Pcs
<1>b. req[w] # Idle
  BY DEF Step, At, CheckBlock, CheckPlan, CheckAccepted, FindIncoming, Reciprocate, CreateInterest,
         Resend, Charge, Respond, Cancel, StartChat, SaveMessage, MarkRead, Join, Block, ClearWishes,
         LookUpWish, DeleteWish, AddWish
<1>g. ASSUME NEW pc \in Pcs, Go(w, pc), Follows(w, pc)
      PROVE  req' \in [Workers -> Request \cup {Idle}] /\ (Goes(w) \/ Ends(w))
  BY <1>b, <1>g, GoMoves DEF Goes
<1>d. Done(w) => req' \in [Workers -> Request \cup {Idle}] /\ (Goes(w) \/ Ends(w))
  BY DoneMoves DEF Ends
<1>k. req[w].kind \in Kinds /\ req[w].kind \in KindsAt(req[w].pc)
  BY <1>b, RequestIs
<1>1. CASE CheckBlock(w)
  <2>1. PICK pc \in Pcs : pc = AfterBlock(req[w].kind)
    BY <1>1, <1>k, <1>p, KindsKnown, AfterBlockIs DEF CheckBlock, At, Kinds
  <2>2. Done(w) \/ (Go(w, pc) /\ ~AreBlocked(Couple(w)))
    BY <1>1, <2>1 DEF CheckBlock
  <2>3. req[w].pc = "block" /\ UNCHANGED tables
    BY <1>1 DEF CheckBlock, At
  <2>4. ~AreBlocked(Couple(w)) => Follows(w, pc)
    BY <2>1, <2>3 DEF Follows
  <2> QED
    BY <1>b, <1>d, <1>g, <2>2, <2>4, RequestIs
<1>2. CASE CheckPlan(w)
  BY <1>2, <1>b, <1>d, <1>g, <1>p, RequestIs DEF CheckPlan, At, Follows
<1>3. CASE CheckAccepted(w)
  <2>1. \/ Done(w)
        \/ req[w].kind = "send" /\ Go(w, "incoming")
        \/ req[w].kind # "send" /\ Go(w, "save") /\ Connected(Couple(w))
    BY <1>3 DEF CheckAccepted
  <2>2. At(w, "accepted") /\ UNCHANGED tables
    BY <1>3 DEF CheckAccepted
  <2> QED
    BY <1>b, <1>d, <1>g, <1>p, <2>1, <2>2, RequestIs DEF At, Follows
<1>4. CASE FindIncoming(w)
  <2>1. \/ Go(w, "reciprocate")
        \/ Go(w, "create") /\ interest[In(w)] # "pending"
    BY <1>4 DEF FindIncoming
  <2>2. At(w, "incoming") /\ UNCHANGED tables
    BY <1>4 DEF FindIncoming
  <2> QED
    BY <1>b, <1>d, <1>g, <1>p, <2>1, <2>2, RequestIs DEF At, Follows
<1>5. CASE CreateInterest(w)
  <2>1. At(w, "create") /\ (Done(w) \/ Go(w, "charge") \/ Go(w, "resend"))
    BY <1>5 DEF CreateInterest
  <2> QED
    BY <1>b, <1>d, <1>g, <1>p, <2>1, RequestIs DEF At, Follows
<1>6. CASE Resend(w)
  BY <1>6, <1>b, <1>d, <1>g, <1>p, RequestIs DEF Resend, At, Follows
<1>7. CASE StartChat(w)
  BY <1>7, <1>b, <1>d, <1>g, <1>p, RequestIs DEF StartChat, At, Follows
<1>8. CASE MarkRead(w)
  BY <1>8, <1>b, <1>d, <1>g, <1>p, RequestIs DEF MarkRead, At, Follows
<1>9. CASE Block(w)
  BY <1>9, <1>b, <1>d, <1>g, <1>p, RequestIs DEF Block, At, Follows
<1>10. CASE LookUpWish(w)
  <2>1. At(w, "wish") /\ (Go(w, "unwish") \/ Go(w, "save"))
    BY <1>10 DEF LookUpWish
  <2> QED
    BY <1>b, <1>d, <1>g, <1>p, <2>1, RequestIs DEF At, Follows
<1>11. CASE \/ Reciprocate(w) \/ Charge(w) \/ Respond(w) \/ Cancel(w) \/ SaveMessage(w) \/ Join(w)
            \/ ClearWishes(w) \/ DeleteWish(w) \/ AddWish(w)
  <2>1. Done(w)
    BY <1>11 DEF Reciprocate, Charge, Respond, Cancel, SaveMessage, Join, ClearWishes, DeleteWish, AddWish
  <2> QED
    BY <1>b, <1>d, <2>1, RequestIs
<1>12. req[w].pc \in Pcs
  BY <1>b, RequestIs
<1> QED
  BY <1>b, <1>12, <1>1, <1>2, <1>3, <1>4, <1>5, <1>6, <1>7, <1>8, <1>9, <1>10, <1>11 DEF Step

\* A step that opens a request.
Opens(w, kind, me, peer) ==
  /\ Alone(w) /\ req[w] = Idle /\ req'[w] # Idle
  /\ req'[w].kind = kind /\ req'[w].me = me /\ req'[w].peer = peer /\ me # peer
  /\ req'[w].pc = IF kind \in {"cancel", "block"} THEN "save" ELSE "block"

LEMMA BeginMoves ==
  ASSUME TypeInv, NEW w \in Workers, NEW kind \in mix \ {"say", "plan"}, NEW me \in Users,
         NEW peer \in Users, Begin(w, kind, me, peer)
  PROVE  req' \in [Workers -> Request \cup {Idle}] /\ Opens(w, kind, me, peer) /\ kind \in Kinds
<1> DEFINE r == [pc |-> IF kind \in {"cancel", "block"} THEN "save" ELSE "block",
                 kind |-> kind, me |-> me, peer |-> peer, snap |-> Cached(kind)]
<1>1. kind \in Kinds
  BY DEF TypeInv, TypeOK
<1>2. Cached(kind) \in Snap
  <2>1. Cached(kind) \in {{"stored", "valid"}, {"valid"}, {}}
    BY DEF Cached
  <2> QED
    BY <2>1 DEF Snap
<1>3. r \in Request
  BY <1>1, <1>2 DEF Request, Pcs
<1>4. req' = [req EXCEPT ![w] = r] /\ me # peer /\ req[w] = Idle
  BY DEF Begin
<1>5. r # Idle /\ r.kind = kind /\ r.me = me /\ r.peer = peer
      /\ r.pc = IF kind \in {"cancel", "block"} THEN "save" ELSE "block"
  BY <1>3, PcsBusy
<1> HIDE DEF r
<1> QED
  BY <1>1, <1>3, <1>4, <1>5 DEF Opens, Alone, TypeInv, TypeOK

LEMMA SayMoves ==
  ASSUME TypeInv, NEW w \in Workers, NEW s \in sockets, BeginSay(w, s)
  PROVE  /\ req' \in [Workers -> Request \cup {Idle}] /\ Opens(w, "say", s.me, s.peer)
         /\ s.me \in Users /\ s.peer \in Users
<1> DEFINE r == [pc |-> "block", kind |-> "say", me |-> s.me, peer |-> s.peer, snap |-> s.snap]
<1>1. s \in Socket /\ s.me # s.peer
  BY DEF TypeInv, TypeOK, RequestsFormed
<1>2. r \in Request
  BY <1>1 DEF Request, Socket, Pcs, Kinds
<1>3. req' = [req EXCEPT ![w] = r] /\ req[w] = Idle
  BY DEF BeginSay
<1>4. r # Idle /\ r.kind = "say" /\ r.me = s.me /\ r.peer = s.peer /\ r.pc = "block"
  BY <1>2, PcsBusy
<1> HIDE DEF r
<1> QED
  BY <1>1, <1>2, <1>3, <1>4 DEF Opens, Alone, TypeInv, TypeOK, Socket

\* A step that is nobody's: the requests stay, but for what their cached plan is worth.
Keeps(v) ==
  \/ req[v] = Idle /\ req'[v] = Idle
  \/ /\ req[v] # Idle /\ req'[v] # Idle /\ req'[v].pc = req[v].pc /\ req'[v].kind = req[v].kind
     /\ req'[v].me = req[v].me /\ req'[v].peer = req[v].peer

LEMMA RecacheKeeps ==
  ASSUME TypeInv, NEW u, NEW lost, Recache(u, lost)
  PROVE  /\ req' \in [Workers -> Request \cup {Idle}]
         /\ \A v \in Workers : Keeps(v)
         /\ sockets' \subseteq Socket
         /\ \A t \in sockets' : \E s \in sockets : t.me = s.me /\ t.peer = s.peer
<1>1. ASSUME NEW v \in Workers, req[v] # Idle
      PROVE  /\ [req[v] EXCEPT !.snap = @ \ {lost}] \in Request
             /\ [req[v] EXCEPT !.snap = @ \ {lost}].pc = req[v].pc
             /\ [req[v] EXCEPT !.snap = @ \ {lost}].kind = req[v].kind
             /\ [req[v] EXCEPT !.snap = @ \ {lost}].me = req[v].me
             /\ [req[v] EXCEPT !.snap = @ \ {lost}].peer = req[v].peer
  BY <1>1, RequestIs DEF Request, Snap
<1>2. ASSUME NEW v \in Workers
      PROVE  req'[v] \in Request \cup {Idle} /\ Keeps(v)
  <2>1. req'[v] = IF req[v] # Idle /\ req[v].me = u THEN [req[v] EXCEPT !.snap = @ \ {lost}] ELSE req[v]
    BY DEF Recache
  <2>2. req[v] \in Request \cup {Idle}
    BY DEF TypeInv, TypeOK
  <2>3. CASE req[v] # Idle /\ req[v].me = u
    <3> DEFINE r == [req[v] EXCEPT !.snap = @ \ {lost}]
    <3>1. r \in Request /\ r.pc = req[v].pc /\ r.kind = req[v].kind /\ r.me = req[v].me /\ r.peer = req[v].peer
      BY <1>1, <2>3
    <3>2. req'[v] = r
      BY <2>1, <2>3
    <3> HIDE DEF r
    <3> QED
      BY <2>3, <3>1, <3>2, PcsBusy DEF Keeps
  <2>4. CASE ~(req[v] # Idle /\ req[v].me = u)
    BY <2>1, <2>2, <2>4 DEF Keeps
  <2> QED
    BY <2>3, <2>4
<1>3. req' \in [Workers -> Request \cup {Idle}]
  <2>1. req' = [v \in Workers |->
          IF req[v] # Idle /\ req[v].me = u THEN [req[v] EXCEPT !.snap = @ \ {lost}] ELSE req[v]]
    BY DEF Recache
  <2> QED
    BY <1>2, <2>1
<1>4. ASSUME NEW t \in sockets'
      PROVE  t \in Socket /\ \E s \in sockets : t.me = s.me /\ t.peer = s.peer
  <2>1. PICK s \in sockets : t = IF s.me = u THEN [s EXCEPT !.snap = @ \ {lost}] ELSE s
    BY <1>4 DEF Recache
  <2>2. s \in Socket
    BY DEF TypeInv, TypeOK
  <2> QED
    BY <2>1, <2>2 DEF Socket, Snap
<1> QED
  BY <1>2, <1>3, <1>4

----------------------------------------------------------------------------
(* What a query of a request changes in the tables.                          *)

InterestTouched(w) ==
  /\ interest' \in [Pairs -> Statuses]
  /\ \A p \in Pairs : interest'[p] # interest[p] =>
       \/ p = Out(w) /\ req[w].pc \in {"create", "resend"} /\ interest'[p] = "pending"
       \/ /\ p = In(w) /\ interest'[p] = "accepted"
          /\ req[w].pc = "reciprocate" \/ (req[w].pc = "save" /\ req[w].kind = "accept")
       \/ req[w].pc = "save" /\ interest'[p] \in {"rejected", "cancelled"}

WishesTouched(w) ==
  /\ wished' \subseteq Pairs /\ stray' \subseteq Pairs
  /\ \A p \in wished' \ wished :
       /\ p = Out(w) /\ req[w].pc = "save" /\ req[w].kind = "toggle"
       /\ AreBlocked(Couple(w)) => p \in stray'
  /\ wished' \cap stray \subseteq stray'

ChatTouched(w) ==
  /\ unread' \subseteq Pairs /\ conversations \subseteq conversations' /\ conversations' \subseteq Couples
  /\ \A p \in unread' \ unread : p = Out(w) /\ req[w].pc = "save" /\ req[w].kind \in {"post", "say"}
  /\ \A p \in unread \ unread' : p = In(w) /\ req[w].pc = "save" /\ req[w].kind \in {"read", "connect"}
  /\ \A c \in conversations' \ conversations :
       c = Couple(w) /\ req[w].pc = "save" /\ req[w].kind = "start"
  /\ (req[w].pc = "save" /\ req[w].kind = "start") => Couple(w) \in conversations'

ChargesTouched(w) ==
  /\ chatCharges' \in [Couples -> Nat]
  /\ \A c \in Couples : chatCharges'[c] # chatCharges[c] =>
       /\ c = Couple(w) /\ req[w].pc = "charge" /\ req[w].kind = "start"
       /\ chatCharges'[c] = chatCharges[c] + 1

SocketsTouched(w) ==
  /\ sockets' \subseteq Socket
  /\ \A t \in sockets' \ sockets : req[w].pc = "join" /\ t.me = req[w].me /\ t.peer = req[w].peer

BlockedTouched(w) ==
  /\ blocked' \subseteq Pairs
  /\ blocked \subseteq blocked'
  /\ \A p \in blocked' \ blocked : p = Out(w) /\ req[w].pc = "save" /\ req[w].kind = "block"

Touched(w) ==
  /\ InterestTouched(w) /\ WishesTouched(w) /\ ChatTouched(w) /\ ChargesTouched(w)
  /\ SocketsTouched(w) /\ BlockedTouched(w) /\ crossed' = crossed /\ subscribed' = subscribed

LEMMA StepTouches ==
  ASSUME TypeInv, NEW w \in Workers, Step(w)
  PROVE  Touched(w)
<1>b. req[w] # Idle
  BY StepMoves
<1>r. /\ Out(w) \in Pairs /\ In(w) \in Pairs /\ Couple(w) \in Couples
      /\ req[w].me \in Users /\ req[w].peer \in Users /\ req[w].snap \in Snap
  BY <1>b, RequestIs
<1>t. TypeOK
  BY DEF TypeInv
<1>i. interest' = interest => InterestTouched(w)
  BY <1>t DEF TypeOK, InterestTouched
<1>w. wished' = wished /\ stray' = stray => WishesTouched(w)
  BY <1>t DEF TypeOK, WishesTouched
<1>c. UNCHANGED <<unread, conversations>> /\ ~(req[w].pc = "save" /\ req[w].kind = "start")
        => ChatTouched(w)
  BY <1>t DEF TypeOK, ChatTouched
<1>g. chatCharges' = chatCharges => ChargesTouched(w)
  BY <1>t DEF TypeOK, ChargesTouched
<1>s. sockets' = sockets => SocketsTouched(w)
  BY <1>t DEF TypeOK, SocketsTouched
<1>k. blocked' = blocked => BlockedTouched(w)
  BY <1>t DEF TypeOK, BlockedTouched
<1> USE DEF tables
<1>1. CASE CheckBlock(w) \/ CheckPlan(w) \/ CheckAccepted(w) \/ FindIncoming(w) \/ LookUpWish(w)
  <2>1. req[w].pc \in {"block", "plan", "accepted", "incoming", "wish"}
    BY <1>1 DEF CheckBlock, CheckPlan, CheckAccepted, FindIncoming, LookUpWish, At
  <2>2. UNCHANGED <<interest, blocked, wished, conversations, unread, subscribed, sockets, crossed,
                    stray, chatCharges>>
    BY <1>1 DEF CheckBlock, CheckPlan, CheckAccepted, FindIncoming, LookUpWish
  <2> QED
    BY <1>i, <1>w, <1>c, <1>g, <1>s, <1>k, <2>1, <2>2 DEF Touched
<1>2. CASE Reciprocate(w) \/ CreateInterest(w) \/ Resend(w) \/ Respond(w) \/ Cancel(w)
  <2>1. UNCHANGED <<blocked, wished, conversations, unread, subscribed, sockets, crossed, stray,
                    chatCharges>>
    BY <1>2 DEF Reciprocate, CreateInterest, Resend, Respond, Cancel
  <2>2. ~(req[w].pc = "save" /\ req[w].kind = "start")
    BY <1>2 DEF Reciprocate, CreateInterest, Resend, Respond, Cancel, At
  <2>3. InterestTouched(w)
    <3>1. CASE interest' = interest
      BY <1>i, <3>1
    <3>2. ASSUME NEW p \in Pairs, NEW x \in Statuses, interest' = [interest EXCEPT ![p] = x],
                 \/ p = Out(w) /\ req[w].pc \in {"create", "resend"} /\ x = "pending"
                 \/ /\ p = In(w) /\ x = "accepted"
                    /\ req[w].pc = "reciprocate" \/ (req[w].pc = "save" /\ req[w].kind = "accept")
                 \/ req[w].pc = "save" /\ x \in {"rejected", "cancelled"}
          PROVE  InterestTouched(w)
      BY <1>t, <3>2 DEF InterestTouched, TypeOK
    <3>3. CASE Reciprocate(w)
      BY <1>r, <3>1, <3>2, <3>3 DEF Reciprocate, At, Statuses
    <3>4. CASE CreateInterest(w)
      BY <1>r, <3>1, <3>2, <3>4 DEF CreateInterest, At, Statuses
    <3>5. CASE Resend(w)
      BY <1>r, <3>2, <3>5 DEF Resend, At, Statuses
    <3>6. CASE Respond(w)
      <4>1. CASE req[w].kind = "accept"
        BY <1>r, <3>2, <3>6, <4>1 DEF Respond, At, Statuses
      <4>2. CASE req[w].kind # "accept"
        BY <1>r, <3>2, <3>6, <4>2 DEF Respond, At, Statuses
      <4> QED
        BY <4>1, <4>2
    <3>7. CASE Cancel(w)
      BY <1>r, <3>2, <3>7 DEF Cancel, At, Statuses
    <3> QED
      BY <1>2, <3>3, <3>4, <3>5, <3>6, <3>7
  <2> QED
    BY <1>w, <1>c, <1>g, <1>s, <1>k, <2>1, <2>2, <2>3 DEF Touched
<1>3. CASE Charge(w)
  <2>1. UNCHANGED <<interest, blocked, wished, conversations, unread, subscribed, sockets, crossed,
                    stray>>
    BY <1>3 DEF Charge
  <2>2. req[w].pc = "charge"
    BY <1>3 DEF Charge, At
  <2>3. ChargesTouched(w)
    <3>1. CASE chatCharges' = chatCharges
      BY <1>g, <3>1
    <3>2. CASE req[w].kind = "start" /\ chatCharges' = [chatCharges EXCEPT ![Couple(w)] = @ + 1]
      BY <1>t, <1>r, <2>2, <3>2 DEF ChargesTouched, TypeOK
    <3> QED
      BY <1>3, <3>1, <3>2 DEF Charge
  <2> QED
    BY <1>i, <1>w, <1>c, <1>s, <1>k, <2>1, <2>2, <2>3 DEF Touched
<1>4. CASE StartChat(w) \/ SaveMessage(w) \/ MarkRead(w)
  <2>1. UNCHANGED <<interest, blocked, wished, subscribed, sockets, crossed, stray, chatCharges>>
    BY <1>4 DEF StartChat, SaveMessage, MarkRead
  <2>2. ChatTouched(w)
    <3>1. CASE StartChat(w)
      BY <1>t, <1>r, <3>1 DEF StartChat, At, ChatTouched, TypeOK
    <3>2. CASE SaveMessage(w)
      BY <1>t, <1>r, <3>2 DEF SaveMessage, At, ChatTouched, TypeOK
    <3>3. CASE MarkRead(w)
      BY <1>t, <1>r, <3>3 DEF MarkRead, At, ChatTouched, TypeOK
    <3> QED
      BY <1>4, <3>1, <3>2, <3>3
  <2> QED
    BY <1>i, <1>w, <1>g, <1>s, <1>k, <2>1, <2>2 DEF Touched
<1>5. CASE Join(w)
  <2>1. UNCHANGED <<interest, blocked, wished, conversations, unread, subscribed, crossed, stray,
                    chatCharges>> /\ req[w].pc = "join"
    BY <1>5 DEF Join, At
  <2>2. SocketsTouched(w)
    BY <1>t, <1>r, <1>5 DEF Join, At, SocketsTouched, TypeOK, Socket
  <2> QED
    BY <1>i, <1>w, <1>c, <1>g, <1>k, <2>1, <2>2 DEF Touched
<1>6. CASE Block(w)
  <2>1. UNCHANGED <<interest, wished, conversations, unread, subscribed, sockets, crossed, stray,
                    chatCharges>>
    BY <1>6 DEF Block
  <2>2. req[w].pc = "save" /\ req[w].kind = "block" /\ blocked' = blocked \cup {Out(w)}
    BY <1>6 DEF Block, At
  <2>3. BlockedTouched(w)
    BY <1>t, <1>r, <2>2 DEF BlockedTouched, TypeOK
  <2> QED
    BY <1>i, <1>w, <1>c, <1>g, <1>s, <2>1, <2>2, <2>3 DEF Touched
<1>7. CASE ClearWishes(w) \/ DeleteWish(w) \/ AddWish(w)
  <2>1. UNCHANGED <<interest, blocked, conversations, unread, subscribed, sockets, crossed, chatCharges>>
    BY <1>7 DEF ClearWishes, DeleteWish, AddWish
  <2>2. ~(req[w].pc = "save" /\ req[w].kind = "start")
    BY <1>7 DEF ClearWishes, DeleteWish, AddWish, At
  <2>3. WishesTouched(w)
    <3>1. CASE ClearWishes(w)
      BY <1>t, <3>1 DEF ClearWishes, WishesTouched, TypeOK
    <3>2. CASE DeleteWish(w)
      BY <1>t, <3>2 DEF DeleteWish, WishesTouched, TypeOK
    <3>3. CASE AddWish(w)
      BY <1>t, <1>r, <3>3 DEF AddWish, At, WishesTouched, TypeOK
    <3> QED
      BY <1>7, <3>1, <3>2, <3>3
  <2> QED
    BY <1>i, <1>c, <1>g, <1>s, <1>k, <2>1, <2>2, <2>3 DEF Touched
<1> QED
  BY <1>1, <1>2, <1>3, <1>4, <1>5, <1>6, <1>7 DEF Step

\* What a step that is no query of a request changes in the tables: rows go, and sockets.
Aside ==
  /\ UNCHANGED <<interest, unread, conversations, chatCharges>>
  /\ wished' \subseteq wished /\ blocked' \subseteq blocked
  /\ stray' \subseteq Pairs /\ wished' \cap stray \subseteq stray'
  /\ sockets' \subseteq Socket
  /\ \A t \in sockets' : \E s \in sockets : t.me = s.me /\ t.peer = s.peer
  /\ crossed \subseteq crossed' /\ crossed' \subseteq Couples
  /\ subscribed' \subseteq Users

\* The worker of a request died; if the request had blocked, the wishes are on record.
Dies(w) ==
  /\ req[w] # Idle /\ Ends(w) /\ Aside
  /\ req[w].pc = "clear" => wished' \cap {Out(w), In(w)} \subseteq stray'

\* What a step is.
Steps ==
  \/ \E w \in Workers : Step(w) /\ (Goes(w) \/ Ends(w)) /\ Touched(w)
  \/ \E w \in Workers, kind \in Kinds \ {"say"}, me, peer \in Users :
       Begin(w, kind, me, peer) /\ Opens(w, kind, me, peer) /\ Aside
  \/ \E w \in Workers, s \in sockets : BeginSay(w, s) /\ Opens(w, "say", s.me, s.peer) /\ Aside
  \/ \E w \in Workers : Dies(w)
  \/ (\A w \in Workers : Keeps(w)) /\ Aside

LEMMA NextSteps ==
  ASSUME TypeInv, [Next]_vars
  PROVE  Steps /\ req' \in [Workers -> Request \cup {Idle}]
<1>t. TypeOK
  BY DEF TypeInv
<1>a. ASSUME UNCHANGED <<tables, subscribed, sockets, crossed, stray, chatCharges>> PROVE Aside
  BY <1>a, <1>t DEF Aside, tables, TypeOK
<1>k. req' = req => (\A w \in Workers : Keeps(w)) /\ req' \in [Workers -> Request \cup {Idle}]
  BY <1>t DEF Keeps, TypeOK
<1>1. ASSUME NEW w \in Workers, NEW kind \in mix \ {"say", "plan"}, NEW me \in Users, NEW peer \in Users,
             Begin(w, kind, me, peer)
      PROVE  Steps /\ req' \in [Workers -> Request \cup {Idle}]
  <2>1. crossed \subseteq crossed' /\ crossed' \subseteq Couples
    <3>1. me # peer => {me, peer} \in Couples
      <4>1. me # peer => <<me, peer>> \in Pairs /\ {me, peer} = {<<me, peer>>[1], <<me, peer>>[2]}
        BY DEF Pairs
      <4> QED
        BY <4>1 DEF Couples
    <3> QED
      BY <1>1, <1>t, <3>1 DEF Begin, TypeOK
  <2>2. Aside
    BY <1>1, <1>t, <2>1 DEF Begin, Aside, tables, TypeOK
  <2>3. /\ req' \in [Workers -> Request \cup {Idle}] /\ Opens(w, kind, me, peer)
        /\ kind \in Kinds \ {"say"}
    BY <1>1, BeginMoves
  <2> QED
    BY <1>1, <2>2, <2>3 DEF Steps
<1>2. ASSUME NEW w \in Workers, NEW s \in sockets, BeginSay(w, s)
      PROVE  Steps /\ req' \in [Workers -> Request \cup {Idle}]
  <2>1. Aside
    BY <1>2, <1>a DEF BeginSay
  <2> QED
    BY <1>2, <2>1, SayMoves DEF Steps
<1>3. ASSUME NEW w \in Workers, Step(w)
      PROVE  Steps /\ req' \in [Workers -> Request \cup {Idle}]
  BY <1>3, StepMoves, StepTouches DEF Steps
<1>4. ASSUME NEW w \in Workers, Crash(w)
      PROVE  Steps /\ req' \in [Workers -> Request \cup {Idle}]
  <2>1. req[w] # Idle /\ Done(w) /\ UNCHANGED <<tables, subscribed, sockets, crossed, chatCharges>>
    BY <1>4 DEF Crash
  <2>2. Ends(w) /\ req' \in [Workers -> Request \cup {Idle}]
    BY <2>1, DoneMoves DEF Ends
  <2>3. stray' = IF req[w].pc = "clear" THEN stray \cup (wished \cap {Out(w), In(w)}) ELSE stray
    BY <1>4, <2>1 DEF Crash, At
  <2>4. Aside
    BY <1>t, <2>1, <2>3 DEF Aside, tables, TypeOK
  <2>5. Dies(w)
    BY <2>1, <2>2, <2>3, <2>4 DEF Dies, tables
  <2> QED
    BY <2>2, <2>5 DEF Steps
<1>5. ASSUME NEW s \in sockets, Disconnect(s)
      PROVE  Steps /\ req' \in [Workers -> Request \cup {Idle}]
  <2>1. Aside
    BY <1>5, <1>t DEF Disconnect, Aside, tables, TypeOK
  <2> QED
    BY <1>5, <1>k, <2>1 DEF Steps, Disconnect
<1>6. ASSUME NEW a \in Users, NEW b \in Users, Unblock(a, b)
      PROVE  Steps /\ req' \in [Workers -> Request \cup {Idle}]
  <2>1. Aside
    BY <1>6, <1>t DEF Unblock, Aside, TypeOK
  <2> QED
    BY <1>6, <1>k, <2>1 DEF Steps, Unblock
<1>7. ASSUME NEW p \in Pairs, RemoveWish(p)
      PROVE  Steps /\ req' \in [Workers -> Request \cup {Idle}]
  <2>1. Aside
    BY <1>7, <1>t DEF RemoveWish, Aside, TypeOK
  <2> QED
    BY <1>7, <1>k, <2>1 DEF Steps, RemoveWish
<1>8. ASSUME NEW u \in Users, BuyPlan(u)
      PROVE  Steps /\ req' \in [Workers -> Request \cup {Idle}]
  <2>1. Aside
    BY <1>8, <1>t DEF BuyPlan, Aside, tables, TypeOK
  <2> QED
    BY <1>8, <1>k, <2>1 DEF Steps, BuyPlan
<1>9. ASSUME NEW u \in Users, NEW lost \in {"stored", "valid"}, LosePlan(u, lost)
      PROVE  Steps /\ req' \in [Workers -> Request \cup {Idle}]
  <2>1. Recache(u, lost) /\ subscribed' = subscribed \ {u}
    BY <1>9 DEF LosePlan
  <2>2. /\ req' \in [Workers -> Request \cup {Idle}] /\ \A v \in Workers : Keeps(v)
        /\ sockets' \subseteq Socket
        /\ \A t \in sockets' : \E s \in sockets : t.me = s.me /\ t.peer = s.peer
    BY <2>1, RecacheKeeps
  <2>3. UNCHANGED <<interest, blocked, wished, conversations, unread, crossed, stray, chatCharges>>
    BY <2>1 DEF Recache, tables
  <2>4. Aside
    BY <1>t, <2>1, <2>2, <2>3 DEF Aside, TypeOK
  <2> QED
    BY <2>2, <2>4 DEF Steps
<1>10. CASE UNCHANGED vars
  <2>1. Aside
    BY <1>10, <1>a DEF vars
  <2> QED
    BY <1>10, <1>k, <2>1 DEF Steps, vars
<1> QED
  BY <1>1, <1>2, <1>3, <1>4, <1>5, <1>6, <1>7, <1>8, <1>9, <1>10 DEF Next

\* How a request that is open after a step came there: it stood, it went on, it began.
Fate(v) ==
  \/ req[v] # Idle /\ Keeps(v)
  \/ Step(v) /\ Touched(v) /\ Moved(v, req'[v].pc) /\ Follows(v, req'[v].pc)
  \/ \E kind \in Kinds \ {"say"}, me, peer \in Users :
       Begin(v, kind, me, peer) /\ Opens(v, kind, me, peer) /\ Aside
  \/ \E s \in sockets : BeginSay(v, s) /\ Opens(v, "say", s.me, s.peer) /\ Aside

LEMMA Fates ==
  ASSUME TypeInv, Steps, NEW v \in Workers, req'[v] # Idle
  PROVE  Fate(v)
<1>a. ASSUME NEW w \in Workers, v # w, Alone(w) PROVE Fate(v)
  BY <1>a DEF Alone, Fate, Keeps
<1>1. ASSUME NEW w \in Workers, Step(w) /\ (Goes(w) \/ Ends(w)) /\ Touched(w) PROVE Fate(v)
  <2>1. CASE v = w
    <3>1. PICK pc \in Pcs : Moved(v, pc) /\ Follows(v, pc)
      BY <1>1, <2>1 DEF Goes, Ends
    <3>2. pc = req'[v].pc
      BY <3>1 DEF Moved
    <3> QED
      BY <1>1, <2>1, <3>1, <3>2 DEF Fate
  <2>2. CASE v # w
    BY <1>1, <1>a, <2>2 DEF Goes, Ends, Moved
  <2> QED
    BY <2>1, <2>2
<1>2. ASSUME NEW w \in Workers, NEW kind \in Kinds \ {"say"}, NEW me \in Users, NEW peer \in Users,
             Begin(w, kind, me, peer) /\ Opens(w, kind, me, peer) /\ Aside
      PROVE  Fate(v)
  BY <1>2, <1>a DEF Opens, Fate
<1>3. ASSUME NEW w \in Workers, NEW s \in sockets,
             BeginSay(w, s) /\ Opens(w, "say", s.me, s.peer) /\ Aside
      PROVE  Fate(v)
  BY <1>3, <1>a DEF Opens, Fate
<1>4. ASSUME NEW w \in Workers, Dies(w) PROVE Fate(v)
  BY <1>4, <1>a DEF Dies, Ends
<1>5. CASE \A w \in Workers : Keeps(w)
  BY <1>5 DEF Keeps, Fate
<1> QED
  BY <1>1, <1>2, <1>3, <1>4, <1>5 DEF Steps

----------------------------------------------------------------------------
(* Types.                                                                    *)

LEMMA FollowsForm ==
  ASSUME TypeInv, NEW v \in Workers, req[v] # Idle, Moved(v, req'[v].pc), Follows(v, req'[v].pc)
  PROVE  Formed(req'[v])
<1>1. /\ req[v].kind \in KindsAt(req[v].pc) /\ req[v].kind \in Kinds /\ req[v].me # req[v].peer
  BY RequestIs
<1>2. req'[v].kind = req[v].kind /\ req'[v].me = req[v].me /\ req'[v].peer = req[v].peer
  BY DEF Moved
<1> DEFINE at == req[v].pc
           to == req'[v].pc
<1>3. CASE at = "block" /\ to = AfterBlock(req[v].kind)
  <2>1. req[v].kind \in {"send", "accept", "reject", "start", "post", "read", "connect", "say", "toggle"}
    BY <1>1, <1>3, KindsKnown DEF Kinds
  <2>2. CASE req[v].kind \in {"send", "start", "post", "read", "connect"}
    BY <1>1, <1>2, <1>3, <2>2, KindsKnown, AfterBlockIs DEF Formed
  <2>3. CASE req[v].kind \in {"reject", "say"}
    BY <1>1, <1>2, <1>3, <2>3, KindsKnown, AfterBlockIs DEF Formed
  <2>4. CASE req[v].kind \in {"accept", "toggle"}
    BY <1>1, <1>2, <1>3, <2>4, KindsKnown, AfterBlockIs DEF Formed
  <2> QED
    BY <2>1, <2>2, <2>3, <2>4
<1>4. CASE at = "plan" /\ to = "save"
  BY <1>1, <1>2, <1>4, KindsKnown DEF Formed
<1>5. CASE at = "accepted" /\ req[v].kind = "send" /\ to = "incoming"
  BY <1>1, <1>2, <1>5, KindsKnown DEF Formed
<1>6. CASE at = "accepted" /\ req[v].kind # "send" /\ to = "save"
  BY <1>1, <1>2, <1>6, KindsKnown DEF Formed
<1>7. CASE at \in {"incoming", "create", "resend"} /\ to \in {"reciprocate", "create", "charge", "resend"}
  <2>1. req[v].kind = "send"
    BY <1>1, <1>7, KindsKnown
  <2> QED
    BY <1>1, <1>2, <1>7, <2>1, KindsKnown DEF Formed
<1>8. CASE at = "save" /\ req[v].kind = "start" /\ to = "charge"
  BY <1>1, <1>2, <1>8, KindsKnown DEF Formed
<1>9. CASE at = "save" /\ req[v].kind = "connect" /\ to = "join"
  BY <1>1, <1>2, <1>9, KindsKnown DEF Formed
<1>10. CASE at = "save" /\ req[v].kind = "block" /\ to = "clear"
  BY <1>1, <1>2, <1>10, KindsKnown DEF Formed
<1>11. CASE at = "wish" /\ to \in {"save", "unwish"}
  <2>1. req[v].kind = "toggle"
    BY <1>1, <1>11, KindsKnown
  <2> QED
    BY <1>1, <1>2, <1>11, <2>1, KindsKnown DEF Formed
<1> QED
  BY <1>3, <1>4, <1>5, <1>6, <1>7, <1>8, <1>9, <1>10, <1>11 DEF Follows

LEMMA FormedNext ==
  ASSUME TypeInv, Steps
  PROVE  /\ \A v \in Workers : req'[v] # Idle => Formed(req'[v])
         /\ \A s \in sockets' : s.me # s.peer
<1>1. ASSUME NEW v \in Workers, req'[v] # Idle PROVE Formed(req'[v])
  <2>1. CASE req[v] # Idle /\ Keeps(v)
    BY <2>1, RequestIs DEF Keeps, Formed
  <2>2. CASE Step(v) /\ Touched(v) /\ Moved(v, req'[v].pc) /\ Follows(v, req'[v].pc)
    BY <2>2, StepMoves, FollowsForm
  <2>3. ASSUME NEW kind \in Kinds, NEW me, NEW peer, Opens(v, kind, me, peer)
        PROVE  Formed(req'[v])
    <3>1. CASE kind \in {"cancel", "block"}
      BY <2>3, <3>1, KindsKnown DEF Opens, Formed
    <3>2. CASE kind \notin {"cancel", "block"}
      BY <2>3, <3>2, KindsKnown DEF Opens, Formed
    <3> QED
      BY <3>1, <3>2
  <2>4. "say" \in Kinds
    BY DEF Kinds
  <2> QED
    BY <1>1, <2>1, <2>2, <2>3, <2>4, Fates DEF Fate
<1>2. ASSUME NEW t \in sockets' PROVE t.me # t.peer
  <2>1. \A s \in sockets : s.me # s.peer
    BY DEF TypeInv, RequestsFormed
  <2>2. CASE Aside
    BY <1>2, <2>1, <2>2 DEF Aside
  <2>3. ASSUME NEW w \in Workers, Step(w), Touched(w) PROVE t.me # t.peer
    BY <1>2, <2>1, <2>3, StepMoves, RequestIs DEF Touched, SocketsTouched
  <2> QED
    BY <2>2, <2>3 DEF Steps, Dies
<1> QED
  BY <1>1, <1>2

LEMMA TypeInit ==
  ASSUME Init
  PROVE  TypeInv
<1>1. \A S \in SUBSET Pairs : [p \in Pairs |-> IF p \in S THEN "accepted" ELSE "absent"] \in [Pairs -> Statuses]
  BY DEF Statuses
<1>2. interest \in [Pairs -> Statuses]
  BY <1>1 DEF Init
<1>3. TypeOK
  BY <1>2, ConnectionsAssumption DEF Init, TypeOK
<1>4. RequestsFormed
  BY DEF Init, RequestsFormed
<1> QED
  BY <1>3, <1>4 DEF TypeInv

LEMMA Observed ==
  ASSUME TypeInv, [Next]_vars
  PROVE  /\ free' \subseteq Workers /\ met' \subseteq Workers
         /\ ever' \subseteq Couples /\ ever \subseteq ever' /\ mix' = mix
<1>1. CASE Observe
  BY <1>1 DEF Observe, TypeInv, TypeOK
<1>2. CASE UNCHANGED vars
  BY <1>2 DEF vars, TypeInv, TypeOK
<1> QED
  BY <1>1, <1>2 DEF Next

LEMMA TypeNext ==
  ASSUME TypeInv, [Next]_vars
  PROVE  TypeInv'
<1>t. TypeOK
  BY DEF TypeInv
<1>s. Steps /\ req' \in [Workers -> Request \cup {Idle}]
  BY NextSteps
<1>1. /\ interest' \in [Pairs -> Statuses] /\ blocked' \subseteq Pairs /\ wished' \subseteq Pairs
      /\ unread' \subseteq Pairs /\ conversations' \subseteq Couples /\ subscribed' \subseteq Users
      /\ sockets' \subseteq Socket /\ crossed' \subseteq Couples /\ stray' \subseteq Pairs
      /\ chatCharges' \in [Couples -> Nat]
  <2>1. CASE Aside
    BY <1>t, <2>1 DEF Aside, TypeOK
  <2>2. ASSUME NEW w \in Workers, Touched(w)
        PROVE  /\ interest' \in [Pairs -> Statuses] /\ blocked' \subseteq Pairs /\ wished' \subseteq Pairs
               /\ unread' \subseteq Pairs /\ conversations' \subseteq Couples /\ subscribed' \subseteq Users
               /\ sockets' \subseteq Socket /\ crossed' \subseteq Couples /\ stray' \subseteq Pairs
               /\ chatCharges' \in [Couples -> Nat]
    BY <1>t, <2>2 DEF Touched, InterestTouched, WishesTouched, ChatTouched, ChargesTouched,
                      SocketsTouched, BlockedTouched, TypeOK
  <2> QED
    BY <1>s, <2>1, <2>2 DEF Steps, Dies
<1>2. TypeOK'
  BY <1>t, <1>s, <1>1, Observed DEF TypeOK
<1>3. RequestsFormed'
  BY <1>s, FormedNext DEF RequestsFormed
<1> QED
  BY <1>2, <1>3 DEF TypeInv

\* Every request is between two different members and at a query that a request of its
\* kind makes, every socket is of two different members; the tables and the history have
\* their types.
THEOREM TypeCorrect == Spec => []TypeInv
BY TypeInit, TypeNext, PTL DEF Spec

----------------------------------------------------------------------------
(* Interests that wait for each other.                                       *)

\* Of two requests that send each other interests, the later one knew of the earlier.
SendsCross ==
  \A v, w \in Workers :
    /\ v # w /\ req[v] # Idle /\ req[w] # Idle
    /\ req[v].kind = "send" /\ req[w].kind = "send" /\ Out(v) = In(w)
    => Couple(w) \in crossed

\* An interest found only after the request had looked for it crossed its own.
IncomingSeen ==
  \A w \in Workers :
    req[w] # Idle /\ req[w].pc \in {"create", "resend"} /\ interest[In(w)] = "pending"
      => Couple(w) \in crossed

InterestInv == TypeInv /\ SendsCross /\ IncomingSeen /\ BothPendingOnlyIfCrossed

LEMMA CrossedGrows ==
  ASSUME TypeInv, Steps
  PROVE  crossed \subseteq crossed'
BY DEF Steps, Touched, Aside, Dies

\* A request that is open after the step and that did not begin with it is for the same
\* members, and of the same kind.
Continues(v) ==
  req[v] # Idle /\ req'[v] # Idle /\ req'[v].kind = req[v].kind
  /\ req'[v].me = req[v].me /\ req'[v].peer = req[v].peer

LEMMA FateContinues ==
  ASSUME TypeInv, Steps, NEW v \in Workers, req'[v] # Idle
  PROVE  \/ Continues(v)
         \/ /\ req[v] = Idle /\ \A x \in Workers \ {v} : req'[x] = req[x]
            /\ \/ \E kind \in Kinds \ {"say"}, me, peer \in Users :
                    Begin(v, kind, me, peer) /\ Opens(v, kind, me, peer)
               \/ req'[v].kind = "say"
<1>1. CASE req[v] # Idle /\ Keeps(v)
  BY <1>1 DEF Keeps, Continues
<1>2. CASE Step(v) /\ Moved(v, req'[v].pc)
  BY <1>2, StepMoves DEF Moved, Continues
<1>3. ASSUME NEW kind \in Kinds \ {"say"}, NEW me \in Users, NEW peer \in Users,
             Begin(v, kind, me, peer) /\ Opens(v, kind, me, peer)
      PROVE  /\ req[v] = Idle /\ \A x \in Workers \ {v} : req'[x] = req[x]
             /\ \E k \in Kinds \ {"say"}, m, p \in Users : Begin(v, k, m, p) /\ Opens(v, k, m, p)
  BY <1>3 DEF Opens, Alone
<1>4. ASSUME NEW s \in sockets, Opens(v, "say", s.me, s.peer)
      PROVE  req[v] = Idle /\ (\A x \in Workers \ {v} : req'[x] = req[x]) /\ req'[v].kind = "say"
  BY <1>4 DEF Opens, Alone
<1> QED
  BY <1>1, <1>2, <1>3, <1>4, Fates DEF Fate

LEMMA SendsCrossNext ==
  ASSUME TypeInv, SendsCross, Steps
  PROVE  SendsCross'
<1> SUFFICES ASSUME NEW v \in Workers, NEW w \in Workers, v # w, req'[v] # Idle, req'[w] # Idle,
                    req'[v].kind = "send", req'[w].kind = "send",
                    req'[v].me = req'[w].peer, req'[v].peer = req'[w].me
             PROVE  {req'[w].me, req'[w].peer} \in crossed'
  BY DEF SendsCross, Out, In, Couple
<1>1. CASE Continues(v) /\ Continues(w)
  <2>1. Couple(w) \in crossed
    BY <1>1 DEF SendsCross, Continues, Out, In
  <2> QED
    BY <1>1, <2>1, CrossedGrows DEF Continues, Couple
<1>2. ASSUME NEW x \in Workers, NEW y \in Workers, x # y, req'[y] # Idle,
             req'[x].kind = "send", req'[y].kind = "send",
             req'[x].me = req'[y].peer, req'[x].peer = req'[y].me,
             req[x] = Idle, \A z \in Workers \ {x} : req'[z] = req[z],
             NEW kind \in Kinds \ {"say"}, NEW me \in Users, NEW peer \in Users,
             Begin(x, kind, me, peer) /\ Opens(x, kind, me, peer)
      PROVE  {req'[x].me, req'[x].peer} \in crossed'
  <2>1. req[y] = req'[y] /\ kind = "send" /\ me = req'[x].me /\ peer = req'[x].peer
    BY <1>2 DEF Opens
  <2>2. Crossing(x, kind, me, peer)
    BY <1>2, <2>1 DEF Crossing
  <2> QED
    BY <1>2, <2>1, <2>2 DEF Begin
<1>3. CASE ~Continues(v)
  BY <1>2, <1>3, FateContinues
<1>4. CASE ~Continues(w)
  BY <1>2, <1>4, FateContinues
<1> QED
  BY <1>1, <1>3, <1>4

LEMMA BecomesPending ==
  ASSUME TypeInv, Steps, NEW p \in Pairs, interest'[p] = "pending", interest[p] # "pending"
  PROVE  \E x \in Workers :
           req[x] # Idle /\ req[x].kind = "send" /\ p = Out(x) /\ req[x].pc \in {"create", "resend"}
<1>1. PICK x \in Workers : Step(x) /\ Touched(x)
  BY DEF Steps, Dies, Aside
<1>2. req[x] # Idle /\ p = Out(x) /\ req[x].pc \in {"create", "resend"}
  BY <1>1, StepMoves DEF Touched, InterestTouched
<1> QED
  BY <1>2, RequestIs, KindsKnown

LEMMA IncomingSeenNext ==
  ASSUME InterestInv, Steps
  PROVE  IncomingSeen'
<1>t. TypeInv
  BY DEF InterestInv
<1> SUFFICES ASSUME NEW w \in Workers, req'[w] # Idle, req'[w].pc \in {"create", "resend"},
                    interest'[<<req'[w].peer, req'[w].me>>] = "pending"
             PROVE  {req'[w].me, req'[w].peer} \in crossed'
  BY DEF IncomingSeen, In, Couple
<1>1. ASSUME req[w] # Idle, req'[w].me = req[w].me, req'[w].peer = req[w].peer,
             req[w].pc \in {"create", "resend"}
      PROVE  {req'[w].me, req'[w].peer} \in crossed'
  <2>1. In(w) \in Pairs /\ interest'[In(w)] = "pending" /\ req[w].kind = "send" /\ req[w].me # req[w].peer
    BY <1>1, <1>t, RequestIs, KindsKnown DEF In
  <2>2. CASE interest[In(w)] = "pending"
    BY <1>1, <1>t, <2>2, CrossedGrows DEF InterestInv, IncomingSeen, Couple
  <2>3. CASE interest[In(w)] # "pending"
    <3>1. PICK x \in Workers : req[x] # Idle /\ req[x].kind = "send" /\ In(w) = Out(x)
      BY <1>t, <2>1, <2>3, BecomesPending
    <3>2. x # w
      BY <2>1, <3>1 DEF In, Out
    <3>3. Couple(w) \in crossed
      BY <1>1, <2>1, <3>1, <3>2 DEF InterestInv, SendsCross
    <3> QED
      BY <1>1, <1>t, <3>3, CrossedGrows DEF Couple
  <2> QED
    BY <2>2, <2>3
<1>2. CASE req[w] # Idle /\ Keeps(w)
  BY <1>1, <1>2 DEF Keeps
<1>3. CASE Step(w) /\ Touched(w) /\ Moved(w, req'[w].pc) /\ Follows(w, req'[w].pc)
  <2>1. /\ req[w] # Idle /\ In(w) \in Pairs
        /\ req'[w].me = req[w].me /\ req'[w].peer = req[w].peer
    BY <1>3, <1>t, StepMoves, RequestIs DEF Moved
  <2>2. \/ req[w].pc = "incoming" /\ interest[In(w)] # "pending" /\ interest' = interest
        \/ req[w].pc = "create"
        \/ req[w].pc = "block" /\ req'[w].pc = AfterBlock(req[w].kind)
    BY <1>3 DEF Follows, tables
  <2>3. req[w].pc # "incoming" \/ interest[In(w)] = "pending"
    BY <2>1, <2>2 DEF In
  <2>4. ~(req[w].pc = "block" /\ req'[w].pc = AfterBlock(req[w].kind))
    BY <1>t, <2>1, RequestIs, AfterBlockIs, KindsKnown DEF Kinds
  <2> QED
    BY <1>1, <2>1, <2>2, <2>3, <2>4
<1>4. ASSUME NEW kind, NEW me, NEW peer, Opens(w, kind, me, peer)
      PROVE  FALSE
  BY <1>4 DEF Opens
<1> QED
  BY <1>t, <1>2, <1>3, <1>4, Fates DEF Fate

LEMMA BothPendingNext ==
  ASSUME InterestInv, Steps
  PROVE  BothPendingOnlyIfCrossed'
<1>t. TypeInv
  BY DEF InterestInv
<1> SUFFICES ASSUME NEW p \in Pairs, interest'[p] = "pending", interest'[<<p[2], p[1]>>] = "pending"
             PROVE  {p[1], p[2]} \in crossed
  BY <1>t, CrossedGrows DEF BothPendingOnlyIfCrossed
<1>1. ASSUME NEW q \in Pairs, NEW r \in Pairs, r = <<q[2], q[1]>>, q = <<r[2], r[1]>>,
             interest'[q] = "pending", interest'[r] = "pending", interest[q] # "pending"
      PROVE  {q[1], q[2]} \in crossed
  <2>1. PICK x \in Workers :
          req[x] # Idle /\ req[x].kind = "send" /\ q = Out(x) /\ req[x].pc \in {"create", "resend"}
    BY <1>t, <1>1, BecomesPending
  <2>2. r = In(x) /\ Couple(x) = {q[1], q[2]}
    BY <1>1, <2>1 DEF In, Out, Couple
  <2>3. CASE interest[r] = "pending"
    BY <2>1, <2>2, <2>3 DEF InterestInv, IncomingSeen
  <2>4. CASE interest[r] # "pending"
    <3>1. PICK y \in Workers : req[y] # Idle /\ req[y].kind = "send" /\ r = Out(y)
      BY <1>t, <1>1, <2>4, BecomesPending
    <3>2. x # y
      <4>1. q # r
        BY <1>1 DEF Pairs
      <4> QED
        BY <2>1, <3>1, <4>1
    <3> QED
      BY <2>1, <2>2, <3>1, <3>2 DEF InterestInv, SendsCross
  <2> QED
    BY <2>3, <2>4
<1> DEFINE r == <<p[2], p[1]>>
<1>2. r \in Pairs /\ p = <<r[2], r[1]>> /\ {p[1], p[2]} = {r[1], r[2]}
  BY DEF Pairs
<1>3. CASE interest[p] # "pending"
  BY <1>1, <1>2, <1>3
<1>4. CASE interest[r] # "pending"
  <2>1. {r[1], r[2]} \in crossed
    BY <1>1, <1>2, <1>4
  <2> QED
    BY <1>2, <2>1
<1>5. CASE interest[p] = "pending" /\ interest[r] = "pending"
  BY <1>5 DEF InterestInv, BothPendingOnlyIfCrossed
<1> QED
  BY <1>3, <1>4, <1>5

\* Two interests wait for each other only if they were sent at the same time: the later
\* of two requests that do not overlap finds the other side's interest.
THEOREM LaterFindsEarlier == Spec => []BothPendingOnlyIfCrossed
<1>1. Init => InterestInv
  BY TypeInit DEF Init, InterestInv, SendsCross, IncomingSeen, BothPendingOnlyIfCrossed
<1>2. InterestInv /\ [Next]_vars => InterestInv'
  BY NextSteps, TypeNext, SendsCrossNext, IncomingSeenNext, BothPendingNext DEF InterestInv
<1>3. InterestInv => BothPendingOnlyIfCrossed
  BY DEF InterestInv
<1> QED
  BY <1>1, <1>2, <1>3, PTL DEF Spec

----------------------------------------------------------------------------
(* Blocks and wishes.                                                        *)

LEMMA PairOf ==
  ASSUME NEW p \in Pairs, NEW w, {p[1], p[2]} = Couple(w)
  PROVE  p = Out(w) \/ p = In(w)
<1>1. PICK a \in Users, b \in Users : p = <<a, b>>
  BY DEF Pairs
<1>2. {a, b} = {req[w].me, req[w].peer} /\ a # b
  BY <1>1 DEF Couple, Pairs
<1>3. (a = req[w].me /\ b = req[w].peer) \/ (a = req[w].peer /\ b = req[w].me)
  <2>1. a \in {req[w].me, req[w].peer} /\ b \in {req[w].me, req[w].peer}
    BY <1>2
  <2> QED
    BY <1>2, <2>1
<1> QED
  BY <1>1, <1>3 DEF Out, In

LEMMA AtClear ==
  ASSUME NEW w \in Workers, Step(w), req[w].pc = "clear"
  PROVE  ClearWishes(w)
BY DEF Step, At, CheckBlock, CheckPlan, CheckAccepted, FindIncoming, Reciprocate, CreateInterest,
       Resend, Charge, Respond, Cancel, StartChat, SaveMessage, MarkRead, Join, Block, ClearWishes,
       LookUpWish, DeleteWish, AddWish

LEMMA AtSaveOfBlock ==
  ASSUME NEW w \in Workers, Step(w), req[w].pc = "save", req[w].kind = "block"
  PROVE  Block(w)
BY DEF Step, At, CheckBlock, CheckPlan, CheckAccepted, FindIncoming, Reciprocate, CreateInterest,
       Resend, Charge, Respond, Cancel, StartChat, SaveMessage, MarkRead, Join, Block, ClearWishes,
       LookUpWish, DeleteWish, AddWish

LEMMA WishesNext ==
  ASSUME TypeInv, BlockClearsWishes, Steps
  PROVE  BlockClearsWishes'
<1>t. TypeOK
  BY DEF TypeInv
<1> SUFFICES ASSUME NEW p \in wished', AreBlocked({p[1], p[2]})', p \notin stray'
             PROVE  \E v \in Workers : /\ req'[v] # Idle /\ req'[v].pc = "clear"
                                       /\ {req'[v].me, req'[v].peer} = {p[1], p[2]}
  BY DEF BlockClearsWishes, At, Couple
<1>q. PICK q \in blocked' : {q[1], q[2]} = {p[1], p[2]}
  BY DEF AreBlocked
<1>1. ASSUME NEW v \in Workers, req[v] # Idle, req[v].pc = "clear", Couple(v) = {p[1], p[2]},
             req'[v] # Idle, req'[v].pc = req[v].pc, req'[v].me = req[v].me, req'[v].peer = req[v].peer
      PROVE  \E x \in Workers : /\ req'[x] # Idle /\ req'[x].pc = "clear"
                                /\ {req'[x].me, req'[x].peer} = {p[1], p[2]}
  BY <1>1 DEF Couple
<1>2. ASSUME p \in wished, q \in blocked, p \notin stray
      PROVE  \E v \in Workers : req[v] # Idle /\ req[v].pc = "clear" /\ Couple(v) = {p[1], p[2]}
  BY <1>2, <1>q DEF BlockClearsWishes, AreBlocked, At
<1>3. CASE Aside
  <2>1. p \in wished /\ q \in blocked /\ p \notin stray
    BY <1>3, <1>q DEF Aside
  <2>2. PICK v \in Workers : req[v] # Idle /\ req[v].pc = "clear" /\ Couple(v) = {p[1], p[2]}
    BY <1>2, <2>1
  <2>3. ~Dies(v)
    <3>1. p \in {Out(v), In(v)}
      BY <1>t, <2>1, <2>2, PairOf DEF TypeOK
    <3> QED
      BY <2>2, <3>1 DEF Dies
  <2>4. CASE \E w \in Workers : w # v /\ Alone(w)
    BY <1>1, <2>2, <2>4 DEF Alone
  <2>5. CASE \A w \in Workers : Keeps(w)
    BY <1>1, <2>2, <2>5 DEF Keeps
  <2>6. \/ \E w \in Workers : Step(w) /\ (Goes(w) \/ Ends(w)) /\ Touched(w)
        \/ \E w \in Workers : w # v /\ Alone(w)
        \/ \A w \in Workers : Keeps(w)
    BY <2>2, <2>3 DEF Steps, Opens, Dies, Ends
  <2>7. ASSUME NEW w \in Workers, Step(w), Goes(w) \/ Ends(w), w = v
        PROVE  FALSE
    <3>1. wished' = wished \ {Out(v), In(v)}
      BY <2>2, <2>7, AtClear DEF ClearWishes
    <3>2. p \in {Out(v), In(v)}
      BY <1>t, <2>1, <2>2, PairOf DEF TypeOK
    <3> QED
      BY <3>1, <3>2
  <2>8. \A w \in Workers : Goes(w) \/ Ends(w) => Alone(w)
    BY DEF Goes, Ends, Moved
  <2> QED
    BY <2>4, <2>5, <2>6, <2>7, <2>8
<1>4. ASSUME NEW w \in Workers, Step(w), Goes(w) \/ Ends(w), Touched(w)
      PROVE  \E v \in Workers : /\ req'[v] # Idle /\ req'[v].pc = "clear"
                                /\ {req'[v].me, req'[v].peer} = {p[1], p[2]}
  <2>1. p \in wished
    <3>1. SUFFICES ASSUME p \notin wished PROVE FALSE
      OBVIOUS
    <3>2. p = Out(w) /\ req[w].kind = "toggle" /\ ~AreBlocked(Couple(w))
      BY <1>4, <3>1 DEF Touched, WishesTouched
    <3>3. q \in blocked
      BY <1>4, <1>q, <3>2 DEF Touched, BlockedTouched
    <3>4. {p[1], p[2]} = Couple(w)
      BY <3>2 DEF Out, Couple
    <3> QED
      BY <1>q, <3>2, <3>3, <3>4 DEF AreBlocked
  <2>2. p \notin stray
    BY <1>4, <2>1 DEF Touched, WishesTouched
  <2>3. CASE q \in blocked
    <3>1. PICK v \in Workers : req[v] # Idle /\ req[v].pc = "clear" /\ Couple(v) = {p[1], p[2]}
      BY <1>2, <2>1, <2>2, <2>3
    <3>2. v # w
      <4>1. v = w => wished' = wished \ {Out(v), In(v)}
        BY <1>4, <3>1, AtClear DEF ClearWishes
      <4>2. p \in {Out(v), In(v)}
        BY <1>t, <2>1, <3>1, PairOf DEF TypeOK
      <4> QED
        BY <4>1, <4>2
    <3>3. req'[v] = req[v]
      BY <1>4, <3>2 DEF Goes, Ends, Moved, Alone
    <3> QED
      BY <1>1, <3>1, <3>3
  <2>4. CASE q \notin blocked
    <3>1. q = Out(w) /\ Block(w)
      BY <1>4, <1>q, <2>4, AtSaveOfBlock DEF Touched, BlockedTouched
    <3>2. Moved(w, "clear")
      BY <1>4, <3>1, StepMoves, GoMoves DEF Block, Pcs
    <3>3. {q[1], q[2]} = {req[w].me, req[w].peer}
      BY <3>1 DEF Out
    <3> QED
      BY <1>q, <3>2, <3>3 DEF Moved
  <2> QED
    BY <2>3, <2>4
<1> QED
  BY <1>3, <1>4 DEF Steps, Dies

\* A block leaves no wish between the two members on record, but for a toggle that had
\* passed the check of the block and a block that died before it cleared the wishes.
THEOREM BlocksClear == Spec => []BlockClearsWishes
<1>1. Init => TypeInv /\ BlockClearsWishes
  BY TypeInit DEF Init, BlockClearsWishes
<1>2. TypeInv /\ BlockClearsWishes /\ [Next]_vars => TypeInv' /\ BlockClearsWishes'
  BY NextSteps, TypeNext, WishesNext
<1> QED
  BY <1>1, <1>2, PTL DEF Spec

----------------------------------------------------------------------------
(* What a chat costs.                                                        *)

\* The request of w has created the conversation and is about to charge it.
Starting(w) == req[w] # Idle /\ req[w].pc = "charge" /\ req[w].kind = "start"

\* One request at most is about to charge a conversation, and none was charged for it.
ChargeDue ==
  \A w \in Workers : Starting(w) =>
    /\ Couple(w) \in conversations /\ chatCharges[Couple(w)] = 0
    /\ \A v \in Workers : Starting(v) /\ Couple(v) = Couple(w) => v = w

ChargeInv == TypeInv /\ ChargeDue /\ ChatChargedOnce

LEMMA BecomesStarting ==
  ASSUME TypeInv, Steps, NEW w \in Workers, Starting(w)'
  PROVE  /\ Couple(w)' = Couple(w)
         /\ \/ Starting(w)
            \/ /\ Touched(w) /\ Alone(w) /\ Couple(w) \notin conversations /\ Couple(w) \in Couples
               /\ req[w].pc = "save" /\ req[w].kind = "start"
<1>s. req'[w] # Idle /\ req'[w].pc = "charge" /\ req'[w].kind = "start"
  BY DEF Starting
<1>1. CASE req[w] # Idle /\ Keeps(w)
  BY <1>1, <1>s DEF Keeps, Starting, Couple
<1>2. CASE Step(w) /\ Touched(w) /\ Moved(w, req'[w].pc) /\ Follows(w, req'[w].pc)
  <2>1. req[w] # Idle /\ req[w].kind = "start"
    BY <1>2, <1>s, StepMoves DEF Moved
  <2>2. req[w].pc \notin {"create", "resend"}
    BY <2>1, RequestIs, KindsKnown
  <2>3. AfterBlock(req[w].kind) = "accepted"
    BY <2>1, AfterBlockIs
  <2>4. req[w].pc = "save" /\ Couple(w) \notin conversations
    BY <1>2, <1>s, <2>2, <2>3 DEF Follows
  <2> QED
    BY <1>2, <2>1, <2>4, RequestIs DEF Moved, Couple
<1>3. ASSUME NEW kind, NEW me, NEW peer, Opens(w, kind, me, peer) PROVE FALSE
  BY <1>3, <1>s DEF Opens
<1> QED
  BY <1>s, <1>1, <1>2, <1>3, Fates DEF Fate

LEMMA ChargedBy ==
  ASSUME TypeInv, Steps, NEW c \in Couples, chatCharges'[c] # chatCharges[c]
  PROVE  \E x \in Workers :
           Starting(x) /\ Couple(x) = c /\ req'[x] = Idle /\ chatCharges'[c] = chatCharges[c] + 1
<1>1. PICK x \in Workers : Step(x) /\ (Goes(x) \/ Ends(x)) /\ Touched(x)
  BY DEF Steps, Dies, Aside
<1>2. /\ req[x] # Idle /\ c = Couple(x) /\ req[x].pc = "charge" /\ req[x].kind = "start"
      /\ chatCharges'[c] = chatCharges[c] + 1
  BY <1>1, StepMoves DEF Touched, ChargesTouched
<1>3. ~Goes(x)
  BY <1>2 DEF Goes, Follows
<1> QED
  BY <1>1, <1>2, <1>3 DEF Starting, Ends

LEMMA ConversationsStay ==
  ASSUME TypeInv, Steps
  PROVE  conversations \subseteq conversations'
BY DEF Steps, Touched, ChatTouched, Aside, Dies

LEMMA ChargeDueNext ==
  ASSUME ChargeInv, Steps
  PROVE  ChargeDue'
<1>t. TypeInv /\ TypeOK
  BY DEF ChargeInv, TypeInv
<1>c. \A w \in Workers : Starting(w)' => Couple(w)' = Couple(w)
  BY <1>t, BecomesStarting
<1> SUFFICES ASSUME NEW w \in Workers, Starting(w)'
             PROVE  /\ Couple(w) \in conversations' /\ chatCharges'[Couple(w)] = 0
                    /\ \A v \in Workers : Starting(v)' /\ Couple(v)' = Couple(w) => v = w
  BY <1>c DEF ChargeDue
<1>1. CASE Starting(w)
  <2>1. /\ Couple(w) \in conversations /\ chatCharges[Couple(w)] = 0
        /\ \A v \in Workers : Starting(v) /\ Couple(v) = Couple(w) => v = w
    BY <1>1 DEF ChargeInv, ChargeDue
  <2>2. chatCharges'[Couple(w)] = 0
    <3>1. SUFFICES ASSUME chatCharges'[Couple(w)] # chatCharges[Couple(w)] PROVE FALSE
      BY <2>1
    <3>2. Couple(w) \in Couples
      BY <1>t, <2>1 DEF TypeOK
    <3>3. PICK x \in Workers : Starting(x) /\ Couple(x) = Couple(w) /\ req'[x] = Idle
      BY <1>t, <3>1, <3>2, ChargedBy
    <3> QED
      BY <2>1, <3>3 DEF Starting
  <2>3. ASSUME NEW v \in Workers, Starting(v)', Couple(v)' = Couple(w) PROVE v = w
    BY <1>t, <2>1, <2>3, BecomesStarting
  <2> QED
    BY <1>t, <2>1, <2>2, <2>3, ConversationsStay
<1>2. CASE /\ Touched(w) /\ Alone(w) /\ Couple(w) \notin conversations /\ Couple(w) \in Couples
           /\ req[w].pc = "save" /\ req[w].kind = "start"
  <2>1. Couple(w) \in conversations' /\ chatCharges'[Couple(w)] = chatCharges[Couple(w)]
    BY <1>2 DEF Touched, ChatTouched, ChargesTouched
  <2>2. chatCharges[Couple(w)] = 0
    <3>1. chatCharges[Couple(w)] \in Nat /\ chatCharges[Couple(w)] <= 0
      BY <1>t, <1>2 DEF TypeOK, ChargeInv, ChatChargedOnce
    <3> QED
      BY <3>1
  <2>3. ASSUME NEW v \in Workers, Starting(v)', Couple(v)' = Couple(w) PROVE v = w
    <3>1. Couple(v) = Couple(w) /\ (Starting(v) \/ req[v].pc = "save")
      BY <1>t, <2>3, BecomesStarting
    <3>2. ~Starting(v)
      BY <1>2, <3>1 DEF ChargeInv, ChargeDue
    <3>3. v # w => req'[v] = req[v]
      BY <1>2 DEF Alone
    <3> QED
      BY <2>3, <3>1, <3>2, <3>3 DEF Starting
  <2> QED
    BY <2>1, <2>2, <2>3
<1> QED
  BY <1>t, <1>1, <1>2, BecomesStarting

LEMMA ChargedOnceNext ==
  ASSUME ChargeInv, Steps
  PROVE  ChatChargedOnce'
<1>t. TypeInv /\ TypeOK
  BY DEF ChargeInv, TypeInv
<1> SUFFICES ASSUME NEW c \in Couples
             PROVE  chatCharges'[c] <= IF c \in conversations' THEN 1 ELSE 0
  BY DEF ChatChargedOnce
<1>1. /\ chatCharges[c] \in Nat /\ chatCharges[c] <= (IF c \in conversations THEN 1 ELSE 0)
  BY <1>t DEF ChargeInv, ChatChargedOnce, TypeOK
<1>2. conversations \subseteq conversations'
  BY <1>t, ConversationsStay
<1>3. CASE chatCharges'[c] = chatCharges[c]
  BY <1>1, <1>2, <1>3
<1>4. CASE chatCharges'[c] # chatCharges[c]
  <2>1. PICK x \in Workers : Starting(x) /\ Couple(x) = c /\ chatCharges'[c] = chatCharges[c] + 1
    BY <1>t, <1>4, ChargedBy
  <2>2. c \in conversations /\ chatCharges[c] = 0
    BY <2>1 DEF ChargeInv, ChargeDue
  <2> QED
    BY <1>2, <2>1, <2>2
<1> QED
  BY <1>3, <1>4

\* A couple's chat is charged at most once, to whoever created the conversation.
THEOREM ChatCostsOnce == Spec => []ChatChargedOnce
<1>1. Init => ChargeInv
  BY TypeInit DEF Init, ChargeInv, ChargeDue, ChatChargedOnce, Starting
<1>2. ChargeInv /\ [Next]_vars => ChargeInv'
  BY NextSteps, TypeNext, ChargeDueNext, ChargedOnceNext DEF ChargeInv
<1>3. ChargeInv => ChatChargedOnce
  BY DEF ChargeInv
<1> QED
  BY <1>1, <1>2, <1>3, PTL DEF Spec

----------------------------------------------------------------------------
(* What a request has seen.                                                  *)

\* Past the check of the block, a request saw a moment without one.
FreeSeen ==
  \A w \in Workers :
    req[w] # Idle /\ req[w].pc # "block" /\ req[w].kind \notin {"cancel", "block"} => w \in free

\* Past the check of the interest, a request of the chat saw a moment of connection.
ConnectionSeen ==
  \A w \in Workers :
    /\ req[w] # Idle /\ req[w].pc \in {"save", "charge", "join"}
    /\ req[w].kind \in {"start", "post", "read", "connect"}
    => w \in met

\* Who saw a connection, has a socket, or speaks over one, was connected once.
OnceConnected ==
  /\ \A w \in met : req[w] # Idle /\ Couple(w) \in ever
  /\ \A s \in sockets : {s.me, s.peer} \in ever
  /\ \A w \in Workers : req[w] # Idle /\ req[w].kind = "say" => Couple(w) \in ever

SeenInv == TypeInv /\ FreeSeen /\ ConnectionSeen /\ OnceConnected

LEMMA FreeSeenNext ==
  ASSUME SeenInv, Steps, Observe
  PROVE  FreeSeen'
<1>t. TypeInv
  BY DEF SeenInv
<1> SUFFICES ASSUME NEW w \in Workers, req'[w] # Idle, req'[w].pc # "block",
                    req'[w].kind \notin {"cancel", "block"}
             PROVE  w \in free'
  BY DEF FreeSeen
<1>1. CASE req[w] # Idle /\ Keeps(w)
  BY <1>1 DEF Keeps, SeenInv, FreeSeen, Observe
<1>2. CASE Step(w) /\ Touched(w) /\ Moved(w, req'[w].pc) /\ Follows(w, req'[w].pc)
  <2>1. req[w] # Idle /\ req[w].kind = req'[w].kind
    BY <1>2, <1>t, StepMoves DEF Moved
  <2>2. CASE req[w].pc # "block"
    BY <2>1, <2>2 DEF SeenInv, FreeSeen, Observe
  <2>3. CASE req[w].pc = "block"
    <3>1. ~AreBlocked(Couple(w)) /\ blocked' = blocked
      BY <1>2, <2>3 DEF Follows, tables
    <3>2. ~AreBlocked(Couple(w))'
      BY <1>2, <3>1 DEF AreBlocked, Couple, Moved
    <3> QED
      BY <3>2 DEF Observe
  <2> QED
    BY <2>2, <2>3
<1>3. ASSUME NEW kind, NEW me, NEW peer, Opens(w, kind, me, peer) PROVE FALSE
  BY <1>3 DEF Opens
<1> QED
  BY <1>t, <1>1, <1>2, <1>3, Fates DEF Fate

LEMMA ConnectionSeenNext ==
  ASSUME SeenInv, Steps, Observe
  PROVE  ConnectionSeen'
<1>t. TypeInv
  BY DEF SeenInv
<1> SUFFICES ASSUME NEW w \in Workers, req'[w] # Idle, req'[w].pc \in {"save", "charge", "join"},
                    req'[w].kind \in {"start", "post", "read", "connect"}
             PROVE  w \in met'
  BY DEF ConnectionSeen
<1>1. CASE req[w] # Idle /\ Keeps(w)
  BY <1>1 DEF Keeps, SeenInv, ConnectionSeen, Observe
<1>2. CASE Step(w) /\ Touched(w) /\ Moved(w, req'[w].pc) /\ Follows(w, req'[w].pc)
  <2>1. req[w] # Idle /\ req[w].kind \in {"start", "post", "read", "connect"}
    BY <1>2, <1>t, StepMoves DEF Moved
  <2>2. AfterBlock(req[w].kind) = "accepted"
    BY <2>1, AfterBlockIs
  <2>3. req[w].pc \notin {"plan", "create", "resend", "wish"}
    BY <1>t, <2>1, RequestIs, KindsKnown
  <2>4. CASE req[w].pc = "save"
    BY <2>1, <2>4 DEF SeenInv, ConnectionSeen, Observe
  <2>5. CASE Connected(Couple(w)) /\ UNCHANGED tables
    <3>1. Connected(Couple(w))'
      BY <1>2, <2>5 DEF Connected, Couple, Moved, tables
    <3> QED
      BY <3>1 DEF Observe
  <2> QED
    BY <1>2, <2>1, <2>2, <2>3, <2>4, <2>5 DEF Follows
<1>3. ASSUME NEW kind, NEW me, NEW peer, Opens(w, kind, me, peer) PROVE FALSE
  BY <1>3 DEF Opens
<1> QED
  BY <1>t, <1>1, <1>2, <1>3, Fates DEF Fate

LEMMA OnceConnectedNext ==
  ASSUME SeenInv, Steps, Observe, TypeInv'
  PROVE  OnceConnected'
<1>t. TypeInv /\ ever \subseteq ever'
  BY DEF SeenInv, Observe
<1>o. OnceConnected
  BY DEF SeenInv
<1>k. ASSUME NEW w \in Workers, Continues(w), Couple(w) \in ever
      PROVE  {req'[w].me, req'[w].peer} \in ever'
  BY <1>t, <1>k DEF Continues, Couple
<1>1. ASSUME NEW w \in met' PROVE req'[w] # Idle /\ Couple(w)' \in ever'
  <2>1. w \in Workers /\ req'[w] # Idle /\ (w \in met \/ Connected(Couple(w))')
    BY <1>1 DEF Observe
  <2>2. CASE w \in met
    <3>1. req[w] # Idle /\ Couple(w) \in ever
      BY <1>o, <2>2 DEF OnceConnected
    <3> QED
      BY <1>t, <1>k, <2>1, <3>1, FateContinues DEF Couple
  <2>3. CASE Connected(Couple(w))'
    <3>1. Couple(w)' \in Couples
      <4>1. <<req'[w].me, req'[w].peer>> \in Pairs
        BY <2>1 DEF TypeInv, TypeOK, RequestsFormed, Formed, Request, Pairs
      <4> QED
        BY <4>1 DEF Couple, Couples
    <3> QED
      BY <2>1, <2>3, <3>1 DEF Observe
  <2> QED
    BY <2>1, <2>2, <2>3
<1>2. ASSUME NEW t \in sockets' PROVE {t.me, t.peer} \in ever'
  <2>1. CASE Aside
    BY <1>t, <1>o, <1>2, <2>1 DEF Aside, OnceConnected
  <2>2. ASSUME NEW w \in Workers, Step(w), Touched(w) PROVE {t.me, t.peer} \in ever'
    <3>1. CASE t \in sockets
      BY <1>t, <1>o, <3>1 DEF OnceConnected
    <3>2. CASE t \notin sockets
      <4>1. req[w] # Idle /\ req[w].pc = "join" /\ t.me = req[w].me /\ t.peer = req[w].peer
        BY <1>2, <1>t, <2>2, <3>2, StepMoves DEF Touched, SocketsTouched
      <4>2. w \in met
        <5>1. req[w].kind = "connect"
          BY <1>t, <4>1, RequestIs, KindsKnown
        <5> QED
          BY <4>1, <5>1 DEF SeenInv, ConnectionSeen
      <4> QED
        BY <1>t, <1>o, <4>1, <4>2 DEF OnceConnected, Couple
    <3> QED
      BY <3>1, <3>2
  <2> QED
    BY <2>1, <2>2 DEF Steps, Dies
<1>3. ASSUME NEW w \in Workers, req'[w] # Idle, req'[w].kind = "say" PROVE Couple(w)' \in ever'
  <2>1. CASE Continues(w)
    BY <1>o, <1>k, <1>3, <2>1 DEF OnceConnected, Continues, Couple
  <2>2. ASSUME NEW s \in sockets, Opens(w, "say", s.me, s.peer) PROVE Couple(w)' \in ever'
    BY <1>t, <1>o, <2>2 DEF Opens, OnceConnected, Couple
  <2>3. ASSUME NEW kind \in Kinds \ {"say"}, NEW me, NEW peer, Opens(w, kind, me, peer) PROVE FALSE
    BY <1>3, <2>3 DEF Opens
  <2>4. Keeps(w) /\ req[w] # Idle => Continues(w)
    BY DEF Keeps, Continues
  <2>5. Step(w) /\ Moved(w, req'[w].pc) => Continues(w)
    BY <1>t, StepMoves DEF Moved, Continues
  <2> QED
    BY <1>t, <1>3, <2>1, <2>2, <2>3, <2>4, <2>5, Fates DEF Fate
<1> QED
  BY <1>1, <1>2, <1>3 DEF OnceConnected

LEMMA SeenNext ==
  ASSUME SeenInv, [Next]_vars
  PROVE  SeenInv'
<1>1. TypeInv' /\ Steps
  BY TypeNext, NextSteps DEF SeenInv
<1>2. CASE Observe
  BY <1>1, <1>2, FreeSeenNext, ConnectionSeenNext, OnceConnectedNext DEF SeenInv
<1>3. CASE UNCHANGED vars
  BY <1>1, <1>3 DEF SeenInv, FreeSeen, ConnectionSeen, OnceConnected, Couple, vars
<1> QED
  BY <1>2, <1>3 DEF Next

LEMMA SeenInit ==
  ASSUME Init
  PROVE  SeenInv
BY TypeInit DEF Init, SeenInv, FreeSeen, ConnectionSeen, OnceConnected

\* A query of a request is a step of that request.
LEMMA StepChanges ==
  ASSUME TypeInv, NEW w \in Workers, Step(w), Goes(w) \/ Ends(w)
  PROVE  req[w] # Idle /\ req'[w] # req[w]
<1>1. req[w] # Idle
  BY StepMoves
<1>2. CASE Ends(w)
  BY <1>1, <1>2 DEF Ends
<1>3. CASE Goes(w)
  <2>1. PICK pc \in Pcs : Moved(w, pc) /\ Follows(w, pc)
    BY <1>3 DEF Goes
  <2>2. AfterBlock(req[w].kind) # "block" \/ req[w].pc # "block"
    BY <1>1, RequestIs, AfterBlockIs, KindsKnown DEF Kinds
  <2>3. pc # req[w].pc
    BY <2>1, <2>2 DEF Follows
  <2> QED
    BY <1>1, <2>1, <2>3 DEF Moved
<1> QED
  BY <1>2, <1>3

\* The writes between two members that a block or the lack of a connection forbids.
Reaches(p) ==
  \/ interest'[p] # interest[p] /\ interest'[p] \in {"pending", "accepted"}
  \/ p \in wished' \ wished
  \/ p \in unread' \ unread
  \/ {p[1], p[2]} \in conversations' \ conversations

LEMMA BlockHeld ==
  ASSUME SeenInv, Steps, NEW p \in Pairs, Reaches(p)
  PROVE  ServedBy({p[1], p[2]}, free)
<1>t. TypeInv
  BY DEF SeenInv
<1>1. PICK w \in Workers : Step(w) /\ (Goes(w) \/ Ends(w)) /\ Touched(w)
  BY DEF Steps, Dies, Aside, Reaches
<1>2. req[w] # Idle /\ req'[w] # req[w]
  BY <1>1, <1>t, StepChanges
<1>o. {Out(w)[1], Out(w)[2]} = Couple(w) /\ {In(w)[1], In(w)[2]} = Couple(w)
  BY DEF Out, In, Couple
<1>3. {p[1], p[2]} = Couple(w) /\ req[w].pc # "block" /\ req[w].kind \notin {"cancel", "block"}
  <2>1. CASE interest'[p] # interest[p] /\ interest'[p] \in {"pending", "accepted"}
    <3>1. /\ p = Out(w) \/ p = In(w)
          /\ \/ req[w].pc \in {"create", "resend", "reciprocate"}
             \/ req[w].pc = "save" /\ req[w].kind = "accept"
      BY <1>1, <2>1 DEF Touched, InterestTouched
    <3>2. req[w].kind \in {"send", "accept"}
      BY <1>t, <1>2, <3>1, RequestIs, KindsKnown
    <3> QED
      BY <1>o, <3>1, <3>2
  <2>2. CASE p \in wished' \ wished
    BY <1>1, <1>o, <2>2 DEF Touched, WishesTouched
  <2>3. CASE p \in unread' \ unread
    BY <1>1, <1>o, <2>3 DEF Touched, ChatTouched
  <2>4. CASE {p[1], p[2]} \in conversations' \ conversations
    BY <1>1, <2>4 DEF Touched, ChatTouched
  <2> QED
    BY <2>1, <2>2, <2>3, <2>4 DEF Reaches
<1>4. w \in free
  BY <1>2, <1>3 DEF SeenInv, FreeSeen
<1> QED
  BY <1>2, <1>3, <1>4 DEF ServedBy

LEMMA ConsentGiven ==
  ASSUME SeenInv, Steps, NEW p \in Pairs,
         \/ p \in (unread' \ unread) \cup (unread \ unread')
         \/ {p[1], p[2]} \in conversations' \ conversations
  PROVE  ServedBy({p[1], p[2]}, met \cup
           {w \in Workers : req[w] # Idle /\ req[w].kind = "say" /\ Couple(w) \in ever})
<1>t. TypeInv
  BY DEF SeenInv
<1>1. PICK w \in Workers : Step(w) /\ (Goes(w) \/ Ends(w)) /\ Touched(w)
  BY DEF Steps, Dies, Aside
<1>2. req[w] # Idle /\ req'[w] # req[w]
  BY <1>1, <1>t, StepChanges
<1>o. {Out(w)[1], Out(w)[2]} = Couple(w) /\ {In(w)[1], In(w)[2]} = Couple(w)
  BY DEF Out, In, Couple
<1>3. /\ {p[1], p[2]} = Couple(w) /\ req[w].pc = "save"
      /\ req[w].kind \in {"start", "post", "say", "read", "connect"}
  BY <1>1, <1>o DEF Touched, ChatTouched
<1>4. \/ w \in met
      \/ req[w].kind = "say" /\ Couple(w) \in ever
  BY <1>2, <1>3 DEF SeenInv, ConnectionSeen, OnceConnected
<1> QED
  BY <1>2, <1>3, <1>4 DEF ServedBy

\* A request that ran behind a block from beginning to end sends and accepts no
\* interest, saves no wish, starts no chat and says nothing.
THEOREM BlocksHold == Spec => BlockHolds
<1>1. SeenInv /\ [Next]_vars =>
        [\A p \in Pairs : Reaches(p) => ServedBy({p[1], p[2]}, free)]_vars
  BY NextSteps, BlockHeld DEF SeenInv
<1>2. Spec => []SeenInv
  BY SeenInit, SeenNext, PTL DEF Spec
<1> QED
  BY <1>1, <1>2, PTL DEF Spec, BlockHolds, Reaches

\* Every chat starts, and every message goes over HTTP, in a request during which the
\* two were connected; over a socket, messages go only between two who were once.
THEOREM ChatsHaveConsent == Spec => ChatNeedsConsent
<1>1. SeenInv /\ [Next]_vars =>
        [\A p \in Pairs :
           \/ p \in (unread' \ unread) \cup (unread \ unread')
           \/ {p[1], p[2]} \in conversations' \ conversations
           => ServedBy({p[1], p[2]}, met \cup
                {w \in Workers : req[w] # Idle /\ req[w].kind = "say" /\ Couple(w) \in ever})]_vars
  BY NextSteps, ConsentGiven DEF SeenInv
<1>2. Spec => []SeenInv
  BY SeenInit, SeenNext, PTL DEF Spec
<1> QED
  BY <1>1, <1>2, PTL DEF Spec, ChatNeedsConsent
=============================================================================
